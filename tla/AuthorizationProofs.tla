------------------------- MODULE AuthorizationProofs -------------------------
(***************************************************************************)
(* Proofs about Authorization and about QueryGuard, which runs it between  *)
(* two validations, for any tables, columns, policies, guards and queries  *)
(* of the form the modules describe, whatever names they use.              *)
(***************************************************************************)
EXTENDS QueryGuard, TLAPS

AfterTables == {"columns", "lineage", "stars", "rows", "approved"}
AfterColumns == AfterTables \ {"columns"}
AfterStars == {"rows", "approved"}
Running == {"permission", "tables", "columns", "lineage", "stars", "rows", "approved"}

TablesAllowed == \A t \in extract_tables(query) : authorize_table(t)
ColumnsAllowed ==
    \E alias_map \in AliasMaps(query) :
        \A ref \in extract_column_refs(query, alias_map) :
            ref[1] \in DerivedAliases(query) \/ authorize_column(ref[1], ref[2])

\* A node the loop over the table nodes has left behind.
Handled(n) ==
    \/ IsTheCte(n) \/ bypass_rls
    \/ ~Unprotected(NameOf(query, n)) /\ FiltersOf(n) \subseteq filters

\* What each check has established for the stages after it.
PermissionOK == stage \in Running \ {"permission"} => has_permission
TablesOK == stage \in AfterTables => TablesAllowed
ColumnsOK == stage \in AfterColumns => ColumnsAllowed
TreeOK == stage \in AfterStars => rewritten = Rewritten
LoopOK ==
    /\ \A n \in TableNodes(query) \ pending : Handled(n)
    /\ stage = "approved" => pending = {}
FiltersOK ==
    /\ pending \subseteq TableNodes(query)
    /\ \A f \in filters : f[1] \in TableNodes(query) /\ ~IsTheCte(f[1]) /\ f[2] \in policy.rows

IInv ==
    /\ query \in Queries
    /\ PermissionOK /\ TablesOK /\ ColumnsOK /\ TreeOK /\ LoopOK /\ FiltersOK

LEMMA InitIInv == Init => IInv
BY DEF Init, IInv, PermissionOK, TablesOK, ColumnsOK, TreeOK, LoopOK, FiltersOK, AfterTables,
       AfterColumns, AfterStars, Running

\* The arguments do not change, nor does what is computed from them.
LEMMA InputFixed == [Next]_vars => UNCHANGED input
BY DEF Next, vars, CheckPermission, CheckTables, CheckColumns, CheckLineage, ExpandStars,
       LookupFails, ApplyRowPolicies, SkipNode, FilterNode, Reject, Pass

LEMMA DecisionsFixed ==
    ASSUME UNCHANGED input
    PROVE  /\ has_permission' <=> has_permission
           /\ bypass_rls' <=> bypass_rls
           /\ TablesAllowed' <=> TablesAllowed
           /\ ColumnsAllowed' <=> ColumnsAllowed
           /\ \A n : IsTheCte(n)' <=> IsTheCte(n)
           /\ \A n : Unprotected(NameOf(query, n))' <=> Unprotected(NameOf(query, n))
           /\ \A n : FiltersOf(n)' = FiltersOf(n)
           /\ Rewritten' = Rewritten
<1>1. query' = query /\ policy' = policy /\ principal' = principal /\ catalog' = catalog
  BY DEF input
<1>2. has_permission' <=> has_permission
  BY <1>1 DEF has_permission
<1>3. bypass_rls' <=> bypass_rls
  BY <1>1 DEF bypass_rls
<1>4. TablesAllowed' <=> TablesAllowed
  BY <1>1 DEF TablesAllowed, authorize_table, TableRules, Matches
<1>5. ColumnsAllowed' <=> ColumnsAllowed
  BY <1>1 DEF ColumnsAllowed, authorize_column, authorize_table, TableRules, ColumnRules, Matches
<1>6. \A n : IsTheCte(n)' <=> IsTheCte(n)
  BY <1>1 DEF IsTheCte
<1>7. \A n : Unprotected(NameOf(query, n))' <=> Unprotected(NameOf(query, n))
  BY <1>1 DEF Unprotected, RowPolicies, Applicable, Matches
<1>8. \A n : FiltersOf(n)' = FiltersOf(n)
  BY <1>1 DEF FiltersOf, RowPolicies, Applicable, Matches
<1>9. Rewritten' = Rewritten
  BY <1>1 DEF Rewritten, Expanding, SomeColumnRule, Restricted, Expanded, Visible, Starred,
     column_policy_defined, authorize_column, authorize_table, TableRules, ColumnRules, Matches,
     Scopes, InnerLineage, InnerScopes, TableScope
<1> QED
  BY <1>2, <1>3, <1>4, <1>5, <1>6, <1>7, <1>8, <1>9

\* Only the loop touches the nodes that are left and the filters.
LEMMA LoopKept ==
    ASSUME LoopOK, FiltersOK, UNCHANGED <<input, pending, filters>>, stage' # "approved"
    PROVE  LoopOK' /\ FiltersOK'
<1>1. query' = query /\ pending' = pending /\ filters' = filters /\ policy' = policy
  BY DEF input
<1>2. ASSUME NEW n \in TableNodes(query) \ pending PROVE Handled(n)'
  <2>1. Handled(n)
    BY DEF LoopOK
  <2> QED
    BY <1>1, <2>1, DecisionsFixed DEF Handled
<1> QED
  BY <1>1, <1>2, DecisionsFixed DEF LoopOK, FiltersOK

\* A step of the loop leaves one node behind, handled.
LEMMA LoopStep ==
    ASSUME IInv, UNCHANGED input, NEW n \in pending, stage' # "approved",
           pending' = pending \ {n}, IsTheCte(n) \/ bypass_rls
                                     \/ (~Unprotected(NameOf(query, n)) /\ FiltersOf(n) \subseteq filters'),
           filters \subseteq filters',
           \A f \in filters' \ filters : f \in FiltersOf(n) /\ ~IsTheCte(n)
    PROVE  LoopOK' /\ FiltersOK'
<1>1. query' = query /\ policy' = policy
  BY DEF input
<1>2. ASSUME NEW m \in TableNodes(query) \ pending' PROVE Handled(m)'
  <2>1. CASE m = n
    BY <1>1, <2>1, DecisionsFixed DEF Handled
  <2>2. CASE m # n
    <3>1. Handled(m)
      BY <2>2 DEF IInv, LoopOK
    <3> QED
      BY <1>1, <3>1, DecisionsFixed DEF Handled
  <2> QED
    BY <2>1, <2>2
<1>3. ASSUME NEW f \in filters'
      PROVE  f[1] \in TableNodes(query) /\ ~IsTheCte(f[1]) /\ f[2] \in policy.rows
  <2>1. CASE f \in filters
    BY <2>1 DEF IInv, FiltersOK
  <2>2. CASE f \notin filters
    <3>1. f[1] = n /\ f[2] \in policy.rows /\ ~IsTheCte(n)
      BY <2>2 DEF FiltersOf, Applicable, RowPolicies
    <3> QED
      BY <3>1 DEF IInv, FiltersOK
  <2> QED
    BY <2>1, <2>2
<1> QED
  BY <1>1, <1>2, <1>3, DecisionsFixed DEF IInv, LoopOK, FiltersOK

LEMMA StepIInv == IInv /\ [Next]_vars => IInv'
<1> SUFFICES ASSUME IInv, [Next]_vars PROVE IInv'
  OBVIOUS
<1> USE InputFixed, DecisionsFixed DEF AfterTables, AfterColumns, AfterStars, Running
<1>1. query' \in Queries /\ UNCHANGED input
  BY DEF input, IInv
<1>2. CASE UNCHANGED vars
  <2>1. UNCHANGED <<stage, rewritten, pending, filters>>
    BY <1>2 DEF vars
  <2>2. LoopOK' /\ FiltersOK'
    <3>1. query' = query /\ policy' = policy
      BY <1>1 DEF input
    <3>2. ASSUME NEW n \in TableNodes(query) \ pending PROVE Handled(n)'
      BY <2>1, <3>1 DEF Handled, IInv, LoopOK
    <3> QED
      BY <2>1, <3>1, <3>2 DEF IInv, LoopOK, FiltersOK
  <2> QED
    BY <1>1, <2>1, <2>2 DEF IInv, PermissionOK, TablesOK, ColumnsOK, TreeOK
<1>3. CASE UNCHANGED <<pending, filters>> /\ stage' \in {"rejected", "raised"}
  BY <1>1, <1>3, LoopKept DEF IInv, PermissionOK, TablesOK, ColumnsOK, TreeOK
<1>4. CASE CheckPermission /\ stage' # "rejected"
  <2>1. stage' = "tables" /\ has_permission /\ UNCHANGED <<pending, filters>>
    BY <1>4 DEF CheckPermission, Pass, Reject
  <2> QED
    BY <1>1, <2>1, LoopKept DEF IInv, PermissionOK, TablesOK, ColumnsOK, TreeOK
<1>5. CASE CheckTables /\ stage' # "rejected"
  <2>1. /\ stage = "tables" /\ stage' = "columns" /\ TablesAllowed
        /\ UNCHANGED <<pending, filters>>
    BY <1>5 DEF CheckTables, Pass, Reject, TablesAllowed
  <2> QED
    BY <1>1, <2>1, LoopKept DEF IInv, PermissionOK, TablesOK, ColumnsOK, TreeOK
<1>6. CASE CheckColumns /\ stage' # "rejected"
  <2>1. /\ stage = "columns" /\ stage' = "lineage" /\ ColumnsAllowed
        /\ UNCHANGED <<pending, filters>>
    BY <1>6 DEF CheckColumns, Pass, Reject, ColumnsAllowed
  <2> QED
    BY <1>1, <2>1, LoopKept DEF IInv, PermissionOK, TablesOK, ColumnsOK, TreeOK
<1>7. CASE CheckLineage /\ stage' # "rejected"
  <2>1. stage = "lineage" /\ stage' = "stars" /\ UNCHANGED <<pending, filters>>
    BY <1>7 DEF CheckLineage, Pass, Reject
  <2> QED
    BY <1>1, <2>1, LoopKept DEF IInv, PermissionOK, TablesOK, ColumnsOK, TreeOK
<1>8. CASE ExpandStars /\ stage' # "rejected"
  <2>1. /\ stage = "stars" /\ stage' = "rows" /\ rewritten' = Rewritten
        /\ UNCHANGED <<pending, filters>>
    BY <1>8 DEF ExpandStars, Reject
  <2> QED
    BY <1>1, <2>1, LoopKept DEF IInv, PermissionOK, TablesOK, ColumnsOK, TreeOK
<1>9. CASE ApplyRowPolicies /\ stage' # "rejected"
  <2>1. CASE pending = {} /\ Pass("approved")
    <3>1. /\ stage = "rows" /\ stage' = "approved" /\ rewritten' = rewritten
          /\ UNCHANGED <<pending, filters>>
      BY <1>9, <2>1 DEF ApplyRowPolicies, Pass
    <3>2. LoopOK' /\ FiltersOK'
      <4>1. query' = query /\ policy' = policy
        BY <1>1 DEF input
      <4>2. ASSUME NEW n \in TableNodes(query) \ pending PROVE Handled(n)'
        BY <3>1, <4>1 DEF Handled, IInv, LoopOK
      <4> QED
        BY <2>1, <3>1, <4>1, <4>2 DEF IInv, LoopOK, FiltersOK
    <3> QED
      BY <1>1, <3>1, <3>2 DEF IInv, PermissionOK, TablesOK, ColumnsOK, TreeOK
  <2>2. ASSUME NEW n \in pending, SkipNode(n) \/ FilterNode(n)
        PROVE  /\ stage = "rows" /\ stage' = "rows" /\ rewritten' = rewritten
               /\ LoopOK' /\ FiltersOK'
    <3>1. stage = "rows" /\ stage' = "rows" /\ rewritten' = rewritten
      BY <1>9, <2>2 DEF ApplyRowPolicies, SkipNode, FilterNode, Reject
    <3>2. CASE SkipNode(n)
      BY <1>1, <3>1, <3>2, LoopStep DEF SkipNode
    <3>3. CASE FilterNode(n)
      <4>1. /\ ~IsTheCte(n) /\ ~Unprotected(NameOf(query, n))
            /\ filters' = filters \cup FiltersOf(n) /\ pending' = pending \ {n}
        BY <3>1, <3>3 DEF FilterNode, Reject
      <4> QED
        BY <1>1, <3>1, <4>1, LoopStep
    <3> QED
      BY <2>2, <3>1, <3>2, <3>3
  <2>3. CASE \E n \in pending : SkipNode(n) \/ FilterNode(n)
    <3>1. /\ stage = "rows" /\ stage' = "rows" /\ rewritten' = rewritten
          /\ LoopOK' /\ FiltersOK'
      BY <2>2, <2>3
    <3> QED
      BY <1>1, <3>1 DEF IInv, PermissionOK, TablesOK, ColumnsOK, TreeOK
  <2> QED
    BY <1>9, <2>1, <2>3 DEF ApplyRowPolicies
<1>10. stage' = "rejected" => UNCHANGED <<pending, filters>> \/ UNCHANGED vars
  BY DEF Next, CheckPermission, CheckTables, CheckColumns, CheckLineage, ExpandStars,
     LookupFails, ApplyRowPolicies, SkipNode, FilterNode, Pass, Reject
<1>11. LookupFails => stage' = "raised" /\ UNCHANGED <<pending, filters>>
  BY DEF LookupFails, Pass
<1> QED
  BY <1>2, <1>3, <1>4, <1>5, <1>6, <1>7, <1>8, <1>9, <1>10, <1>11 DEF Next

\* What the checks have established is an invariant for any policy and any query, whatever
\* its tables, aliases and CTE are called.
THEOREM AuthorizationInvariant == Spec => []IInv
<1> QED
  BY InitIInv, StepIInv, PTL DEF Spec

-----------------------------------------------------------------------------
(* The rewritten query has the sources of the query *)

LEMMA QueryForm ==
    ASSUME NEW q \in Queries
    PROVE  /\ q = [kind |-> q.kind, name |-> q.name, inner |-> q.inner, main |-> q.main]
           /\ q.kind \in {"flat", "cte", "derived"}
           /\ q.name \in Names
           /\ q.kind # "flat" => WellFormed(q.inner, Tables)
           /\ WellFormed(q.main, Tables \cup CteNames(q) \cup {Derived})
           /\ Derived \in Range(q.main.from) => q.kind = "derived"
<1>1. WellFormedQuery(q)
  BY AuthorizationAssumption
<1>2. \A s, x, y : WellFormed(s, x) /\ x \subseteq y => WellFormed(s, y)
  BY DEF WellFormed
<1>3. CASE q.kind = "flat"
  BY <1>1, <1>2, <1>3, AuthorizationAssumption DEF WellFormedQuery, WellFormed, CteNames, Range
<1>4. CASE q.kind = "cte"
  BY <1>1, <1>2, <1>4, AuthorizationAssumption DEF WellFormedQuery, WellFormed, CteNames, Range
<1>5. CASE q.kind = "derived"
  BY <1>1, <1>2, <1>5, AuthorizationAssumption DEF WellFormedQuery, WellFormed, CteNames, Range
<1> QED
  BY <1>1, <1>3, <1>4, <1>5 DEF WellFormedQuery

LEMMA ScopeForm ==
    ASSUME query \in Queries, NEW p \in Parts(query)
    PROVE  /\ p \in {"inner", "main"}
           /\ query[p] = [from |-> query[p].from, list |-> query[p].list, where |-> query[p].where]
           /\ query[p].list \cup query[p].where \subseteq References
           /\ \A ref \in query[p].list \cup query[p].where :
                 ref.of \in DOMAIN query[p].from \cup {Anywhere}
           /\ \A ref \in query[p].where : ref.name # Star
           /\ \A a \in DOMAIN query[p].from :
                 /\ a \in Names /\ a # Anywhere
                 /\ query[p].from[a] \notin Virtual(query, p)
                       => query[p].from[a] \in Tables /\ query[p].from[a] # Derived
<1>1. p = "main" \/ (p = "inner" /\ query.kind # "flat")
  BY DEF Parts
<1>2. CASE p = "main"
  <2>1. WellFormed(query[p], Tables \cup CteNames(query) \cup {Derived})
    BY <1>2, QueryForm
  <2> QED
    BY <1>2, <2>1, AuthorizationAssumption DEF WellFormed, Virtual
<1>3. CASE p = "inner" /\ query.kind # "flat"
  <2>1. WellFormed(query[p], Tables)
    BY <1>3, QueryForm
  <2> QED
    BY <1>3, <2>1, AuthorizationAssumption DEF WellFormed, Virtual
<1> QED
  BY <1>1, <1>2, <1>3

\* The expansion of stars touches the lists only.
LEMMA ExpansionKeepsSources ==
    ASSUME query \in Queries
    PROVE  /\ Rewritten.kind = query.kind /\ Rewritten.name = query.name
           /\ \A p \in Parts(query) :
                 /\ Rewritten[p].from = query[p].from
                 /\ Rewritten[p].where = query[p].where
                 /\ Rewritten[p].list = IF p \in Expanding THEN Expanded(p).list ELSE query[p].list
<1>1. query = [kind |-> query.kind, name |-> query.name, inner |-> query.inner, main |-> query.main]
  BY QueryForm
<1>2. Rewritten.kind = query.kind /\ Rewritten.name = query.name
  BY <1>1 DEF Rewritten
<1>3. ASSUME NEW p \in Parts(query)
      PROVE  /\ Rewritten[p].from = query[p].from
             /\ Rewritten[p].where = query[p].where
             /\ Rewritten[p].list = IF p \in Expanding THEN Expanded(p).list ELSE query[p].list
  <2>1. query[p] = [from |-> query[p].from, list |-> query[p].list, where |-> query[p].where]
    BY ScopeForm
  <2>2. Rewritten[p] = IF p \in Expanding THEN Expanded(p) ELSE query[p]
    BY <1>1, ScopeForm DEF Rewritten
  <2>3. Expanded(p).from = query[p].from /\ Expanded(p).where = query[p].where
    BY <2>1 DEF Expanded
  <2> QED
    BY <2>2, <2>3
<1> QED
  BY <1>2, <1>3

LEMMA SameNames ==
    ASSUME query \in Queries
    PROVE  /\ Parts(Rewritten) = Parts(query)
           /\ CteNames(Rewritten) = CteNames(query)
           /\ Sources(Rewritten) = Sources(query)
           /\ \A n \in Sources(query) : NameOf(Rewritten, n) = NameOf(query, n)
           /\ TableNodes(Rewritten) = TableNodes(query)
           /\ Occurrences(Rewritten) = Occurrences(query)
           /\ TablesRead(Rewritten) = TablesRead(query)
           /\ \A p : Virtual(Rewritten, p) = Virtual(query, p)
<1>1. Parts(Rewritten) = Parts(query) /\ CteNames(Rewritten) = CteNames(query)
  BY ExpansionKeepsSources DEF Parts, CteNames
<1>2. Sources(Rewritten) = Sources(query)
  BY <1>1, ExpansionKeepsSources DEF Sources
<1>3. ASSUME NEW n \in Sources(query) PROVE NameOf(Rewritten, n) = NameOf(query, n)
  BY ExpansionKeepsSources DEF NameOf, Sources
<1>4. \A p : Virtual(Rewritten, p) = Virtual(query, p)
  BY <1>1 DEF Virtual
<1>5. TableNodes(Rewritten) = TableNodes(query)
  BY <1>2, <1>3 DEF TableNodes
<1>6. Occurrences(Rewritten) = Occurrences(query)
  BY <1>2, <1>3, <1>4 DEF Occurrences
<1>7. TablesRead(Rewritten) = TablesRead(query)
  <2>1. \A n \in Occurrences(query) : n \in Sources(query)
    BY DEF Occurrences
  <2> QED
    BY <1>3, <1>6, <2>1 DEF TablesRead
<1> QED
  BY <1>1, <1>2, <1>3, <1>4, <1>5, <1>6, <1>7

\* A source that is read is a table node, and its name is a table's.
LEMMA OccurrencesAreNodes ==
    ASSUME query \in Queries, NEW n \in Occurrences(query)
    PROVE  /\ n \in TableNodes(query)
           /\ NameOf(query, n) \in Tables
           /\ NameOf(query, n) \notin CteNames(query) => NameOf(query, n) \in extract_tables(query)
<1>1. PICK p \in Parts(query) : n \in {p} \X DOMAIN query[p].from
  BY DEF Occurrences, Sources
<1>2. PICK a \in DOMAIN query[p].from : n = <<p, a>>
  BY <1>1
<1>3. NameOf(query, n) = query[p].from[a] /\ query[p].from[a] \notin Virtual(query, p)
  BY <1>2 DEF NameOf, Occurrences
<1>4. NameOf(query, n) \in Tables /\ NameOf(query, n) # Derived
  BY <1>3, ScopeForm
<1> QED
  BY <1>4 DEF TableNodes, extract_tables, Occurrences

\* No use of a table is left without the row policies for the principal.
THEOREM AuthorizationRowsAreFiltered == Spec => []RowsAreFiltered
<1>1. ASSUME IInv, stage = "approved", ~bypass_rls, NEW n \in Occurrences(rewritten),
             NameOf(rewritten, n) \notin CteNames(rewritten)
      PROVE  /\ RowPolicies(NameOf(rewritten, n)) # {} => \E r \in policy.rows : <<n, r>> \in filters
             /\ \A r \in RowPolicies(NameOf(rewritten, n)) : Matches(r) => <<n, r>> \in filters
  <2> DEFINE t == NameOf(query, n)
  <2>1. rewritten = Rewritten /\ query \in Queries /\ pending = {}
    BY <1>1 DEF IInv, TreeOK, LoopOK, AfterStars
  <2>2. n \in TableNodes(query) /\ NameOf(rewritten, n) = t /\ t \notin CteNames(query)
    <3>1. n \in Occurrences(query) /\ n \in Sources(query)
      BY <1>1, <2>1, SameNames DEF Occurrences
    <3> QED
      BY <1>1, <2>1, <3>1, SameNames, OccurrencesAreNodes
  <2>3. ~Unprotected(t) /\ FiltersOf(n) \subseteq filters
    BY <1>1, <2>1, <2>2 DEF IInv, LoopOK, Handled, IsTheCte
  <2>4. ASSUME NEW r \in Applicable(t) PROVE r \in policy.rows /\ <<n, r>> \in filters
    BY <2>3, <2>4 DEF FiltersOf, Applicable, RowPolicies
  <2>5. RowPolicies(t) # {} => Applicable(t) # {}
    BY <2>3 DEF Unprotected
  <2> QED
    BY <2>2, <2>4, <2>5 DEF Applicable
<1>2. IInv => RowsAreFiltered
  BY <1>1 DEF RowsAreFiltered
<1> QED
  BY <1>2, AuthorizationInvariant, PTL

-----------------------------------------------------------------------------
\* Outputs whose sources the principal may all see.
Seen(outputs) == \A o \in outputs : \A source \in o.sources : authorize_column(source[1], source[2])

Granted == query \in Queries /\ TablesAllowed /\ ColumnsAllowed /\ NamesApart(query)

\* The order of the three tests of authorize_column() is that of the documents.
LEMMA AuthorizedIsMaySee ==
    ASSUME NEW t, NEW c
    PROVE  /\ authorize_table(t) <=> MayRead(t)
           /\ authorize_column(t, c) <=> MaySee(t, c)
<1>1. authorize_table(t) <=> MayRead(t)
  BY DEF authorize_table, MayRead, Effects
<1>2. authorize_column(t, c) <=> MaySee(t, c)
  BY <1>1 DEF authorize_column, MaySee, Effects
<1> QED
  BY <1>1, <1>2

LEMMA OpenTableIsSeen ==
    ASSUME NEW t, NEW c, authorize_table(t), ~column_policy_defined(t)
    PROVE  authorize_column(t, c)
BY DEF authorize_column, column_policy_defined

\* When the names of a query are apart, an alias of a source that is read is resolved to
\* the source's table, and no CTE or derived table hides it.
LEMMA ApartIsResolved ==
    ASSUME query \in Queries, NamesApart(query), NEW alias_map \in AliasMaps(query),
           NEW p \in Parts(query), NEW a \in DOMAIN query[p].from,
           query[p].from[a] \notin Virtual(query, p)
    PROVE  /\ query[p].from[a] \in Tables
           /\ query[p].from[a] \in extract_tables(query)
           /\ query[p].from[a] \notin DerivedAliases(query)
           /\ query[p].from[a] \notin CteNames(query) \cup {Derived}
           /\ alias_map[a] = query[p].from[a]
           /\ <<p, a>> \in TableNodes(query)
<1> DEFINE n == <<p, a>>
           t == query[p].from[a]
<1>1. n \in Sources(query) /\ NameOf(query, n) = t
  BY DEF Sources, NameOf
<1>2. n \in Occurrences(query)
  BY <1>1 DEF Occurrences
<1>3. n \in TableNodes(query) /\ t \in Tables
  BY <1>1, <1>2, OccurrencesAreNodes
<1>4. t \notin DerivedAliases(query)
  BY <1>1, <1>2 DEF NamesApart, TablesRead
<1>5. t \notin CteNames(query)
  BY <1>4 DEF CteNames, DerivedAliases
<1>6. t \in extract_tables(query)
  BY <1>1, <1>3, <1>5 DEF extract_tables
<1>7. alias_map[a] = t
  <2>1. Claimants(query, a) = {t}
    BY <1>1, <1>3 DEF NamesApart
  <2>2. a \in Aliases(query)
    BY <1>1 DEF Aliases
  <2> QED
    BY <2>1, <2>2 DEF AliasMaps
<1> QED
  BY <1>3, <1>4, <1>5, <1>6, <1>7, AuthorizationAssumption

\* What a reference by name selects was checked with the columns of the query.
LEMMA NamedIsSeen ==
    ASSUME Granted, NEW p \in Parts(query),
           NEW ref \in Explicit(query[p]) \cup query[p].where,
           NEW inner, Seen(inner)
    PROVE  Seen(Selects(ref, query[p].from, Virtual(query, p), inner))
<1> DEFINE from == query[p].from
           virtual == Virtual(query, p)
           found == {o \in Offers(ref, from, virtual, inner) : o.name = ref.name}
<1>1. ref.name # Star /\ ref \in {r \in query[p].list : ~IsStar(r)} \cup query[p].where
  BY ScopeForm DEF Explicit, IsStar, Granted
<1>2. PICK alias_map \in AliasMaps(query) :
         \A c \in extract_column_refs(query, alias_map) :
            c[1] \in DerivedAliases(query) \/ authorize_column(c[1], c[2])
  BY DEF Granted, ColumnsAllowed
<1>3. RefsOf(ref, query, alias_map) \subseteq extract_column_refs(query, alias_map)
  BY <1>1 DEF extract_column_refs
<1>4. ASSUME NEW o \in found, NEW source \in o.sources
      PROVE  authorize_column(source[1], source[2])
  <2>1. PICK a \in DOMAIN from : /\ ref.of = Anywhere \/ a = ref.of
                                 /\ o \in IF from[a] \in virtual THEN inner ELSE Rows(from[a])
    BY DEF Offers
  <2>2. CASE from[a] \in virtual
    BY <2>1, <2>2 DEF Seen
  <2>3. CASE from[a] \notin virtual
    <3>1. source = <<from[a], ref.name>>
      BY <2>1, <2>3 DEF Rows
    <3>2. /\ from[a] \in extract_tables(query) /\ from[a] \notin DerivedAliases(query)
          /\ alias_map[a] = from[a]
      BY <2>3, ApartIsResolved DEF Granted
    <3>3. <<from[a], ref.name>> \in RefsOf(ref, query, alias_map)
      <4>1. a # Anywhere
        BY ScopeForm DEF Granted
      <4> QED
        BY <2>1, <3>2, <4>1 DEF RefsOf
    <3> QED
      BY <1>2, <1>3, <3>1, <3>2, <3>3
  <2> QED
    BY <2>2, <2>3
<1>5. Selects(ref, from, virtual, inner) =
        IF found = {} THEN {} ELSE {[name |-> ref.as, sources |-> SourcesOf(found)]}
  BY <1>1 DEF Selects
<1> HIDE DEF found
<1>6. \A source \in SourcesOf(found) : authorize_column(source[1], source[2])
  BY <1>4 DEF SourcesOf
<1> QED
  BY <1>5, <1>6 DEF Seen

LEMMA PhysicalNames ==
    ASSUME NEW p, NEW a \in DOMAIN query[p].from, query[p].from[a] # Derived
    PROVE  query[p].from[a] \in Range(Physical(query, p))
BY DEF Physical, RestrictValues, Restrict, Range

\* A star that is not expanded selects from tables without rules on columns.
LEMMA StarIsSeen ==
    ASSUME Granted, NEW p \in Parts(query), p \notin Expanding,
           NEW ref \in query[p].list, ref.name = Star,
           NEW inner, Seen(inner)
    PROVE  Seen(Selects(ref, query[p].from, Virtual(query, p), inner))
<1> SUFFICES ASSUME NEW o \in Offers(ref, query[p].from, Virtual(query, p), inner),
                    NEW source \in o.sources
             PROVE  authorize_column(source[1], source[2])
  BY DEF Selects, Seen
<1>1. PICK a \in DOMAIN query[p].from :
         o \in IF query[p].from[a] \in Virtual(query, p) THEN inner ELSE Rows(query[p].from[a])
  BY DEF Offers
<1> DEFINE t == query[p].from[a]
<1>2. CASE t \in Virtual(query, p)
  BY <1>1, <1>2 DEF Seen
<1>3. CASE t \notin Virtual(query, p)
  <2>1. source[1] = t
    BY <1>1, <1>3 DEF Rows
  <2>2. AliasMaps(query) # {}
    BY DEF Granted, ColumnsAllowed
  <2>3. t \in extract_tables(query) /\ t # Derived /\ <<p, a>> \in TableNodes(query)
    BY <1>3, <2>2, ApartIsResolved DEF Granted
  <2>4. ~column_policy_defined(t)
    <3>1. ASSUME column_policy_defined(t) PROVE FALSE
      <4>1. NameOf(query, <<p, a>>) = t
        BY DEF NameOf
      <4>2. SomeColumnRule
        BY <2>3, <3>1, <4>1 DEF SomeColumnRule
      <4>3. Restricted(p)
        BY <2>3, <3>1, PhysicalNames DEF Restricted
      <4> QED
        BY <4>2, <4>3 DEF Expanding
    <3> QED
      BY <3>1
  <2> QED
    BY <2>1, <2>3, <2>4, OpenTableIsSeen DEF Granted, TablesAllowed
<1> QED
  BY <1>2, <1>3

\* A star that is expanded is replaced by columns that were checked one by one.
LEMMA ExpandedIsSeen ==
    ASSUME Granted, NEW p \in Parts(query),
           NEW s \in Starred(p), NEW v \in Visible(p, s),
           NEW inner, Seen(inner)
    PROVE  Seen(Selects([of |-> s, name |-> v.name, as |-> v.name], query[p].from,
                        Virtual(query, p), inner))
<1> DEFINE ref == [of |-> s, name |-> v.name, as |-> v.name]
           t == query[p].from[s]
           virtual == Virtual(query, p)
           offers == IF t \in virtual THEN inner ELSE Rows(t)
<1>1. s \in DOMAIN query[p].from /\ s # Anywhere
  BY ScopeForm DEF Starred, Granted
<1>2. Offers(ref, query[p].from, virtual, inner) = offers
  BY <1>1 DEF Offers
<1>3. ASSUME NEW o \in offers, v.name = Star \/ o.name = v.name, NEW source \in o.sources
      PROVE  authorize_column(source[1], source[2])
  <2>1. CASE t \in virtual
    BY <1>3, <2>1 DEF Seen
  <2>2. CASE t \notin virtual
    <3>1. AliasMaps(query) # {}
      BY DEF Granted, ColumnsAllowed
    <3>2. t \in Tables /\ t \notin CteNames(query) \cup {Derived}
      BY <1>1, <2>2, <3>1, ApartIsResolved DEF Granted
    <3>3. Scopes(query, p)[s] = TableScope(t)
      BY <1>1, <3>2 DEF Scopes
    <3>4. v \in TableScope(t).outputs
          /\ \A x \in v.sources : authorize_column(x[1], x[2])
      BY <3>3 DEF Visible
    <3>5. PICK c \in SchemaOf[t] : v = [name |-> c, sources |-> {<<t, c>>}]
      BY <3>4 DEF TableScope
    <3>6. v.name = c /\ c # Star /\ v.sources = {<<t, c>>}
      BY <3>2, <3>5, AuthorizationAssumption
    <3>7. source = <<t, c>>
      BY <1>3, <2>2, <3>6 DEF Rows
    <3> QED
      BY <3>4, <3>6, <3>7
  <2> QED
    BY <2>1, <2>2
<1> HIDE DEF offers
<1>4. CASE v.name = Star
  BY <1>2, <1>3, <1>4 DEF Selects, Seen
<1>5. CASE v.name # Star
  <2> DEFINE found == {o \in offers : o.name = v.name}
  <2>1. \A source \in SourcesOf(found) : authorize_column(source[1], source[2])
    BY <1>3 DEF SourcesOf
  <2>2. Selects(ref, query[p].from, virtual, inner) =
          IF found = {} THEN {} ELSE {[name |-> v.name, sources |-> SourcesOf(found)]}
    BY <1>2, <1>5 DEF Selects
  <2> HIDE DEF found, ref
  <2>3. Seen(Selects(ref, query[p].from, virtual, inner))
    BY <2>1, <2>2 DEF Seen
  <2> QED
    BY <2>3 DEF ref
<1> QED
  BY <1>4, <1>5

\* So a SELECT of the rewritten query yields, and filters by, what may be seen, if its
\* derived table does.
LEMMA ScopeIsSeen ==
    ASSUME Granted, NEW p \in Parts(query), NEW inner, Seen(inner),
           NEW refs \in SUBSET (Rewritten[p].list \cup Rewritten[p].where)
    PROVE  Seen(SelectedBy(Rewritten, p, refs, inner))
<1>1. /\ Rewritten[p].from = query[p].from
      /\ Rewritten[p].where = query[p].where
      /\ Rewritten[p].list = IF p \in Expanding THEN Expanded(p).list ELSE query[p].list
      /\ Virtual(Rewritten, p) = Virtual(query, p)
  BY ExpansionKeepsSources, SameNames DEF Granted
<1>2. ASSUME NEW ref \in Rewritten[p].list
      PROVE  Seen(Selects(ref, query[p].from, Virtual(query, p), inner))
  <2>1. CASE ref \in Explicit(query[p])
    BY <2>1, NamedIsSeen
  <2>2. CASE p \notin Expanding /\ ref \notin Explicit(query[p])
    BY <1>1, <1>2, <2>2, StarIsSeen DEF Explicit
  <2>3. CASE p \in Expanding /\ ref \notin Explicit(query[p])
    <3>1. ref \in Expanded(p).list
      BY <1>1, <1>2, <2>3
    <3>2. query[p] = [from |-> query[p].from, list |-> query[p].list, where |-> query[p].where]
      BY ScopeForm DEF Granted
    <3>3. PICK s \in Starred(p) : \E v \in Visible(p, s) :
             ref = [of |-> s, name |-> v.name, as |-> v.name]
      BY <2>3, <3>1, <3>2 DEF Expanded
    <3> QED
      BY <3>3, ExpandedIsSeen
  <2> QED
    BY <2>1, <2>2, <2>3
<1>3. ASSUME NEW ref \in query[p].where
      PROVE  Seen(Selects(ref, query[p].from, Virtual(query, p), inner))
  BY <1>3, NamedIsSeen
<1> QED
  BY <1>1, <1>2, <1>3 DEF SelectedBy, Seen

\* What an approved query reads, when its names are apart, may be seen.
LEMMA ReadIsSeen ==
    ASSUME Granted, NEW source \in Read(Rewritten)
    PROVE  authorize_column(source[1], source[2])
<1>1. Seen({}) /\ "main" \in Parts(query)
  BY DEF Seen, Parts
<1>2. Rewritten.kind = query.kind
  BY ExpansionKeepsSources DEF Granted
<1>3. ASSUME query.kind # "flat", NEW refs \in SUBSET (Rewritten.inner.list \cup Rewritten.inner.where)
      PROVE  Seen(SelectedBy(Rewritten, "inner", refs, {}))
  <2>1. "inner" \in Parts(query)
    BY <1>3 DEF Parts
  <2> QED
    BY <1>1, <1>3, <2>1, ScopeIsSeen
<1>4. Seen(InnerOutputs(Rewritten))
  BY <1>1, <1>2, <1>3 DEF InnerOutputs
<1>5. Seen(SelectedBy(Rewritten, "main", Rewritten.main.list \cup Rewritten.main.where,
                      InnerOutputs(Rewritten)))
  BY <1>1, <1>4, ScopeIsSeen
<1>6. ASSUME NEW outputs, Seen(outputs), NEW x \in SourcesOf(outputs)
      PROVE  authorize_column(x[1], x[2])
  BY <1>6 DEF Seen, SourcesOf
<1> QED
  BY <1>2, <1>3, <1>5, <1>6 DEF Read

\* An approved query reads tables the principal may read and, when its names are apart,
\* columns the policy lets it see, and nothing else.
THEOREM AuthorizationReadsOnlyAuthorized == Spec => []ReadsOnlyAuthorized
<1>1. ASSUME IInv, stage = "approved"
      PROVE  /\ has_permission
             /\ \A t \in TablesRead(rewritten) \ CteNames(rewritten) : MayRead(t)
             /\ NamesApart(query) => \A source \in Read(rewritten) : MaySee(source[1], source[2])
  <2>1. /\ query \in Queries /\ TablesAllowed /\ ColumnsAllowed
        /\ rewritten = Rewritten /\ has_permission
    BY <1>1 DEF IInv, PermissionOK, TablesOK, ColumnsOK, TreeOK, AfterTables, AfterColumns,
       AfterStars, Running
  <2>2. ASSUME NEW t \in TablesRead(rewritten) \ CteNames(rewritten) PROVE MayRead(t)
    <3>1. t \in extract_tables(query)
      BY <2>1, <2>2, SameNames, OccurrencesAreNodes DEF TablesRead
    <3> QED
      BY <2>1, <3>1, AuthorizedIsMaySee DEF TablesAllowed
  <2>3. ASSUME NamesApart(query), NEW source \in Read(rewritten)
        PROVE  MaySee(source[1], source[2])
    <3>1. Granted
      BY <2>1, <2>3 DEF Granted
    <3> QED
      BY <2>1, <2>3, <3>1, ReadIsSeen, AuthorizedIsMaySee
  <2> QED
    BY <2>1, <2>2, <2>3
<1>2. IInv => ReadsOnlyAuthorized
  BY <1>1 DEF ReadsOnlyAuthorized
<1> QED
  BY <1>2, AuthorizationInvariant, PTL

-----------------------------------------------------------------------------
\* Nothing in the policy restricts the query.
Open ==
    /\ has_permission
    /\ \A t \in extract_tables(query) : authorize_table(t) /\ RowPolicies(t) = {}
    /\ \A t \in Names : ~column_policy_defined(t)

Passing ==
    /\ query \in Queries /\ pending \subseteq TableNodes(query)
    /\ Open => stage \notin {"rejected", "raised"} /\ rewritten = query

LEMMA OpenFixed == UNCHANGED input => (Open' <=> Open)
BY DEF Open, input, has_permission, authorize_table, TableRules, Matches, RowPolicies,
       column_policy_defined, ColumnRules

LEMMA NodesAreNamed ==
    ASSUME query \in Queries, NEW n \in TableNodes(query)
    PROVE  /\ NameOf(query, n) \in Names
           /\ NameOf(query, n) \in extract_tables(query) \/ NameOf(query, n) \in CteNames(query)
<1>1. PICK p \in Parts(query) : \E a \in DOMAIN query[p].from : n = <<p, a>>
  BY DEF TableNodes, Sources
<1>2. PICK a \in DOMAIN query[p].from : n = <<p, a>>
  BY <1>1
<1>3. NameOf(query, n) = query[p].from[a] /\ NameOf(query, n) # Derived
  BY <1>2 DEF NameOf, TableNodes
<1>4. CASE query[p].from[a] \in Virtual(query, p)
  BY <1>3, <1>4, QueryForm DEF Virtual, CteNames
<1>5. CASE query[p].from[a] \notin Virtual(query, p)
  BY <1>3, <1>5, ScopeForm, AuthorizationAssumption DEF extract_tables
<1> QED
  BY <1>4, <1>5

\* Every column the parser finds is one of a table of the query, or of the CTE or derived
\* table.
LEMMA RefsAreListed ==
    ASSUME query \in Queries, NEW alias_map \in AliasMaps(query),
           NEW pair \in extract_column_refs(query, alias_map)
    PROVE  pair[1] \in extract_tables(query) \cup DerivedAliases(query)
<1>1. PICK p \in Parts(query) :
         \E ref \in query[p].list \cup query[p].where : pair \in RefsOf(ref, query, alias_map)
  BY DEF extract_column_refs
<1>2. PICK ref \in query[p].list \cup query[p].where : pair \in RefsOf(ref, query, alias_map)
  BY <1>1
<1>3. CASE ref.of = Anywhere
  BY <1>2, <1>3 DEF RefsOf
<1>4. CASE ref.of # Anywhere
  <2> DEFINE a == ref.of
  <2>1. pair = <<alias_map[a], ref.name>> /\ a \in DOMAIN query[p].from
    BY <1>2, <1>4, ScopeForm DEF RefsOf
  <2>2. <<p, a>> \in Sources(query) /\ NameOf(query, <<p, a>>) = query[p].from[a]
    BY <2>1 DEF Sources, NameOf
  <2>3. alias_map[a] \in IF Claimants(query, a) = {} THEN {a} ELSE Claimants(query, a)
    <3>1. a \in Aliases(query)
      BY <2>2 DEF Aliases
    <3> QED
      BY <3>1 DEF AliasMaps
  <2>4. CASE Claimants(query, a) # {}
    <3>1. PICK n \in TableNodes(query) : alias_map[a] = NameOf(query, n)
      BY <2>3, <2>4 DEF Claimants
    <3> QED
      BY <2>1, <3>1, NodesAreNamed DEF CteNames, DerivedAliases
  <2>5. CASE Claimants(query, a) = {}
    <3>1. query[p].from[a] = Derived
      <4>1. <<p, a>> \notin TableNodes(query)
        BY <2>5 DEF Claimants
      <4> QED
        BY <2>2, <4>1 DEF TableNodes
    <3>2. p = "main"
      BY <2>1, <3>1, ScopeForm, AuthorizationAssumption DEF Virtual
    <3>3. a = query.name /\ query.kind # "flat"
      <4>1. WellFormedQuery(query)
        BY AuthorizationAssumption
      <4>2. Derived \in Range(query.main.from)
        BY <2>1, <3>1, <3>2 DEF Range
      <4> QED
        BY <2>1, <3>1, <3>2, <4>1, <4>2, QueryForm DEF WellFormedQuery
    <3> QED
      BY <2>1, <2>3, <2>5, <3>3 DEF DerivedAliases
  <2> QED
    BY <2>4, <2>5
<1> QED
  BY <1>3, <1>4

\* Without rules on columns no star is expanded, and nothing is looked up.
LEMMA OpenIsNotRewritten ==
    ASSUME query \in Queries, Open
    PROVE  ~SomeColumnRule /\ ~Traced /\ Expanding = {} /\ Rewritten = query
<1>1. ~SomeColumnRule
  BY NodesAreNamed DEF SomeColumnRule, Open
<1>2. Expanding = {}
  BY <1>1 DEF Expanding
<1>3. query = [kind |-> query.kind, name |-> query.name, inner |-> query.inner, main |-> query.main]
  BY QueryForm
<1>4. Rewritten = query
  BY <1>2, <1>3 DEF Rewritten
<1>5. ~Traced
  <2>1. ASSUME NEW t \in extract_tables(query) PROVE ~column_policy_defined(t)
    BY NodesAreNamed DEF extract_tables, Open
  <2> QED
    BY <2>1 DEF Traced
<1> QED
  BY <1>1, <1>2, <1>4, <1>5

\* No check refuses or changes a query that nothing restricts.
THEOREM AuthorizationOpenQueryPasses == Spec => []OpenQueryPasses
<1>1. Init => Passing
  BY DEF Init, Passing
<1>2. ASSUME Passing, [Next]_vars, Open PROVE stage' \notin {"rejected", "raised"} /\ rewritten' = query
  <2>1. query \in Queries /\ stage \notin {"rejected", "raised"} /\ rewritten = query
    BY <1>2 DEF Passing
  <2>2. CASE UNCHANGED vars
    BY <2>1, <2>2 DEF vars
  <2>3. CASE CheckPermission
    BY <1>2, <2>1, <2>3 DEF CheckPermission, Pass, Open
  <2>4. CASE CheckTables
    BY <1>2, <2>1, <2>4 DEF CheckTables, Pass, Open
  <2>5. CASE CheckColumns
    <3>1. ASSUME NEW alias_map \in AliasMaps(query), NEW ref \in extract_column_refs(query, alias_map),
                 ref[1] \notin DerivedAliases(query)
          PROVE  authorize_column(ref[1], ref[2])
      <4>1. ref[1] \in extract_tables(query)
        BY <2>1, <3>1, RefsAreListed
      <4>2. authorize_table(ref[1]) /\ ~column_policy_defined(ref[1])
        BY <1>2, <2>1, <4>1, NodesAreNamed DEF Open, extract_tables
      <4> QED
        BY <4>2, OpenTableIsSeen
    <3> QED
      BY <2>1, <2>5, <3>1 DEF CheckColumns, Pass
  <2>6. CASE CheckLineage
    BY <1>2, <2>1, <2>6, OpenIsNotRewritten DEF CheckLineage, Pass
  <2>7. CASE ExpandStars
    BY <1>2, <2>1, <2>7, OpenIsNotRewritten DEF ExpandStars
  <2>8. CASE LookupFails
    BY <1>2, <2>1, <2>8, OpenIsNotRewritten DEF LookupFails
  <2>9. CASE ApplyRowPolicies
    <3>1. ASSUME NEW n \in pending, SkipNode(n) \/ FilterNode(n)
          PROVE  stage' \notin {"rejected", "raised"} /\ rewritten' = query
      <4>1. CASE SkipNode(n)
        BY <2>1, <4>1 DEF SkipNode
      <4>2. CASE FilterNode(n)
        <5>1. NameOf(query, n) \in extract_tables(query)
          BY <1>2, <4>2, NodesAreNamed DEF Passing, FilterNode, IsTheCte
        <5>2. ~Unprotected(NameOf(query, n)) /\ Applicable(NameOf(query, n)) = {}
          BY <1>2, <5>1 DEF Open, Unprotected, Applicable
        <5> QED
          BY <2>1, <4>2, <5>2 DEF FilterNode
      <4> QED
        BY <3>1, <4>1, <4>2
    <3>2. CASE Pass("approved")
      BY <2>1, <3>2 DEF Pass
    <3> QED
      BY <2>9, <3>1, <3>2 DEF ApplyRowPolicies
  <2> QED
    BY <1>2, <2>2, <2>3, <2>4, <2>5, <2>6, <2>7, <2>8, <2>9 DEF Next
<1>3. ASSUME Passing, [Next]_vars PROVE Passing'
  <2>1. query' = query /\ UNCHANGED input
    BY <1>3, InputFixed DEF input
  <2>2. pending' \subseteq pending
    BY <1>3 DEF Next, vars, CheckPermission, CheckTables, CheckColumns, CheckLineage, ExpandStars,
       LookupFails, ApplyRowPolicies, SkipNode, FilterNode, Reject, Pass
  <2> QED
    BY <1>2, <1>3, <2>1, <2>2, OpenFixed DEF Passing
<1>4. Passing => OpenQueryPasses
  BY DEF Passing, OpenQueryPasses, Open
<1> QED
  BY <1>1, <1>3, <1>4, PTL DEF Spec

-----------------------------------------------------------------------------
(* QueryGuard *)

Codes == {"sql_too_long", "too_many_joins", "forbidden_keyword", "forbidden_pattern",
          "blocked_schema", "table_denied", "table_not_allowed", "column_not_allowed",
          "bad_identifier"}
Executed == {"ok", "query_error", "result_column_guard_denied"}

\* No check is violated, with the guard as an argument.
Hidden(g, ref) ==
    /\ ref[1] \in Tables
    /\ ref[2] \in g.hidden[ref[1]] \/ (g.listed[ref[1]] # {} /\ ref[2] \notin g.listed[ref[1]])
PassesGuard(g, q, fs) ==
    /\ ~(g.maxJoins # 0 /\ Joins(q) > g.maxJoins)
    /\ extract_tables(q) \cap g.blocked = {}
    /\ extract_tables(q) \cap g.denied = {}
    /\ ~(g.allowed # {} /\ ~(extract_tables(q) \subseteq g.allowed))
    /\ \E alias_map \in AliasMaps(q) : \A ref \in ColumnsNamed(q, fs, alias_map) : ~Hidden(g, ref)
    /\ extract_tables(q) \cap g.unnamable = {}

\* From the second validation on the query is the one that was validated.
GuardInv ==
    /\ IInv
    /\ phase \in {"recheck", "limit", "execute"} \/ reply \in Executed => stage = "approved"
    /\ phase \in {"limit", "execute"} \/ reply \in Executed =>
          PassesGuard(guard, rewritten, filters)
    /\ phase # "answered" => reply \notin Executed
    /\ guard \in Guards /\ statement \in Statements
    /\ code \notin Executed

LEMMA ChecksAre ==
    ASSUME NEW q, NEW fs, NEW alias_map \in AliasMaps(q)
    PROVE  /\ \A i \in Violated(Checks(q, fs, alias_map)) : Checks(q, fs, alias_map)[i][2] \in Codes
           /\ Violated(Checks(q, fs, alias_map)) = {} => PassesGuard(guard, q, fs)
<1> DEFINE a1 == guard.maxLength # 0 /\ Length(q, fs) > guard.maxLength
           a2 == guard.maxJoins # 0 /\ Joins(q) > guard.maxJoins
           a3 == Words(q, fs) \cap guard.keywords # {}
           a4 == \E pattern \in guard.patterns : pattern \subseteq Words(q, fs)
           a5 == extract_tables(q) \cap guard.blocked # {}
           a6 == extract_tables(q) \cap guard.denied # {}
           a7 == guard.allowed # {} /\ ~(extract_tables(q) \subseteq guard.allowed)
           a8 == \E ref \in ColumnsNamed(q, fs, alias_map) : Forbidden(ref)
           a9 == extract_tables(q) \cap guard.unnamable # {}
           checks == <<<<a1, "sql_too_long">>, <<a2, "too_many_joins">>, <<a3, "forbidden_keyword">>,
                       <<a4, "forbidden_pattern">>, <<a5, "blocked_schema">>, <<a6, "table_denied">>,
                       <<a7, "table_not_allowed">>, <<a8, "column_not_allowed">>,
                       <<a9, "bad_identifier">>>>
<1>1. Checks(q, fs, alias_map) = checks
  BY DEF Checks
<1> HIDE DEF a1, a2, a3, a4, a5, a6, a7, a8, a9
<1>2. /\ DOMAIN checks = 1..9
      /\ \A i \in 1..9 : checks[i][2] \in Codes
      /\ (\A i \in 1..9 : ~checks[i][1]) =>
            ~a1 /\ ~a2 /\ ~a3 /\ ~a4 /\ ~a5 /\ ~a6 /\ ~a7 /\ ~a8 /\ ~a9
  BY DEF Codes
<1>3. /\ Violated(checks) \subseteq 1..9
      /\ Violated(checks) = {} => ~a2 /\ ~a5 /\ ~a6 /\ ~a7 /\ ~a8 /\ ~a9
  BY <1>2 DEF Violated
<1> HIDE DEF checks
<1>4. Violated(checks) = {} => PassesGuard(guard, q, fs)
  BY <1>3 DEF a2, a5, a6, a7, a8, a9, PassesGuard, Hidden, Forbidden
<1> QED
  BY <1>1, <1>2, <1>3, <1>4

LEMMA VerdictIs ==
    ASSUME NEW q, NEW fs, NEW next, Verdict(q, fs, next)
    PROVE  (PassesGuard(guard, q, fs) /\ Proceed(next)) \/ \E c \in Codes : Answer(c)
<1>1. PICK alias_map \in AliasMaps(q) :
         \/ Violated(Checks(q, fs, alias_map)) = {} /\ Proceed(next)
         \/ \E i \in Violated(Checks(q, fs, alias_map)) : Answer(Checks(q, fs, alias_map)[i][2])
  BY DEF Verdict
<1> QED
  BY <1>1, ChecksAre

LEMMA GuardInit == QueryInit => GuardInv
BY InitIInv DEF QueryInit, Init, GuardInv, Executed

\* The steps of a query are those of Authorization, or leave its variables alone.
LEMMA GuardSteps == [QueryNext]_<<vars, guardVars>> => [Next]_vars
BY DEF QueryNext, Validate, Authorize, Recheck, AddLimit, Execute, Verdict, Proceed, Answer

LEMMA CodesStep ==
    ASSUME code \notin Executed, [Next]_vars
    PROVE  code' \notin Executed
<1>1. code' = code \/ code' \in {"permission_denied", "table_permission_denied",
          "column_permission_denied", "authorization_rewrite_error", "row_policy_denied"}
  BY DEF Next, vars, CheckPermission, CheckTables, CheckColumns, CheckLineage, ExpandStars,
     LookupFails, ApplyRowPolicies, SkipNode, FilterNode, Reject, Pass
<1> QED
  BY <1>1 DEF Executed

LEMMA GuardStep == GuardInv /\ [QueryNext]_<<vars, guardVars>> => GuardInv'
<1> SUFFICES ASSUME GuardInv, [QueryNext]_<<vars, guardVars>> PROVE GuardInv'
  OBVIOUS
<1>1. IInv' /\ code' \notin Executed
  BY GuardSteps, StepIInv, CodesStep DEF GuardInv
<1>2. ASSUME UNCHANGED <<rewritten, filters, guard>>, PassesGuard(guard, rewritten, filters)
      PROVE  PassesGuard(guard, rewritten, filters)'
  BY <1>2
<1>3. Codes \cap Executed = {} /\ "" \notin Executed
  BY DEF Codes, Executed
<1>4. CASE UNCHANGED <<vars, guardVars>>
  BY <1>1, <1>2, <1>4 DEF GuardInv, vars, guardVars
<1>5. CASE Validate
  <2>1. CASE Proceed("authorize")
    BY <1>1, <2>1, <1>5 DEF GuardInv, Validate, Proceed
  <2>2. CASE \E c \in Codes \cup {"empty", "parse_error", "multi_statement", "not_readonly"} : Answer(c)
    BY <1>1, <1>3, <2>2 DEF GuardInv, Answer, Executed
  <2>3. statement # "select" =>
           NotASelect[statement] \in {"empty", "parse_error", "multi_statement", "not_readonly"}
    BY GuardAssumption DEF GuardInv, NotASelect
  <2> QED
    BY <1>5, <2>1, <2>2, <2>3, VerdictIs DEF Validate
<1>6. CASE Authorize
  <2>1. /\ phase = "authorize" /\ guard' = guard /\ statement' = statement
        /\ phase' \in {"recheck", "answered", "raised", "authorize"}
        /\ phase' = "recheck" => stage' = "approved"
        /\ reply' = reply \/ reply' = code'
    BY <1>6 DEF Authorize
  <2>2. reply \notin Executed /\ reply' \notin Executed
    BY <1>1, <2>1 DEF GuardInv
  <2>3. phase' \notin {"limit", "execute"} /\ (phase' = "recheck" => stage' = "approved")
    BY <2>1
  <2>4. guard' \in Guards /\ statement' \in Statements
    BY <2>1 DEF GuardInv
  <2> QED
    BY <1>1, <2>2, <2>3, <2>4 DEF GuardInv
<1>7. CASE Recheck
  <2>1. CASE PassesGuard(guard, rewritten, filters) /\ Proceed("limit")
    <3>1. UNCHANGED <<rewritten, filters, guard>>
      BY <2>1 DEF Proceed, vars
    <3>2. PassesGuard(guard, rewritten, filters)'
      BY <1>2, <2>1, <3>1
    <3>3. /\ phase = "recheck" /\ phase' = "limit" /\ reply' = reply /\ stage' = stage
          /\ guard' = guard /\ statement' = statement
      BY <1>7, <2>1 DEF Recheck, Proceed, vars
    <3> QED
      BY <1>1, <3>2, <3>3 DEF GuardInv
  <2>2. CASE \E c \in Codes : Answer(c)
    BY <1>1, <1>3, <2>2 DEF GuardInv, Answer
  <2> QED
    BY <1>7, <2>1, <2>2, VerdictIs DEF Recheck
<1>8. CASE AddLimit
  BY <1>1, <1>2, <1>8 DEF GuardInv, AddLimit, vars
<1>9. CASE Execute
  BY <1>1, <1>2, <1>9 DEF GuardInv, Execute, Answer, vars, Executed
<1> QED
  BY <1>4, <1>5, <1>6, <1>7, <1>8, <1>9 DEF QueryNext

-----------------------------------------------------------------------------
(* Without stars, what a query reads is among the columns its text names *)

LEMMA ApartIsRewrittenApart ==
    ASSUME query \in Queries
    PROVE  NamesApart(Rewritten) <=> NamesApart(query)
<1>1. DerivedAliases(Rewritten) = DerivedAliases(query)
  BY ExpansionKeepsSources DEF DerivedAliases
<1>2. \A n \in TableNodes(query) : NameOf(Rewritten, n) = NameOf(query, n)
  BY SameNames DEF TableNodes
<1>3. \A a : Claimants(Rewritten, a) = Claimants(query, a)
  BY <1>2, SameNames DEF Claimants
<1> QED
  BY <1>1, <1>2, <1>3, SameNames DEF NamesApart

LEMMA SameAliasMaps ==
    ASSUME query \in Queries
    PROVE  AliasMaps(Rewritten) = AliasMaps(query) /\ extract_tables(Rewritten) = extract_tables(query)
<1>1. \A n \in TableNodes(query) : NameOf(Rewritten, n) = NameOf(query, n)
  BY SameNames DEF TableNodes
<1>2. \A a : Claimants(Rewritten, a) = Claimants(query, a)
  BY <1>1, SameNames DEF Claimants
<1>3. Aliases(Rewritten) = Aliases(query)
  BY SameNames DEF Aliases
<1>4. extract_tables(Rewritten) = extract_tables(query)
  BY <1>1, SameNames DEF extract_tables
<1> QED
  BY <1>2, <1>3, <1>4 DEF AliasMaps

TableRefs(alias_map) == {c \in extract_column_refs(Rewritten, alias_map) : c[1] \in Tables}

LEMMA ApartAliases ==
    ASSUME query \in Queries, NamesApart(query)
    PROVE  \A alias_map \in AliasMaps(query), p \in Parts(query) :
               \A a \in DOMAIN query[p].from :
                   query[p].from[a] \notin Virtual(query, p)
                       => /\ query[p].from[a] \in Tables
                          /\ query[p].from[a] \in extract_tables(query)
                          /\ alias_map[a] = query[p].from[a]
<1> TAKE alias_map \in AliasMaps(query), p \in Parts(query)
<1> TAKE a \in DOMAIN query[p].from
<1> HAVE query[p].from[a] \notin Virtual(query, p)
<1> QED
  BY ApartIsResolved

LEMMA SelectedIsReferenced ==
    ASSUME query \in Queries, NamesApart(query), NEW alias_map \in AliasMaps(query),
           NEW p \in Parts(query), NEW refs \in SUBSET (Rewritten[p].list \cup Rewritten[p].where),
           \A ref \in refs : ref.name # Star,
           NEW inner, \A o \in inner : o.sources \subseteq TableRefs(alias_map)
    PROVE  \A o \in SelectedBy(Rewritten, p, refs, inner) : o.sources \subseteq TableRefs(alias_map)
<1> DEFINE from == query[p].from
           virtual == Virtual(query, p)
<1>1. /\ Rewritten[p].from = from /\ Virtual(Rewritten, p) = virtual
      /\ p \in Parts(Rewritten)
  BY ExpansionKeepsSources, SameNames
<1> SUFFICES ASSUME NEW ref \in refs, NEW o \in Selects(ref, from, virtual, inner),
                    NEW source \in o.sources
             PROVE  source \in TableRefs(alias_map)
  BY <1>1 DEF SelectedBy
<1> DEFINE found == {y \in Offers(ref, from, virtual, inner) : y.name = ref.name}
<1>2. source \in SourcesOf(found)
  BY DEF Selects
<1>3. PICK x \in found : source \in x.sources
  BY <1>2 DEF SourcesOf
<1>4. PICK a \in DOMAIN from : /\ ref.of = Anywhere \/ a = ref.of
                               /\ x \in IF from[a] \in virtual THEN inner ELSE Rows(from[a])
  BY <1>3 DEF Offers
<1>5. CASE from[a] \in virtual
  BY <1>3, <1>4, <1>5
<1>6. CASE from[a] \notin virtual
  <2>1. source = <<from[a], ref.name>>
    BY <1>3, <1>4, <1>6 DEF Rows
  <2>2. /\ from[a] \in Tables /\ from[a] \in extract_tables(Rewritten)
        /\ alias_map[a] = from[a]
    <3>1. query[p].from[a] \notin Virtual(query, p) /\ a \in DOMAIN query[p].from
      BY <1>4, <1>6
    <3>2. /\ query[p].from[a] \in Tables /\ query[p].from[a] \in extract_tables(query)
          /\ alias_map[a] = query[p].from[a]
      BY <3>1, ApartAliases
    <3>3. extract_tables(Rewritten) = extract_tables(query)
      BY SameAliasMaps
    <3> QED
      BY <3>2, <3>3
  <2>3. source \in RefsOf(ref, Rewritten, alias_map)
    <3>1. a # Anywhere
      BY ScopeForm
    <3> QED
      BY <1>4, <2>1, <2>2, <3>1 DEF RefsOf
  <2>4. ref \in {r \in Rewritten[p].list : ~IsStar(r)} \cup Rewritten[p].where
    BY DEF IsStar
  <2> QED
    BY <1>1, <2>1, <2>2, <2>3, <2>4 DEF extract_column_refs, TableRefs
<1> QED
  BY <1>5, <1>6

LEMMA ReadIsReferenced ==
    ASSUME query \in Queries, NamesApart(query), NEW alias_map \in AliasMaps(query),
           Explicitly(Rewritten)
    PROVE  Read(Rewritten) \subseteq TableRefs(alias_map)
<1>1. Rewritten.kind = query.kind
  BY ExpansionKeepsSources
<1>2. ASSUME NEW p \in Parts(query)
      PROVE  \A ref \in Rewritten[p].list \cup Rewritten[p].where : ref.name # Star
  <2>1. Rewritten[p].where = query[p].where /\ p \in Parts(Rewritten)
    BY ExpansionKeepsSources, SameNames
  <2> QED
    BY <2>1, ScopeForm DEF Explicitly
<1>3. ASSUME query.kind # "flat", NEW refs \in SUBSET (Rewritten.inner.list \cup Rewritten.inner.where)
      PROVE  \A o \in SelectedBy(Rewritten, "inner", refs, {}) : o.sources \subseteq TableRefs(alias_map)
  <2>1. "inner" \in Parts(query)
    BY <1>3 DEF Parts
  <2>2. \A ref \in refs : ref.name # Star
    BY <1>2, <2>1
  <2> QED
    BY <2>1, <2>2, SelectedIsReferenced
<1>4. \A o \in InnerOutputs(Rewritten) : o.sources \subseteq TableRefs(alias_map)
  BY <1>1, <1>3 DEF InnerOutputs
<1>5. \A o \in SelectedBy(Rewritten, "main", Rewritten.main.list \cup Rewritten.main.where,
                          InnerOutputs(Rewritten)) : o.sources \subseteq TableRefs(alias_map)
  <2>1. "main" \in Parts(query)
    BY DEF Parts
  <2>2. \A ref \in Rewritten["main"].list \cup Rewritten["main"].where : ref.name # Star
    BY <1>2, <2>1
  <2> QED
    BY <1>4, <2>1, <2>2, SelectedIsReferenced
<1> QED
  BY <1>1, <1>3, <1>5 DEF Read, SourcesOf

\* A row filter names the column of the table it filters, which is no CTE.
LEMMA ComparedIsNamed ==
    ASSUME IInv, NamesApart(query), NEW alias_map \in AliasMaps(query),
           NEW c \in Compared(query, filters)
    PROVE  c \in RowColumns(filters, alias_map) /\ c[1] \in Tables
<1>1. PICK f \in filters : c = <<NameOf(query, f[1]), f[2].column>>
  BY DEF Compared
<1> DEFINE n == f[1]
<1>2. n \in TableNodes(query) /\ ~IsTheCte(n) /\ query \in Queries
  BY DEF IInv, FiltersOK
<1>3. PICK p \in Parts(query) : \E a \in DOMAIN query[p].from : n = <<p, a>>
  BY <1>2 DEF TableNodes, Sources
<1>4. PICK a \in DOMAIN query[p].from : n = <<p, a>>
  BY <1>3
<1>5. NameOf(query, n) = query[p].from[a] /\ query[p].from[a] \notin CteNames(query) \cup {Derived}
  BY <1>2, <1>4 DEF NameOf, TableNodes, IsTheCte
<1>6. query[p].from[a] \notin Virtual(query, p)
  BY <1>5 DEF Virtual
<1>7. alias_map[a] = query[p].from[a] /\ query[p].from[a] \in Tables
  BY <1>2, <1>6, ApartIsResolved
<1> QED
  BY <1>1, <1>4, <1>5, <1>7 DEF RowColumns

\* The guard leaves the decisions as they are: every run of a query through validation,
\* authorization and execution is one of Authorization.
THEOREM GuardRefinesAuthorization == QuerySpec => Spec
<1>1. QueryInit => Init
  BY DEF QueryInit
<1> QED BY <1>1, GuardSteps, PTL DEF QuerySpec, Spec

THEOREM GuardInvariant == QuerySpec => []GuardInv
BY GuardInit, GuardStep, PTL DEF QuerySpec

\* "RLS and SELECT * expanded, it is validated again": what _run() executes satisfies the
\* static policy, whatever the rewriting added.
THEOREM GuardExecutedIsValidated == QuerySpec => []ExecutedIsValidated
<1>1. ASSUME GuardInv, reply \in Executed
      PROVE  /\ \A t \in TablesRead(rewritten) \ CteNames(rewritten) :
                   /\ t \notin guard.denied \cup guard.blocked \cup guard.unnamable
                   /\ guard.allowed # {} => t \in guard.allowed
             /\ guard.maxJoins # 0 => ~(Joins(rewritten) > guard.maxJoins)
             /\ NamesApart(rewritten) =>
                   \A c \in Compared(rewritten, filters)
                            \cup (IF Explicitly(rewritten) THEN Read(rewritten) ELSE {}) :
                       /\ c[2] \notin guard.hidden[c[1]]
                       /\ guard.listed[c[1]] # {} => c[2] \in guard.listed[c[1]]
  <2>1. PassesGuard(guard, rewritten, filters) /\ rewritten = Rewritten /\ query \in Queries
    BY <1>1 DEF GuardInv, IInv, TreeOK, AfterStars
  <2>2. guard.maxJoins # 0 => ~(Joins(rewritten) > guard.maxJoins)
    BY <2>1 DEF PassesGuard
  <2>3. ASSUME NEW t \in TablesRead(rewritten) \ CteNames(rewritten)
        PROVE  t \in extract_tables(rewritten)
    BY <2>1, <2>3, SameNames, SameAliasMaps, OccurrencesAreNodes DEF TablesRead
  <2>4. ASSUME NamesApart(rewritten),
               NEW c \in Compared(rewritten, filters)
                         \cup (IF Explicitly(rewritten) THEN Read(rewritten) ELSE {})
        PROVE  /\ c[2] \notin guard.hidden[c[1]]
               /\ guard.listed[c[1]] # {} => c[2] \in guard.listed[c[1]]
    <3>1. PICK alias_map \in AliasMaps(rewritten) :
             \A ref \in ColumnsNamed(rewritten, filters, alias_map) : ~Hidden(guard, ref)
      BY <2>1 DEF PassesGuard
    <3>2. alias_map \in AliasMaps(query) /\ NamesApart(query)
      BY <2>1, <2>4, SameAliasMaps, ApartIsRewrittenApart
    <3>3. Compared(rewritten, filters) = Compared(query, filters)
      <4>1. \A f \in filters : f[1] \in Sources(query)
        BY <1>1 DEF GuardInv, IInv, FiltersOK, TableNodes
      <4> QED
        BY <2>1, <4>1, SameNames DEF Compared
    <3>4. c \in ColumnsNamed(rewritten, filters, alias_map) /\ c[1] \in Tables
      <4>1. CASE c \in Compared(rewritten, filters)
        BY <1>1, <3>2, <3>3, <4>1, ComparedIsNamed DEF GuardInv, ColumnsNamed
      <4>2. CASE c \notin Compared(rewritten, filters)
        <5>1. Explicitly(Rewritten) /\ c \in Read(Rewritten)
          BY <2>1, <2>4, <4>2
        <5>2. c \in TableRefs(alias_map)
          BY <2>1, <3>2, <5>1, ReadIsReferenced
        <5> QED BY <2>1, <5>2 DEF TableRefs, ColumnsNamed
      <4> QED BY <4>1, <4>2
    <3> QED BY <3>1, <3>4 DEF Hidden
  <2> QED BY <2>1, <2>2, <2>3, <2>4 DEF PassesGuard
<1>2. GuardInv => ExecutedIsValidated
  BY <1>1 DEF ExecutedIsValidated, Executed
<1> QED BY <1>2, GuardInvariant, PTL
=============================================================================
