--------------------------- MODULE MCAuthorization ---------------------------
(* Finite instance of QueryGuard on Authorization: an analyst, rules and row *)
(* policies that fit it or a guest, and queries of up to two levels.  Every  *)
(* policy meets the open guard, a few of them all the others.  Beside them   *)
(* the life of a policy document: a valid one, valid variants and one with   *)
(* each error.  A run is a query's or a document's.                          *)
EXTENDS QueryGuard, Authentication, TLC

CONSTANTS company, sales, nick, sub, id, secret, alice, analyst, guest,
          Alice_, Analyst_, admin, auditor, publish, local, name1, name2, Odd

Schemas == company :> {id, secret} @@ sales :> {id}
Alice == {{alice, analyst}}

TableRule(s, ts, e) == [type |-> "table", subjects |-> s, tables |-> ts, columns |-> {}, effect |-> e]
ColumnRule(s, ts, cs, e) ==
    [type |-> "column", subjects |-> s, tables |-> ts, columns |-> cs, effect |-> e]
RowPolicy(s, ts, c, v) == [subjects |-> s, tables |-> ts, column |-> c, value |-> v]

Everything == {id, secret, Star}

AclRules == {
    TableRule({analyst}, {company}, "allow"), TableRule({analyst}, Names, "allow"),
    TableRule({alice}, {sales}, "deny"), TableRule({guest}, {sales}, "allow"),
    ColumnRule({analyst}, {company}, {id}, "allow"),
    ColumnRule({alice}, {company}, {secret}, "deny"),
    ColumnRule({analyst}, Names, {secret}, "deny"),
    ColumnRule({analyst, guest}, {company}, Everything, "allow")}

Mine == RowPolicy({analyst}, {company}, id, TRUE)
Also == RowPolicy({alice}, {company}, secret, TRUE)
Foreign == RowPolicy({guest}, {sales}, id, TRUE)
NoValue == RowPolicy({alice}, {sales}, id, FALSE)

Policy(q, b, acl, rows) == [query |-> q, bypass |-> b, acl |-> acl, rows |-> rows]
SomePolicies ==
    {Policy({analyst}, {}, a, r) :
        a \in SUBSET AclRules,
        r \in {{}, {Mine, Also}, {Mine, Foreign}, {Also, NoValue}}}
    \cup {Policy({analyst}, {analyst}, a, {Mine, Foreign}) : a \in SUBSET AclRules}
    \cup {Policy({guest}, {}, AclRules, {})}

Ref(of, name, as) == [of |-> of, name |-> name, as |-> as]
Col(of, name) == Ref(of, name, name)
AllStar == Col(Anywhere, Star)

Scope(from, list, where) == [from |-> from, list |-> list, where |-> where]
Fits(s) == \A ref \in s.list \cup s.where : ref.of \in DOMAIN s.from \cup {Anywhere}

Query(kind, name, inner, main) == [kind |-> kind, name |-> name, inner |-> inner, main |-> main]
Plain(names) == [n \in names |-> n]

Flat == {s \in {Scope(f, l, w) :
            f \in {Plain({company}), Plain({company, sales})},
            l \in {{AllStar}, {Col(company, Star)}, {Col(Anywhere, id)},
                   {Col(sales, id), Col(company, secret)}},
            w \in {{}, {Col(company, secret)}, {Col(Anywhere, id)}}} : Fits(s)}

\* One table twice, and aliases that are the other table's name.
Aliased == {
    Scope(nick :> company @@ company :> company, {Col(nick, id)}, {Col(company, secret)}),
    Scope(nick :> company @@ sales :> sales, {Col(nick, Star), Col(sales, id)}, {}),
    Scope(nick :> sales @@ sales :> company, {Col(sales, secret)}, {Col(nick, id)}),
    Scope(company :> sales @@ sales :> company, {AllStar}, {})}

Inner == {
    Scope(Plain({company}), {AllStar}, {}),
    Scope(Plain({company}), {Ref(company, secret, id)}, {}),
    Scope(Plain({company}), {Col(company, id), Ref(company, id, secret)}, {Col(company, secret)}),
    Scope(Plain({company, sales}), {AllStar}, {Col(Anywhere, id)})}

Outer(source) == {s \in {Scope(f, l, w) :
            f \in {sub :> source, sub :> source @@ sales :> sales},
            l \in {{AllStar}, {Col(sub, Star), Col(sales, id)}, {Col(sub, Star)},
                   {Col(sub, id)}, {Col(Anywhere, secret)}},
            w \in {{}, {Col(sub, secret)}}} : Fits(s)}

\* A CTE or derived table with the name of a table, and aliases two scopes share.
NamedLikeATable ==
    {Query("cte", company, Scope(Plain({company}), l, {}), o) :
        l \in {{AllStar}, {Ref(company, secret, id)}},
        o \in {Scope(Plain({company}), {AllStar}, {}), Scope(nick :> company, {Col(nick, id)}, {}),
               Scope(nick :> company @@ sales :> sales, {Col(sales, id)}, {Col(nick, id)})}}
    \cup {Query("derived", sales, Scope(nick :> company, {Col(nick, id)}, {}), o) :
            o \in {Scope(sales :> Derived, {AllStar}, {}),
                   Scope(sales :> Derived @@ nick :> sales, {Col(nick, id)}, {})}}
SharedAlias ==
    {Query("derived", sub, Scope(nick :> t, {Col(nick, id)}, {}), o) :
        t \in {sales, company},
        o \in {Scope(sub :> Derived @@ nick :> company, {Col(sub, id)}, {Col(nick, secret)}),
               Scope(sub :> Derived @@ nick :> company, {Col(nick, secret)}, {}),
               Scope(sub :> Derived @@ nick :> sales, {AllStar}, {})}}
    \cup {Query("cte", sub, Scope(sub :> t, {Col(sub, id)}, {}), Scope(nick :> sub, {Col(nick, id)}, {})) :
            t \in {sales, company}}

SomeQueries ==
    {Query("flat", sub, s, s) : s \in Flat \cup Aliased}
    \cup {Query("derived", sub, i, o) : i \in Inner, o \in {x \in Outer(Derived) : x.where = {}}}
    \cup {Query("cte", sub, i, o) : i \in Inner, o \in {x \in Outer(sub) : x.where # {}}}
    \cup NamedLikeATable \cup SharedAlias

ByTable(columns) == [t \in Tables |-> columns \cap SchemaOf[t]]
OpenGuard ==
    [maxLength |-> 0, maxJoins |-> 0, keywords |-> {}, patterns |-> {}, blocked |-> {},
     denied |-> {}, allowed |-> {}, unnamable |-> {},
     hidden |-> ByTable({}), listed |-> ByTable({}), enforceLimit |-> TRUE]
SomeGuards == {
    OpenGuard,
    [OpenGuard EXCEPT !.maxLength = 5],
    [OpenGuard EXCEPT !.maxJoins = 1, !.enforceLimit = FALSE],
    [OpenGuard EXCEPT !.keywords = {secret}],
    [OpenGuard EXCEPT !.patterns = {{id, sales}}],
    [OpenGuard EXCEPT !.blocked = {sales}],
    [OpenGuard EXCEPT !.denied = {sales}, !.allowed = Tables],
    [OpenGuard EXCEPT !.allowed = {company}],
    [OpenGuard EXCEPT !.unnamable = {sales}],
    [OpenGuard EXCEPT !.hidden = ByTable({secret})],
    [OpenGuard EXCEPT !.listed = ByTable({id})],
    [OpenGuard EXCEPT !.listed = [t \in Tables |-> IF t = sales THEN {} ELSE {id}]]}
SomeStatements == {"empty", "unparsable", "several", "write", "select"}

FewRules == {
    {}, {TableRule({analyst}, Names, "allow")},
    {TableRule({analyst}, Names, "allow"), ColumnRule({analyst}, {company}, {id}, "allow")},
    {TableRule({analyst}, Names, "allow"), ColumnRule({analyst, guest}, {company}, Everything, "allow")}}

-----------------------------------------------------------------------------
(* Documents: Alice_ and Analyst_ are alice and analyst in capitals, Odd is no identifier. *)

AllNames == {alice, analyst, guest, admin, auditor, company, sales, id, secret, local, Odd, Star,
             Absent, Run, publish, RlsBypass, "table", "column", "view", "select", "allow",
             "deny", "eq", "in", "regex", name1, name2, "principal.id", "attribute"}
LowerCase == [n \in AllNames |-> n] @@ Alice_ :> alice @@ Analyst_ :> analyst
SomeNameLists == {{}} \cup {{n, m} : n, m \in DOMAIN LowerCase}
SomeIdentifiers == {alice, analyst, guest, admin, auditor, company, sales, id, secret, local,
                    Alice_, Analyst_}
SomeResources == SomeIdentifiers \cup {Star}

Role(perms, bypass) == [unknown |-> FALSE, permissions |-> perms, bypass |-> bypass]
User(roles) == [unknown |-> FALSE, roles |-> roles, attributes |-> {}]
Who(users, roles) == [unknown |-> FALSE, users |-> users, roles |-> roles]
On(type, table, name) == [unknown |-> FALSE, type |-> type, table |-> table, name |-> name]
AclRule(subjects, resource, effect) ==
    [unknown |-> FALSE, subjects |-> subjects, resource |-> resource, action |-> "select",
     effect |-> effect]
Predicate(column, operator, value, from) ==
    [unknown |-> FALSE, column |-> column, operator |-> operator, value |-> value, from |-> from]
RowRule(name, predicate) ==
    [unknown |-> FALSE, name |-> name, subjects |-> Who({}, {Analyst_}), tables |-> {company, Star},
     actions |-> {"select"}, predicate |-> predicate]

OnCompany == AclRule(Who({}, {Analyst_}), On("table", Absent, company), "allow")
NotSecret == AclRule(Who({Alice_}, {}), On("column", company, secret), "deny")
OwnRows == RowRule(name1, Predicate(id, "in", Absent, "principal.id"))
FixedRows == RowRule(name2, Predicate(id, "eq", "scalar", Absent))
NullRows == RowRule(name2, Predicate(id, "eq", Null, Absent))

Base ==
    [large |-> FALSE, deep |-> FALSE, unknown |-> FALSE, version |-> 1, default |-> local,
     roles |-> analyst :> Role({Run}, FALSE) @@ admin :> Role({publish}, FALSE)
               @@ auditor :> Role({Run}, TRUE),
     principals |-> local :> User({Analyst_}) @@ Alice_ :> User({analyst}) @@ alice :> User({admin}),
     acl |-> <<OnCompany, NotSecret>>,
     rows |-> <<OwnRows, FixedRows>>]

Valid == {
    Base,
    [Base EXCEPT !.default = alice, !.acl = <<>>, !.principals = alice :> User({analyst})],
    [Base EXCEPT !.roles = @ @@ guest :> Role({Run}, FALSE), !.acl[2].subjects = Who({alice}, {guest})],
    [Base EXCEPT !.roles[analyst] = Role({Run}, TRUE), !.acl[1].resource = On("table", sales, company)],
    [Base EXCEPT !.rows[2] = NullRows]}

WrongShape == {
    Malformed, [Base EXCEPT !.large = TRUE], [Base EXCEPT !.deep = TRUE],
    [Base EXCEPT !.unknown = TRUE], [Base EXCEPT !.version = Absent]}
WrongSchema == {
    [Base EXCEPT !.version = 2], [Base EXCEPT !.default = Malformed],
    [Base EXCEPT !.roles = Malformed], [Base EXCEPT !.roles = @ @@ Odd :> Role({Run}, FALSE)],
    [Base EXCEPT !.roles = @ @@ Analyst_ :> Role({publish}, TRUE)],
    [Base EXCEPT !.roles[admin] = Malformed], [Base EXCEPT !.roles[admin].permissions = Malformed],
    [Base EXCEPT !.roles[admin].bypass = Malformed, !.roles[admin].unknown = TRUE],
    [Base EXCEPT !.principals = Malformed], [Base EXCEPT !.principals[alice] = Malformed],
    [Base EXCEPT !.principals[alice].roles = Malformed],
    [Base EXCEPT !.principals[alice].attributes = Malformed],
    [Base EXCEPT !.acl = Malformed], [Base EXCEPT !.acl[1] = Malformed],
    [Base EXCEPT !.acl[1].subjects = Malformed], [Base EXCEPT !.acl[1].subjects.users = Malformed],
    [Base EXCEPT !.acl[1].subjects = Who({}, {})], [Base EXCEPT !.acl[1].resource = Malformed],
    [Base EXCEPT !.acl[1].action = Malformed], [Base EXCEPT !.acl[1].effect = Malformed],
    [Base EXCEPT !.rows = Malformed], [Base EXCEPT !.rows[1] = Malformed],
    [Base EXCEPT !.rows[1].name = Malformed], [Base EXCEPT !.rows[1].tables = Malformed],
    [Base EXCEPT !.rows[1].actions = Malformed], [Base EXCEPT !.rows[1].predicate = Malformed],
    [Base EXCEPT !.rows[1].predicate.unknown = TRUE]}
WrongMeaning == {
    [Base EXCEPT !.default = guest], [Base EXCEPT !.principals[alice].roles = {guest}],
    [Base EXCEPT !.acl[1].resource.type = "view"], [Base EXCEPT !.acl[1].resource.name = Odd],
    [Base EXCEPT !.acl[2].resource.name = Absent], [Base EXCEPT !.acl[1].action = "deny"],
    [Base EXCEPT !.acl[1].effect = "select"], [Base EXCEPT !.acl[1].subjects.roles = {guest}],
    [Base EXCEPT !.rows[2].name = name1], [Base EXCEPT !.rows[1].tables = {Odd}],
    [Base EXCEPT !.rows[1].actions = {"allow"}], [Base EXCEPT !.rows[1].predicate.column = Star],
    [Base EXCEPT !.rows[1].predicate.operator = "regex"],
    [Base EXCEPT !.rows[1].predicate.value = Null], [Base EXCEPT !.rows[1].predicate.from = Absent],
    [Base EXCEPT !.rows[1].predicate.from = "attribute"],
    [Base EXCEPT !.rows[2].predicate.operator = "in"],
    [Base EXCEPT !.rows[1].subjects.roles = {guest}],
    [Base EXCEPT !.roles[auditor].permissions = {Star}],
    [Base EXCEPT !.roles[auditor].permissions = {publish}],
    [Base EXCEPT !.roles[analyst].permissions = {Run, RlsBypass}]}
SomeDocuments == Valid \cup WrongShape \cup WrongSchema \cup WrongMeaning

Setting(mode, kind, raw) ==
    [mode |-> mode, stdio |-> FALSE, principal |-> kind, raw |-> raw,
     map |-> guest :> Analyst_ @@ analyst :> admin]
SomeSettings == {
    Setting("disabled", "policy", FALSE), [Setting("static", "policy", FALSE) EXCEPT !.stdio = TRUE],
    Setting("static", "policy", FALSE), Setting("jwt", "policy", FALSE),
    Setting("jwt", "mapped_claims", FALSE), Setting("jwt", "claims", TRUE)}

Credential(kind, subject, roles) == [kind |-> kind, subject |-> subject, roles |-> roles]
Local == Credential("none", Absent, {})
SomeCredentials == {
    Local, Credential("static", Alice_, {}), Credential("static", guest, {}),
    Credential("jwt", Alice_, {guest}), Credential("jwt", guest, {guest, auditor}),
    Credential("jwt", guest, {Analyst_, analyst}), Credential("jwt", guest, {})}

Controlling == {publish}
FromPrincipal == {"principal.id"}

-----------------------------------------------------------------------------
VARIABLE part  \* "query" or "document"

Query0 == CHOOSE q \in SomeQueries : TRUE
QueryRests ==
    /\ policy = Policy({}, {}, {}, {}) /\ principal = {} /\ query = Query0 /\ catalog = FALSE
    /\ stage = "permission" /\ code = "" /\ rewritten = Query0
    /\ pending = {} /\ filters = {}
    /\ guard = OpenGuard /\ statement = "empty" /\ phase = "validate" /\ limits = {} /\ reply = ""

MCInit ==
    \/ /\ part = "query"
       /\ QueryInit
       /\ \/ guard = OpenGuard /\ limits = {} /\ statement = "select"
          \/ policy.acl \in FewRules /\ limits = {} /\ statement = "select"
          \/ policy.acl \in FewRules /\ guard = OpenGuard /\ catalog
       /\ document = Base /\ step = "shape" /\ errors = {} /\ active = NoPolicy
       /\ exported = FALSE /\ submitted = 1
       /\ settings = Setting("disabled", "policy", FALSE) /\ credential = Local
       /\ login = "none" /\ pinned = NoPolicy /\ who = NoOne /\ stable = TRUE
    \/ /\ part = "document"
       /\ DocumentInit
       /\ \/ document \in Valid
          \/ credential = Local /\ settings.mode = "disabled"
       /\ QueryRests
MCNext ==
    /\ UNCHANGED part
    /\ \/ part = "query" /\ QueryNext /\ UNCHANGED <<documentVars, loginVars>>
       \/ part = "document" /\ DocumentNext /\ UNCHANGED <<vars, guardVars>>
MCSpec == MCInit /\ [][MCNext]_<<vars, guardVars, documentVars, loginVars, part>>
=============================================================================
