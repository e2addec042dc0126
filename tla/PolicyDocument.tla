--------------------------- MODULE PolicyDocument ---------------------------
(***************************************************************************)
(* authorization/validation.py, permission_policy_to_dict() of policy.py:  *)
(* how a policy document is checked, stage after stage, compiled, and      *)
(* exported again.  A report is the set of the codes of its errors.        *)
(*                                                                         *)
(* Malformed stands for a value of the wrong type, an empty name and an    *)
(* empty list where one is refused; the flag unknown of an object says     *)
(* that it has a field nobody knows.  Lists of names are sets.             *)
(***************************************************************************)
EXTENDS Integers, FiniteSets, SequencesExt

CONSTANTS Malformed, Absent, Null,
          Lower,        \* Lower[n]: the name n in lower case
          Identifiers,  \* the names of letters, digits and underscores
          Resources,    \* those, "*", and patterns of one and a final "*"
          Wildcard,     \* "*"
          Run,          \* query:run
          Control,      \* the permissions that begin with policy:
          RlsBypass,    \* rls:bypass
          NameLists,    \* the lists of names of the documents, as sets
          OfPrincipal,  \* the values of value_from that begin with principal.
          Version       \* SCHEMA_VERSION

If(condition, c) == IF condition THEN {c} ELSE {}

Lowered(names) == {Lower[n] : n \in names}
ObjectErrors(object, c) ==
    IF object = Malformed THEN {c} ELSE If(object.unknown, "unknown_field")

-----------------------------------------------------------------------------
(* The values a document is made of; M is {Malformed} or, for the well-formed ones, {}. *)

Written == DOMAIN Lower

RoleObjects(M) == M \cup [unknown : BOOLEAN, permissions : M \cup NameLists, bypass : M \cup BOOLEAN]
PrincipalObjects(M) ==
    M \cup [unknown : BOOLEAN, roles : M \cup NameLists, attributes : M \cup NameLists]
SubjectObjects(M) == M \cup [unknown : BOOLEAN, users : M \cup NameLists, roles : M \cup NameLists]
ResourceObjects(M) == M \cup [unknown : BOOLEAN, type : Written, table : Written, name : Written]
RuleObjects(M) ==
    M \cup [unknown : BOOLEAN, subjects : SubjectObjects(M), resource : ResourceObjects(M),
            action : M \cup Written, effect : M \cup Written]
PredicateObjects(M) ==
    M \cup [unknown : BOOLEAN, column : Written, operator : Written, from : Written,
            value : {"scalar", "list", Null, Absent}]
RowObjects(M) ==
    M \cup [unknown : BOOLEAN, name : M \cup Written, subjects : SubjectObjects(M),
            tables : M \cup NameLists, actions : M \cup NameLists, predicate : PredicateObjects(M)]

\* The documents with these roles and principals.
Objects(roles, principals) ==
    [large : BOOLEAN, deep : BOOLEAN, unknown : BOOLEAN, version : {Version}, default : Written,
     roles : [roles -> RoleObjects({})], principals : [principals -> PrincipalObjects({})],
     acl : Seq(RuleObjects({})), rows : Seq(RowObjects({}))]

ASSUME NamesAssumption ==
    /\ \A n \in Written : Lower[n] \in Written /\ Lower[Lower[n]] = Lower[n]
    /\ \A names \in NameLists : names \subseteq Written /\ Lowered(names) \in NameLists
    /\ Absent \in Written /\ Absent \notin Resources
    /\ Malformed \notin Written /\ Malformed \notin NameLists
    /\ Malformed \notin RoleObjects({}) /\ Malformed \notin PrincipalObjects({})
    /\ Malformed \notin SubjectObjects({}) /\ Malformed \notin ResourceObjects({})
    /\ Malformed \notin RuleObjects({}) /\ Malformed \notin Seq(RuleObjects({}))
    /\ Malformed \notin PredicateObjects({}) /\ Malformed \notin RowObjects({})
    /\ Malformed \notin Seq(RowObjects({}))

-----------------------------------------------------------------------------
(* _validate_shape(), _validate_schema() *)

ShapeErrors(d) ==
    IF d = Malformed THEN {"schema_root"}
    ELSE If(d.large, "document_too_large") \cup If(d.deep, "document_too_deep")
         \cup If(d.unknown, "unknown_field") \cup If(d.version = Absent, "missing_version")

SubjectsSchema(s) ==
    ObjectErrors(s, "subjects_type")
    \cup IF s = Malformed THEN {}
         ELSE IF Malformed \in {s.users, s.roles} THEN {"subjects_fields"}
         ELSE If(s.users \cup s.roles = {}, "subjects_empty")

RoleSchema(name, r) ==
    If(name \notin Identifiers \/ Lower[name] # name, "role_name")
    \cup ObjectErrors(r, "role_type")
    \cup IF r = Malformed THEN {}
         ELSE If(r.permissions = Malformed, "permissions_type")
              \cup If(r.bypass = Malformed, "bypass_rls_type")

PrincipalSchema(p) ==
    ObjectErrors(p, "principal_type")
    \cup IF p = Malformed THEN {}
         ELSE If(p.roles = Malformed, "principal_roles")
              \cup If(p.attributes = Malformed, "attributes_type")

RuleSchema(r) ==
    ObjectErrors(r, "acl_item_type")
    \cup IF r = Malformed THEN {}
         ELSE SubjectsSchema(r.subjects) \cup ObjectErrors(r.resource, "resource_type")
              \cup If(r.action = Malformed, "action_type")
              \cup If(r.effect = Malformed, "effect_type")

RowSchema(r) ==
    ObjectErrors(r, "row_policy_type")
    \cup IF r = Malformed THEN {}
         ELSE If(r.name = Malformed, "row_policy_name") \cup SubjectsSchema(r.subjects)
              \cup If(r.tables = Malformed, "row_policy_tables")
              \cup If(r.actions = Malformed, "row_policy_actions")
              \cup ObjectErrors(r.predicate, "predicate_type")

\* The errors of the members of a part, or that the part is none.
PartErrors(part, c, ofMembers) == IF part = Malformed THEN {c} ELSE ofMembers

SchemaErrors(d) ==
    If(d.version # Version, "unsupported_version")
    \cup If(d.default = Malformed, "string_required")
    \cup PartErrors(d.roles, "roles_type",
                    UNION {RoleSchema(n, d.roles[n]) : n \in DOMAIN d.roles})
    \cup PartErrors(d.principals, "principals_type",
                    UNION {PrincipalSchema(d.principals[s]) : s \in DOMAIN d.principals})
    \cup PartErrors(d.acl, "acl_type", UNION {RuleSchema(r) : r \in ToSet(d.acl)})
    \cup PartErrors(d.rows, "row_policies_type", UNION {RowSchema(r) : r \in ToSet(d.rows)})

-----------------------------------------------------------------------------
(* _normalize() and build_policy() of what the stages before have let through *)

\* _norm_subjects(): only the roles are put in lower case.
Subjects(s) == [users |-> s.users, roles |-> Lowered(s.roles)]

\* The table of a rule on a table may be given as its name.
Rule(r) ==
    LET table == IF r.resource.table = Absent THEN r.resource.name ELSE r.resource.table
        kind == Lower[r.resource.type]
    IN  [subjects |-> Subjects(r.subjects), type |-> kind, table |-> Lower[table],
         column |-> Lower[r.resource.name], action |-> Lower[r.action], effect |-> Lower[r.effect]]

Row(r) ==
    [name |-> r.name, subjects |-> Subjects(r.subjects), tables |-> Lowered(r.tables),
     actions |-> Lowered(r.actions), column |-> Lower[r.predicate.column],
     operator |-> Lower[r.predicate.operator], from |-> r.predicate.from,
     value |-> r.predicate.value]

Normalize(d) ==
    [default |-> d.default,
     roles |-> [n \in Lowered(DOMAIN d.roles) |->
                  LET r == d.roles[CHOOSE m \in DOMAIN d.roles : Lower[m] = n] IN
                  [permissions |-> Lowered(r.permissions), bypass |-> r.bypass]],
     principals |-> [s \in DOMAIN d.principals |->
                       [roles |-> Lowered(d.principals[s].roles),
                        attributes |-> d.principals[s].attributes]],
     acl |-> [i \in DOMAIN d.acl |-> Rule(d.acl[i])],
     rows |-> [i \in DOMAIN d.rows |-> Row(d.rows[i])]]

NameErrors(d) ==
    If(Cardinality(Lowered(DOMAIN d.roles)) # Cardinality(DOMAIN d.roles), "duplicate_role")

\* build_policy(): the column is that of a rule on a column, and an absent value is none.
BuiltRule(r) == [r EXCEPT !.column = IF r.type = "column" THEN @ ELSE Absent]
BuiltRow(r) == [r EXCEPT !.value = IF @ = Absent THEN Null ELSE @]
Build(n) ==
    [default |-> n.default, roles |-> n.roles, principals |-> n.principals,
     acl |-> [i \in DOMAIN n.acl |-> BuiltRule(n.acl[i])],
     rows |-> [i \in DOMAIN n.rows |-> BuiltRow(n.rows[i])]]

-----------------------------------------------------------------------------
(* _validate_semantics(), _validate_security() of a normalized document *)

UnknownRole(n, roles) == If(~(roles \subseteq DOMAIN n.roles), "unknown_role")

RuleErrors(n, r) ==
    If(r.type \notin {"table", "column"}, "resource_kind")
    \cup If(r.table \notin Resources, "resource_table")
    \cup If(r.type = "column" /\ r.column \notin Resources, "resource_column")
    \cup If(r.action # "select", "action_value")
    \cup If(r.effect \notin {"allow", "deny"}, "effect_value")
    \cup UnknownRole(n, r.subjects.roles)

RowErrors(n, r) ==
    If(~(r.tables \subseteq Resources), "row_policy_tables")
    \cup If(~(r.actions \subseteq {"select"}), "row_policy_actions")
    \cup If(r.column \notin Identifiers, "row_policy_column")
    \cup If(r.operator \notin {"eq", "ne", "lt", "lte", "gt", "gte", "in"}, "row_policy_operator")
    \cup If(r.value # Absent /\ r.from # Absent, "row_policy_value_conflict")
    \cup If(r.value = Absent /\ r.from = Absent, "row_policy_value_missing")
    \cup If(r.from \notin OfPrincipal \cup {Absent}, "row_policy_value_from")
    \cup If(r.operator = "in" /\ r.value \notin {Absent, "list"}, "row_policy_in_value")
    \cup UnknownRole(n, r.subjects.roles)

SemanticErrors(n) ==
    If(n.default \notin DOMAIN n.principals, "default_principal_missing")
    \cup (UNION {UnknownRole(n, n.principals[s].roles) : s \in DOMAIN n.principals})
    \cup (UNION {RuleErrors(n, r) : r \in ToSet(n.acl)})
    \cup (UNION {RowErrors(n, r) : r \in ToSet(n.rows)})
    \cup If(\E i, j \in DOMAIN n.rows : i # j /\ n.rows[i].name = n.rows[j].name,
            "duplicate_row_policy")

RoleErrors(r) ==
    LET guarded == r.permissions \cap (Control \cup {RlsBypass}) # {} IN
    If(Wildcard \in r.permissions, "global_wildcard")
    \cup If(guarded /\ (r.bypass \/ Run \in r.permissions), "control_data_mix")

SecurityErrors(n) == UNION {RoleErrors(n.roles[name]) : name \in DOMAIN n.roles}

-----------------------------------------------------------------------------
(* permission_policy_to_dict() of a compiled policy *)

ExportedSubjects(s) == [unknown |-> FALSE, users |-> s.users, roles |-> s.roles]

ExportedRule_NameOnly(r) ==
    [unknown |-> FALSE, subjects |-> ExportedSubjects(r.subjects),
     resource |-> [unknown |-> FALSE, type |-> r.type, table |-> Absent,
                   name |-> IF r.type = "column" THEN r.column ELSE r.table],
     action |-> r.action, effect |-> r.effect]
ExportedRule(r) ==
    [unknown |-> FALSE, subjects |-> ExportedSubjects(r.subjects),
     resource |-> IF r.type = "column"
                    THEN [unknown |-> FALSE, type |-> "column", table |-> r.table, name |-> r.column]
                    ELSE [unknown |-> FALSE, type |-> "table", table |-> Absent, name |-> r.table],
     action |-> r.action, effect |-> r.effect]

\* A value that is null is not written.
ExportedRow(r) ==
    [unknown |-> FALSE, name |-> r.name, subjects |-> ExportedSubjects(r.subjects),
     tables |-> r.tables, actions |-> r.actions,
     predicate |-> [unknown |-> FALSE, column |-> r.column, operator |-> r.operator,
                    from |-> r.from, value |-> IF r.value = Null THEN Absent ELSE r.value]]

Exported(p) ==
    [large |-> FALSE, deep |-> FALSE, unknown |-> FALSE, version |-> Version,
     default |-> p.default,
     roles |-> [n \in DOMAIN p.roles |->
                  [unknown |-> FALSE, permissions |-> p.roles[n].permissions, bypass |-> p.roles[n].bypass]],
     principals |-> [s \in DOMAIN p.principals |->
                       [unknown |-> FALSE, roles |-> p.principals[s].roles,
                        attributes |-> p.principals[s].attributes]],
     acl |-> [i \in DOMAIN p.acl |-> ExportedRule(p.acl[i])],
     rows |-> [i \in DOMAIN p.rows |-> ExportedRow(p.rows[i])]]
=============================================================================
