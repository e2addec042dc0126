------------------------ MODULE PolicyDocumentProofs ------------------------
(***************************************************************************)
(* The life of policy documents and of the principals of Authentication,   *)
(* for any documents, settings and credentials.                            *)
(***************************************************************************)
EXTENDS Authentication, TLAPS

-----------------------------------------------------------------------------
(* A compiled part of a document survives its export *)

\* What is in lower case stays as it is.
LEMMA LoweredTwice ==
    ASSUME NEW names \in NameLists
    PROVE  /\ Lowered(names) \in NameLists
           /\ Lowered(Lowered(names)) = Lowered(names)
           /\ Lowered(names) = {} <=> names = {}
BY NamesAssumption DEF Lowered

LEMMA SubjectsRoundTrip ==
    ASSUME NEW s \in SubjectObjects({Malformed}), SubjectsSchema(s) = {}
    PROVE  /\ ExportedSubjects(Subjects(s)) \in SubjectObjects({})
           /\ SubjectsSchema(ExportedSubjects(Subjects(s))) = {}
           /\ Subjects(ExportedSubjects(Subjects(s))) = Subjects(s)
<1> DEFINE x == ExportedSubjects(Subjects(s))
<1>1. s # Malformed /\ s.users # Malformed /\ s.roles # Malformed /\ s.users \cup s.roles # {}
  BY DEF SubjectsSchema, ObjectErrors, If
<1>2. s.users \in NameLists /\ s.roles \in NameLists
  BY <1>1 DEF SubjectObjects
<1>3. x = [unknown |-> FALSE, users |-> s.users, roles |-> Lowered(s.roles)]
  BY DEF ExportedSubjects, Subjects
<1>4. x \in SubjectObjects({}) /\ x # Malformed
  <2>1. x \in [unknown : BOOLEAN, users : NameLists, roles : NameLists]
    BY <1>2, <1>3, LoweredTwice
  <2>2. x \in SubjectObjects({})
    BY <2>1 DEF SubjectObjects
  <2>3. Malformed \notin SubjectObjects({})
    BY NamesAssumption
  <2> QED BY <2>2, <2>3
<1>5. x.users \cup x.roles # {} /\ x.users # Malformed /\ x.roles # Malformed
  BY <1>1, <1>2, <1>3, LoweredTwice, NamesAssumption
<1>6. SubjectsSchema(x) = {}
  BY <1>3, <1>4, <1>5 DEF SubjectsSchema, ObjectErrors, If
<1>7. Subjects(x) = Subjects(s)
  BY <1>2, <1>3, LoweredTwice DEF Subjects
<1> QED
  BY <1>4, <1>6, <1>7

\* A rule as the stages before it let it through.
RuleIsValid(n, r) == RuleSchema(r) = {} /\ RuleErrors(n, Rule(r)) = {}
CompiledRule(r) == BuiltRule(Rule(r))

LEMMA RuleForm ==
    ASSUME NEW r \in RuleObjects({Malformed}), RuleSchema(r) = {}
    PROVE  /\ r.subjects \in SubjectObjects({Malformed}) /\ SubjectsSchema(r.subjects) = {}
           /\ r.resource \in ResourceObjects({}) /\ r.action \in Written /\ r.effect \in Written
<1>1. /\ r # Malformed /\ SubjectsSchema(r.subjects) = {} /\ r.resource # Malformed
      /\ r.action # Malformed /\ r.effect # Malformed
  BY DEF RuleSchema, ObjectErrors, If
<1> QED
  BY <1>1 DEF RuleObjects, ResourceObjects

LEMMA RuleRoundTrip ==
    ASSUME NEW n, NEW r \in RuleObjects({Malformed}), RuleIsValid(n, r)
    PROVE  /\ ExportedRule(CompiledRule(r)) \in RuleObjects({})
           /\ RuleIsValid(n, ExportedRule(CompiledRule(r)))
           /\ CompiledRule(ExportedRule(CompiledRule(r))) = CompiledRule(r)
<1> DEFINE q == CompiledRule(r)
           x == ExportedRule(q)
           table == IF r.resource.table = Absent THEN r.resource.name ELSE r.resource.table
           kind == Lower[r.resource.type]
<1>1. /\ r.subjects \in SubjectObjects({Malformed}) /\ SubjectsSchema(r.subjects) = {}
      /\ r.resource \in ResourceObjects({}) /\ r.action \in Written /\ r.effect \in Written
  BY RuleForm DEF RuleIsValid
<1>2. /\ r.resource.type \in Written /\ r.resource.table \in Written /\ r.resource.name \in Written
      /\ table \in Written
  BY <1>1 DEF ResourceObjects
<1>3. Rule(r) = [subjects |-> Subjects(r.subjects), type |-> kind, table |-> Lower[table],
                 column |-> Lower[r.resource.name], action |-> Lower[r.action],
                 effect |-> Lower[r.effect]]
  BY DEF Rule
<1> HIDE DEF table, kind
<1>4. q = [subjects |-> Subjects(r.subjects), type |-> kind, table |-> Lower[table],
           column |-> IF kind = "column" THEN Lower[r.resource.name] ELSE Absent,
           action |-> Lower[r.action], effect |-> Lower[r.effect]]
  BY <1>3 DEF CompiledRule, BuiltRule
<1>5. /\ kind \in {"table", "column"} /\ Lower[table] \in Resources
      /\ kind = "column" => Lower[r.resource.name] \in Resources
      /\ Lower[r.action] = "select" /\ Lower[r.effect] \in {"allow", "deny"}
      /\ Subjects(r.subjects).roles \subseteq DOMAIN n.roles
  BY <1>3 DEF RuleIsValid, RuleErrors, UnknownRole, If
<1>6. /\ kind \in Written /\ Lower[kind] = kind
      /\ Lower[table] \in Written /\ Lower[Lower[table]] = Lower[table] /\ Lower[table] # Absent
      /\ Lower[r.resource.name] \in Written
      /\ Lower[Lower[r.resource.name]] = Lower[r.resource.name]
      /\ Lower[r.action] \in Written /\ Lower[Lower[r.action]] = Lower[r.action]
      /\ Lower[r.effect] \in Written /\ Lower[Lower[r.effect]] = Lower[r.effect]
  BY <1>1, <1>2, <1>5, NamesAssumption DEF kind
<1> DEFINE s == ExportedSubjects(Subjects(r.subjects))
           resource == IF kind = "column"
                         THEN [unknown |-> FALSE, type |-> "column", table |-> Lower[table],
                               name |-> Lower[r.resource.name]]
                         ELSE [unknown |-> FALSE, type |-> "table", table |-> Absent,
                               name |-> Lower[table]]
<1>7. x = [unknown |-> FALSE, subjects |-> s, resource |-> resource,
           action |-> Lower[r.action], effect |-> Lower[r.effect]]
  BY <1>4 DEF ExportedRule
<1>8. /\ s \in SubjectObjects({}) /\ SubjectsSchema(s) = {} /\ Subjects(s) = Subjects(r.subjects)
  BY <1>1, SubjectsRoundTrip
<1>9. resource \in ResourceObjects({}) /\ resource # Malformed /\ resource.unknown = FALSE
  <2>1. resource \in [unknown : BOOLEAN, type : Written, table : Written, name : Written]
    <3>1. CASE kind = "column"
      BY <1>6, <3>1
    <3>2. CASE kind = "table"
      BY <1>6, <3>2, NamesAssumption
    <3> QED
      BY <1>5, <3>1, <3>2
  <2>2. resource \in ResourceObjects({})
    BY <2>1 DEF ResourceObjects
  <2> QED
    BY <2>2, NamesAssumption
<1> HIDE DEF s, resource
<1>10. x \in RuleObjects({}) /\ x # Malformed
  <2>1. x \in [unknown : BOOLEAN, subjects : SubjectObjects({}), resource : ResourceObjects({}),
               action : Written, effect : Written]
    BY <1>6, <1>7, <1>8, <1>9
  <2>2. x \in RuleObjects({})
    BY <2>1 DEF RuleObjects
  <2> QED
    BY <2>2, NamesAssumption
<1>11. RuleSchema(x) = {}
  BY <1>6, <1>7, <1>8, <1>9, <1>10, NamesAssumption DEF RuleSchema, ObjectErrors, If
<1> USE DEF resource
<1>12. Rule(x) = [subjects |-> Subjects(r.subjects), type |-> kind, table |-> Lower[table],
                  column |-> IF kind = "column" THEN Lower[r.resource.name] ELSE Lower[table],
                  action |-> Lower[r.action], effect |-> Lower[r.effect]]
  BY <1>5, <1>6, <1>7, <1>8 DEF Rule
<1>13. RuleErrors(n, Rule(x)) = {}
  BY <1>5, <1>12 DEF RuleErrors, UnknownRole, If
<1>14. CompiledRule(x) = q
  BY <1>4, <1>12 DEF CompiledRule, BuiltRule
<1> QED
  BY <1>10, <1>11, <1>13, <1>14 DEF RuleIsValid

\* A row policy as the stages before it let it through.
RowSchemaOK(r) == r \in RowObjects({Malformed}) /\ RowSchema(r) = {}
CompiledRow(r) == BuiltRow(Row(r))

LEMMA RowForm ==
    ASSUME NEW r, RowSchemaOK(r)
    PROVE  /\ r.subjects \in SubjectObjects({Malformed}) /\ SubjectsSchema(r.subjects) = {}
           /\ r.name \in Written /\ r.tables \in NameLists /\ r.actions \in NameLists
           /\ r.predicate \in PredicateObjects({})
<1>1. /\ r # Malformed /\ SubjectsSchema(r.subjects) = {} /\ r.predicate # Malformed
      /\ r.name # Malformed /\ r.tables # Malformed /\ r.actions # Malformed
  BY DEF RowSchemaOK, RowSchema, ObjectErrors, If
<1> QED
  BY <1>1 DEF RowSchemaOK, RowObjects, PredicateObjects

LEMMA RowRoundTrip ==
    ASSUME NEW n, NEW r, RowSchemaOK(r), RowErrors(n, Row(r)) = {}
    PROVE  /\ RowSchemaOK(ExportedRow(CompiledRow(r)))
           /\ ExportedRow(CompiledRow(r)) \in RowObjects({})
           /\ ExportedRow(CompiledRow(r)).name = r.name
           /\ CompiledRow(ExportedRow(CompiledRow(r))) = CompiledRow(r)
           /\ ~(CompiledRow(r).value = Null /\ CompiledRow(r).from = Absent) =>
                 RowErrors(n, Row(ExportedRow(CompiledRow(r)))) = {}
<1> DEFINE q == CompiledRow(r)
           x == ExportedRow(q)
           p == r.predicate
           value == IF p.value = Absent THEN Null ELSE p.value
           written == IF value = Null THEN Absent ELSE value
<1>1. /\ r.subjects \in SubjectObjects({Malformed}) /\ SubjectsSchema(r.subjects) = {}
      /\ r.name \in Written /\ r.tables \in NameLists /\ r.actions \in NameLists
      /\ p.column \in Written /\ p.operator \in Written /\ p.from \in Written
      /\ p.value \in {"scalar", "list", Null, Absent}
  BY RowForm DEF PredicateObjects
<1>2. Row(r) = [name |-> r.name, subjects |-> Subjects(r.subjects), tables |-> Lowered(r.tables),
                actions |-> Lowered(r.actions), column |-> Lower[p.column],
                operator |-> Lower[p.operator], from |-> p.from, value |-> p.value]
  BY DEF Row
<1>3. q = [name |-> r.name, subjects |-> Subjects(r.subjects), tables |-> Lowered(r.tables),
           actions |-> Lowered(r.actions), column |-> Lower[p.column],
           operator |-> Lower[p.operator], from |-> p.from, value |-> value]
  BY <1>2 DEF CompiledRow, BuiltRow
<1>4. /\ Lowered(r.tables) \subseteq Resources /\ Lowered(r.actions) \subseteq {"select"}
      /\ Lower[p.column] \in Identifiers
      /\ Lower[p.operator] \in {"eq", "ne", "lt", "lte", "gt", "gte", "in"}
      /\ ~(p.value # Absent /\ p.from # Absent)
      /\ p.from \in OfPrincipal \cup {Absent}
      /\ ~(Lower[p.operator] = "in" /\ p.value \notin {Absent, "list"})
      /\ Subjects(r.subjects).roles \subseteq DOMAIN n.roles
  BY <1>2 DEF RowErrors, UnknownRole, If
<1>5. /\ Lowered(r.tables) \in NameLists /\ Lowered(Lowered(r.tables)) = Lowered(r.tables)
      /\ Lowered(r.actions) \in NameLists /\ Lowered(Lowered(r.actions)) = Lowered(r.actions)
      /\ Lower[p.column] \in Written /\ Lower[Lower[p.column]] = Lower[p.column]
      /\ Lower[p.operator] \in Written /\ Lower[Lower[p.operator]] = Lower[p.operator]
  BY <1>1, LoweredTwice, NamesAssumption
<1> DEFINE s == ExportedSubjects(Subjects(r.subjects))
           predicate == [unknown |-> FALSE, column |-> Lower[p.column],
                         operator |-> Lower[p.operator], from |-> p.from, value |-> written]
<1>6. x = [unknown |-> FALSE, name |-> r.name, subjects |-> s, tables |-> Lowered(r.tables),
           actions |-> Lowered(r.actions), predicate |-> predicate]
  BY <1>3 DEF ExportedRow
<1>7. s \in SubjectObjects({}) /\ SubjectsSchema(s) = {} /\ Subjects(s) = Subjects(r.subjects)
  BY <1>1, SubjectsRoundTrip
<1>8. predicate \in PredicateObjects({}) /\ predicate # Malformed
  <2>1. written \in {"scalar", "list", Null, Absent}
    BY <1>1
  <2> HIDE DEF written
  <2>2. predicate \in [unknown : BOOLEAN, column : Written, operator : Written, from : Written,
                       value : {"scalar", "list", Null, Absent}]
    BY <1>1, <1>5, <2>1
  <2> HIDE DEF predicate
  <2>3. predicate \in PredicateObjects({})
    BY <2>2 DEF PredicateObjects
  <2> QED
    BY <2>3, NamesAssumption
<1> HIDE DEF s
<1>9. x \in RowObjects({}) /\ x # Malformed
  <2> HIDE DEF predicate
  <2>1. x \in [unknown : BOOLEAN, name : Written, subjects : SubjectObjects({}), tables : NameLists,
               actions : NameLists, predicate : PredicateObjects({})]
    BY <1>1, <1>5, <1>6, <1>7, <1>8
  <2>2. x \in RowObjects({})
    BY <2>1 DEF RowObjects
  <2> QED
    BY <2>2, NamesAssumption
<1>10. x \in RowObjects({Malformed})
  <2> HIDE DEF predicate
  <2>1. x \in [unknown : BOOLEAN, name : {Malformed} \cup Written, subjects : SubjectObjects({Malformed}),
               tables : {Malformed} \cup NameLists, actions : {Malformed} \cup NameLists,
               predicate : PredicateObjects({Malformed})]
    <3>1. s \in SubjectObjects({Malformed})
      BY <1>7 DEF SubjectObjects
    <3>2. predicate \in PredicateObjects({Malformed})
      BY <1>8 DEF PredicateObjects
    <3> QED
      BY <1>1, <1>5, <1>6, <3>1, <3>2
  <2> QED
    BY <2>1 DEF RowObjects
<1>11. RowSchema(x) = {}
  <2>1. x.name # Malformed /\ x.tables # Malformed /\ x.actions # Malformed
    BY <1>1, <1>5, <1>6, NamesAssumption
  <2>2. x.unknown = FALSE /\ x.predicate # Malformed /\ x.predicate.unknown = FALSE
        /\ SubjectsSchema(x.subjects) = {}
    BY <1>6, <1>7, <1>8
  <2> QED
    BY <1>9, <2>1, <2>2 DEF RowSchema, ObjectErrors, If
<1>12. Row(x) = [name |-> r.name, subjects |-> Subjects(r.subjects), tables |-> Lowered(r.tables),
                 actions |-> Lowered(r.actions), column |-> Lower[p.column],
                 operator |-> Lower[p.operator], from |-> p.from, value |-> written]
  BY <1>5, <1>6, <1>7 DEF Row
<1>13. CompiledRow(x) = q
  BY <1>3, <1>12 DEF CompiledRow, BuiltRow
<1>14. ~(q.value = Null /\ q.from = Absent) => RowErrors(n, Row(x)) = {}
  <2> SUFFICES ASSUME ~(value = Null /\ p.from = Absent) PROVE RowErrors(n, Row(x)) = {}
    BY <1>3
  <2>1. /\ ~(written # Absent /\ p.from # Absent) /\ ~(written = Absent /\ p.from = Absent)
        /\ ~(Lower[p.operator] = "in" /\ written \notin {Absent, "list"})
    BY <1>4
  <2> HIDE DEF written, value
  <2> QED
    BY <1>4, <1>12, <2>1 DEF RowErrors, UnknownRole, If
<1> HIDE DEF predicate
<1>15. x.name = r.name
  BY <1>6
<1> HIDE DEF x
<1>16. RowSchemaOK(x)
  BY <1>10, <1>11 DEF RowSchemaOK
<1> QED
  BY <1>9, <1>13, <1>14, <1>15, <1>16 DEF x

LEMMA MemberOfSeq ==
    ASSUME NEW S, NEW q \in Seq(S), NEW i \in DOMAIN q
    PROVE  q[i] \in S
OBVIOUS

LEMMA SeqByMembers ==
    ASSUME NEW R, NEW r \in Seq(R), NEW S, NEW q, q = [i \in DOMAIN q |-> q[i]],
           DOMAIN q = DOMAIN r, \A i \in DOMAIN q : q[i] \in S
    PROVE  q \in Seq(S)
<1>1. DOMAIN q = 1..Len(r) /\ Len(r) \in Nat
  OBVIOUS
<1>2. q \in [1..Len(r) -> S]
  BY <1>1
<1> QED
  BY <1>1, <1>2

-----------------------------------------------------------------------------
(* An accepted document *)

Accepted(d) ==
    /\ ShapeErrors(d) = {} /\ SchemaErrors(d) = {}
    /\ SemanticErrors(Normalize(d)) \cup SecurityErrors(Normalize(d)) = {}

LowerCaseRoles(d) == \A n \in DOMAIN d.roles : Lower[n] = n

LEMMA ShapeForm ==
    ASSUME NEW d, ShapeErrors(d) = {}
    PROVE  d # Malformed /\ d.version # Absent
BY DEF ShapeErrors, If

LEMMA SchemaForm ==
    ASSUME NEW d, SchemaErrors(d) = {}
    PROVE  /\ d.version = Version /\ d.default # Malformed
           /\ d.roles # Malformed /\ \A n \in DOMAIN d.roles : RoleSchema(n, d.roles[n]) = {}
           /\ d.principals # Malformed
           /\ \A s \in DOMAIN d.principals : PrincipalSchema(d.principals[s]) = {}
           /\ d.acl # Malformed /\ \A i \in DOMAIN d.acl : RuleSchema(d.acl[i]) = {}
           /\ d.rows # Malformed /\ \A i \in DOMAIN d.rows : RowSchema(d.rows[i]) = {}
<1> DEFINE roles == {RoleSchema(n, d.roles[n]) : n \in DOMAIN d.roles}
           principals == {PrincipalSchema(d.principals[s]) : s \in DOMAIN d.principals}
           acl == {RuleSchema(r) : r \in ToSet(d.acl)}
           rows == {RowSchema(r) : r \in ToSet(d.rows)}
<1>1. /\ If(d.version # Version, "unsupported_version") = {}
      /\ If(d.default = Malformed, "string_required") = {}
      /\ PartErrors(d.roles, "roles_type", UNION roles) = {}
      /\ PartErrors(d.principals, "principals_type", UNION principals) = {}
      /\ PartErrors(d.acl, "acl_type", UNION acl) = {}
      /\ PartErrors(d.rows, "row_policies_type", UNION rows) = {}
  BY DEF SchemaErrors
<1> HIDE DEF roles, principals, acl, rows
<1>2. /\ d.version = Version /\ d.default # Malformed /\ d.roles # Malformed
      /\ d.principals # Malformed /\ d.acl # Malformed /\ d.rows # Malformed
      /\ UNION roles = {} /\ UNION principals = {} /\ UNION acl = {} /\ UNION rows = {}
  BY <1>1 DEF If, PartErrors
<1>3. \A n \in DOMAIN d.roles : RoleSchema(n, d.roles[n]) \in roles
  BY DEF roles
<1>4. \A s \in DOMAIN d.principals : PrincipalSchema(d.principals[s]) \in principals
  BY DEF principals
<1>5. \A i \in DOMAIN d.acl : RuleSchema(d.acl[i]) \in acl
  BY DEF acl, ToSet
<1>6. \A i \in DOMAIN d.rows : RowSchema(d.rows[i]) \in rows
  BY DEF rows, ToSet
<1> QED
  BY <1>2, <1>3, <1>4, <1>5, <1>6

LEMMA SchemaHolds ==
    ASSUME NEW d, d.version = Version, d.default # Malformed,
           d.roles # Malformed, \A n \in DOMAIN d.roles : RoleSchema(n, d.roles[n]) = {},
           d.principals # Malformed,
           \A s \in DOMAIN d.principals : PrincipalSchema(d.principals[s]) = {},
           d.acl # Malformed, \A i \in DOMAIN d.acl : RuleSchema(d.acl[i]) = {},
           d.rows # Malformed, \A i \in DOMAIN d.rows : RowSchema(d.rows[i]) = {}
    PROVE  SchemaErrors(d) = {}
<1>1. UNION {RoleSchema(n, d.roles[n]) : n \in DOMAIN d.roles} = {}
  OBVIOUS
<1>2. UNION {PrincipalSchema(d.principals[s]) : s \in DOMAIN d.principals} = {}
  OBVIOUS
<1>3. UNION {RuleSchema(r) : r \in ToSet(d.acl)} = {}
  BY DEF ToSet
<1>4. UNION {RowSchema(r) : r \in ToSet(d.rows)} = {}
  BY DEF ToSet
<1> QED
  BY <1>1, <1>2, <1>3, <1>4 DEF SchemaErrors, PartErrors, If

LEMMA SemanticForm ==
    ASSUME NEW n
    PROVE  SemanticErrors(n) = {} <=>
             /\ n.default \in DOMAIN n.principals
             /\ \A s \in DOMAIN n.principals : n.principals[s].roles \subseteq DOMAIN n.roles
             /\ \A i \in DOMAIN n.acl : RuleErrors(n, n.acl[i]) = {}
             /\ \A i \in DOMAIN n.rows : RowErrors(n, n.rows[i]) = {}
             /\ \A i, j \in DOMAIN n.rows : i # j => n.rows[i].name # n.rows[j].name
<1> DEFINE principals == UNION {UnknownRole(n, n.principals[s].roles) : s \in DOMAIN n.principals}
           acl == UNION {RuleErrors(n, r) : r \in ToSet(n.acl)}
           rows == UNION {RowErrors(n, r) : r \in ToSet(n.rows)}
           same == \E i, j \in DOMAIN n.rows : i # j /\ n.rows[i].name = n.rows[j].name
<1>1. principals = {} <=>
        \A s \in DOMAIN n.principals : n.principals[s].roles \subseteq DOMAIN n.roles
  <2>1. \A s \in DOMAIN n.principals :
          UnknownRole(n, n.principals[s].roles) = {} <=> n.principals[s].roles \subseteq DOMAIN n.roles
    BY DEF UnknownRole, If
  <2>2. principals = {} <=> \A s \in DOMAIN n.principals : UnknownRole(n, n.principals[s].roles) = {}
    OBVIOUS
  <2> QED
    BY <2>1, <2>2
<1>2. acl = {} <=> \A i \in DOMAIN n.acl : RuleErrors(n, n.acl[i]) = {}
  BY DEF ToSet
<1>3. rows = {} <=> \A i \in DOMAIN n.rows : RowErrors(n, n.rows[i]) = {}
  BY DEF ToSet
<1>4. SemanticErrors(n) = If(n.default \notin DOMAIN n.principals, "default_principal_missing")
                          \cup principals \cup acl \cup rows \cup If(same, "duplicate_row_policy")
  BY DEF SemanticErrors
<1> HIDE DEF principals, acl, rows
<1>5. SemanticErrors(n) = {} <=>
        n.default \in DOMAIN n.principals /\ principals = {} /\ acl = {} /\ rows = {} /\ ~same
  BY <1>4 DEF If
<1> QED
  BY <1>1, <1>2, <1>3, <1>5

\* Role names that are in lower case already are kept.
LEMMA NormalRoles ==
    ASSUME NEW d, LowerCaseRoles(d)
    PROVE  Normalize(d).roles =
             [n \in DOMAIN d.roles |-> [permissions |-> Lowered(d.roles[n].permissions),
                                        bypass |-> d.roles[n].bypass]]
<1> DEFINE named(n) == CHOOSE m \in DOMAIN d.roles : Lower[m] = n
<1>1. Lowered(DOMAIN d.roles) = DOMAIN d.roles
  BY DEF Lowered, LowerCaseRoles
<1>2. \A n \in DOMAIN d.roles : named(n) = n
  BY DEF LowerCaseRoles
<1>3. Normalize(d).roles =
        [n \in Lowered(DOMAIN d.roles) |-> [permissions |-> Lowered(d.roles[named(n)].permissions),
                                            bypass |-> d.roles[named(n)].bypass]]
  BY DEF Normalize
<1> HIDE DEF named
<1> QED
  BY <1>1, <1>2, <1>3

LEMMA NormalForm ==
    ASSUME NEW d
    PROVE  LET n == Normalize(d) IN
           /\ n = [default |-> d.default, roles |-> n.roles, principals |-> n.principals,
                   acl |-> n.acl, rows |-> n.rows]
           /\ n.principals = [s \in DOMAIN d.principals |->
                                [roles |-> Lowered(d.principals[s].roles),
                                 attributes |-> d.principals[s].attributes]]
           /\ n.acl = [i \in DOMAIN d.acl |-> Rule(d.acl[i])]
           /\ n.rows = [i \in DOMAIN d.rows |-> Row(d.rows[i])]
BY DEF Normalize

LEMMA CompiledForm ==
    ASSUME NEW d
    PROVE  Compiled(d) =
             [default |-> d.default, roles |-> Normalize(d).roles,
              principals |-> Normalize(d).principals,
              acl |-> [i \in DOMAIN d.acl |-> CompiledRule(d.acl[i])],
              rows |-> [i \in DOMAIN d.rows |-> CompiledRow(d.rows[i])]]
<1> DEFINE n == Normalize(d)
<1>1. /\ n = [default |-> d.default, roles |-> n.roles, principals |-> n.principals,
              acl |-> n.acl, rows |-> n.rows]
      /\ n.acl = [i \in DOMAIN d.acl |-> Rule(d.acl[i])]
      /\ n.rows = [i \in DOMAIN d.rows |-> Row(d.rows[i])]
  BY NormalForm
<1> HIDE DEF n
<1>2. Build(n) = [default |-> d.default, roles |-> n.roles, principals |-> n.principals,
                  acl |-> [i \in DOMAIN n.acl |-> BuiltRule(n.acl[i])],
                  rows |-> [i \in DOMAIN n.rows |-> BuiltRow(n.rows[i])]]
  BY <1>1 DEF Build
<1>3. [i \in DOMAIN n.acl |-> BuiltRule(n.acl[i])] = [i \in DOMAIN d.acl |-> CompiledRule(d.acl[i])]
  BY <1>1 DEF CompiledRule
<1>4. [i \in DOMAIN n.rows |-> BuiltRow(n.rows[i])] = [i \in DOMAIN d.rows |-> CompiledRow(d.rows[i])]
  BY <1>1 DEF CompiledRow
<1> QED
  BY <1>2, <1>3, <1>4 DEF Compiled, n

LEMMA AcceptedForm ==
    ASSUME NEW d \in Documents, Accepted(d)
    PROVE  /\ d.default \in Written
           /\ LowerCaseRoles(d) /\ DOMAIN d.roles \subseteq Written \cap Identifiers
           /\ d.roles \in [DOMAIN d.roles -> RoleObjects({})]
           /\ \A n \in DOMAIN d.roles : /\ d.roles[n].permissions \in NameLists
                                        /\ d.roles[n].bypass \in BOOLEAN
           /\ d.principals \in [DOMAIN d.principals -> PrincipalObjects({})]
           /\ \A s \in DOMAIN d.principals : /\ d.principals[s].roles \in NameLists
                                             /\ d.principals[s].attributes \in NameLists
           /\ d.acl \in Seq(RuleObjects({Malformed}))
           /\ \A i \in DOMAIN d.acl : RuleIsValid(Normalize(d), d.acl[i])
           /\ d.rows \in Seq(RowObjects({Malformed}))
           /\ \A i \in DOMAIN d.rows : /\ RowSchemaOK(d.rows[i])
                                       /\ RowErrors(Normalize(d), Row(d.rows[i])) = {}
           /\ \A i, j \in DOMAIN d.rows : i # j => d.rows[i].name # d.rows[j].name
           /\ Malformed \notin [DOMAIN d.roles -> RoleObjects({})]
           /\ Malformed \notin [DOMAIN d.principals -> PrincipalObjects({})]
           /\ Malformed \notin Objects(DOMAIN d.roles, DOMAIN d.principals)
<1> DEFINE n == Normalize(d)
<1>1. d # Malformed
  BY ShapeForm DEF Accepted
<1>2. /\ d.default # Malformed
      /\ d.roles # Malformed /\ \A m \in DOMAIN d.roles : RoleSchema(m, d.roles[m]) = {}
      /\ d.principals # Malformed
      /\ \A s \in DOMAIN d.principals : PrincipalSchema(d.principals[s]) = {}
      /\ d.acl # Malformed /\ \A i \in DOMAIN d.acl : RuleSchema(d.acl[i]) = {}
      /\ d.rows # Malformed /\ \A i \in DOMAIN d.rows : RowSchema(d.rows[i]) = {}
  BY SchemaForm DEF Accepted
<1>3. /\ d.default \in Written
      /\ DOMAIN d.roles \subseteq Written
      /\ d.roles \in [DOMAIN d.roles -> RoleObjects({Malformed})]
      /\ Malformed \notin [DOMAIN d.roles -> RoleObjects({})]
      /\ d.principals \in [DOMAIN d.principals -> PrincipalObjects({Malformed})]
      /\ Malformed \notin [DOMAIN d.principals -> PrincipalObjects({})]
      /\ d.acl \in Seq(RuleObjects({Malformed}))
      /\ d.rows \in Seq(RowObjects({Malformed}))
      /\ Malformed \notin Objects(DOMAIN d.roles, DOMAIN d.principals)
  BY <1>1, <1>2, DocumentsAssumption
<1>4. ASSUME NEW m \in DOMAIN d.roles
      PROVE  /\ m \in Identifiers /\ Lower[m] = m
             /\ d.roles[m] \in RoleObjects({})
             /\ d.roles[m].permissions \in NameLists /\ d.roles[m].bypass \in BOOLEAN
  <2>1. RoleSchema(m, d.roles[m]) = {} /\ d.roles[m] \in RoleObjects({Malformed})
    BY <1>2, <1>3
  <2>2. /\ m \in Identifiers /\ Lower[m] = m /\ d.roles[m] # Malformed
        /\ d.roles[m].permissions # Malformed /\ d.roles[m].bypass # Malformed
    BY <2>1 DEF RoleSchema, ObjectErrors, If
  <2>3. /\ d.roles[m] \in [unknown : BOOLEAN, permissions : {Malformed} \cup NameLists,
                           bypass : {Malformed} \cup BOOLEAN]
    BY <2>1, <2>2 DEF RoleObjects
  <2>4. d.roles[m] \in [unknown : BOOLEAN, permissions : NameLists, bypass : BOOLEAN]
    BY <2>2, <2>3
  <2> QED
    BY <2>2, <2>4 DEF RoleObjects
<1>5. ASSUME NEW s \in DOMAIN d.principals
      PROVE  /\ d.principals[s] \in PrincipalObjects({})
             /\ d.principals[s].roles \in NameLists /\ d.principals[s].attributes \in NameLists
  <2>1. PrincipalSchema(d.principals[s]) = {} /\ d.principals[s] \in PrincipalObjects({Malformed})
    BY <1>2, <1>3
  <2>2. /\ d.principals[s] # Malformed
        /\ d.principals[s].roles # Malformed /\ d.principals[s].attributes # Malformed
    BY <2>1 DEF PrincipalSchema, ObjectErrors, If
  <2> QED
    BY <2>1, <2>2 DEF PrincipalObjects
<1>6. /\ \A i \in DOMAIN n.acl : RuleErrors(n, n.acl[i]) = {}
      /\ \A i \in DOMAIN n.rows : RowErrors(n, n.rows[i]) = {}
      /\ \A i, j \in DOMAIN n.rows : i # j => n.rows[i].name # n.rows[j].name
  BY SemanticForm DEF Accepted
<1>7. /\ n.acl = [i \in DOMAIN d.acl |-> Rule(d.acl[i])]
      /\ n.rows = [i \in DOMAIN d.rows |-> Row(d.rows[i])]
  BY NormalForm
<1> HIDE DEF n
<1>8. ASSUME NEW i \in DOMAIN d.acl PROVE RuleIsValid(n, d.acl[i])
  BY <1>2, <1>6, <1>7 DEF RuleIsValid
<1>9. ASSUME NEW i \in DOMAIN d.rows
      PROVE  RowSchemaOK(d.rows[i]) /\ RowErrors(n, Row(d.rows[i])) = {}
  <2>1. d.rows[i] \in RowObjects({Malformed})
    <3>1. \A S, q : q \in Seq(S) => \A k \in DOMAIN q : q[k] \in S
      OBVIOUS
    <3> QED
      BY <1>3, <3>1
  <2>2. i \in DOMAIN n.rows /\ n.rows[i] = Row(d.rows[i])
    BY <1>7
  <2>3. RowErrors(n, n.rows[i]) = {}
    BY <1>6, <2>2
  <2> QED
    BY <1>2, <2>1, <2>2, <2>3 DEF RowSchemaOK
<1>10. ASSUME NEW i \in DOMAIN d.rows, NEW j \in DOMAIN d.rows, i # j
       PROVE  d.rows[i].name # d.rows[j].name
  <2>1. \A r : Row(r).name = r.name
    BY DEF Row
  <2>2. i \in DOMAIN n.rows /\ j \in DOMAIN n.rows /\ n.rows[i] = Row(d.rows[i]) /\ n.rows[j] = Row(d.rows[j])
    BY <1>7
  <2>3. n.rows[i].name # n.rows[j].name
    BY <1>6, <1>10, <2>2
  <2> QED
    BY <2>1, <2>2, <2>3
<1> USE DEF n
<1>11. LowerCaseRoles(d) /\ DOMAIN d.roles \subseteq Written \cap Identifiers
  BY <1>3, <1>4 DEF LowerCaseRoles
<1>12. d.roles \in [DOMAIN d.roles -> RoleObjects({})]
  BY <1>3, <1>4
<1>13. d.principals \in [DOMAIN d.principals -> PrincipalObjects({})]
  BY <1>3, <1>5
<1> QED
  BY <1>3, <1>4, <1>5, <1>8, <1>9, <1>10, <1>11, <1>12, <1>13

\* Errors refer to the document only through the names of its roles.
LEMMA ErrorsDependOnRoles ==
    ASSUME NEW n, NEW m, DOMAIN n.roles = DOMAIN m.roles, NEW r
    PROVE  RuleErrors(n, r) = RuleErrors(m, r) /\ RowErrors(n, r) = RowErrors(m, r)
BY DEF RuleErrors, RowErrors, UnknownRole

\* The parts of the export of an accepted document.
LEMMA ExportForm ==
    ASSUME NEW d \in Documents, Accepted(d)
    PROVE  LET e == Exported(Compiled(d)) IN
           /\ e = [large |-> FALSE, deep |-> FALSE, unknown |-> FALSE, version |-> Version,
                   default |-> d.default, roles |-> e.roles, principals |-> e.principals,
                   acl |-> e.acl, rows |-> e.rows]
           /\ e.roles = [n \in DOMAIN d.roles |->
                           [unknown |-> FALSE, permissions |-> Lowered(d.roles[n].permissions),
                            bypass |-> d.roles[n].bypass]]
           /\ e.principals = [s \in DOMAIN d.principals |->
                                [unknown |-> FALSE, roles |-> Lowered(d.principals[s].roles),
                                 attributes |-> d.principals[s].attributes]]
           /\ e.acl = [i \in DOMAIN d.acl |-> ExportedRule(CompiledRule(d.acl[i]))]
           /\ e.rows = [i \in DOMAIN d.rows |-> ExportedRow(CompiledRow(d.rows[i]))]
<1> DEFINE p == Compiled(d)
           n == Normalize(d)
<1>1. /\ p.default = d.default /\ p.roles = n.roles /\ p.principals = n.principals
      /\ p.acl = [i \in DOMAIN d.acl |-> CompiledRule(d.acl[i])]
      /\ p.rows = [i \in DOMAIN d.rows |-> CompiledRow(d.rows[i])]
  BY CompiledForm
<1>2. n.roles = [m \in DOMAIN d.roles |-> [permissions |-> Lowered(d.roles[m].permissions),
                                           bypass |-> d.roles[m].bypass]]
  BY AcceptedForm, NormalRoles
<1>3. n.principals = [s \in DOMAIN d.principals |->
                        [roles |-> Lowered(d.principals[s].roles),
                         attributes |-> d.principals[s].attributes]]
  BY NormalForm
<1> HIDE DEF p, n
<1> DEFINE roles == [m \in DOMAIN p.roles |->
                       [unknown |-> FALSE, permissions |-> p.roles[m].permissions,
                        bypass |-> p.roles[m].bypass]]
           principals == [s \in DOMAIN p.principals |->
                            [unknown |-> FALSE, roles |-> p.principals[s].roles,
                             attributes |-> p.principals[s].attributes]]
           acl == [i \in DOMAIN p.acl |-> ExportedRule(p.acl[i])]
           rows == [i \in DOMAIN p.rows |-> ExportedRow(p.rows[i])]
<1>4. Exported(p) = [large |-> FALSE, deep |-> FALSE, unknown |-> FALSE, version |-> Version,
                     default |-> p.default, roles |-> roles, principals |-> principals,
                     acl |-> acl, rows |-> rows]
  BY DEF Exported
<1>5. roles = [m \in DOMAIN d.roles |->
                 [unknown |-> FALSE, permissions |-> Lowered(d.roles[m].permissions),
                  bypass |-> d.roles[m].bypass]]
  <2>1. /\ DOMAIN p.roles = DOMAIN d.roles
        /\ \A m \in DOMAIN d.roles : /\ p.roles[m].permissions = Lowered(d.roles[m].permissions)
                                     /\ p.roles[m].bypass = d.roles[m].bypass
    BY <1>1, <1>2
  <2> QED
    BY ONLY <2>1
<1>6. principals = [s \in DOMAIN d.principals |->
                      [unknown |-> FALSE, roles |-> Lowered(d.principals[s].roles),
                       attributes |-> d.principals[s].attributes]]
  <2>1. /\ DOMAIN p.principals = DOMAIN d.principals
        /\ \A s \in DOMAIN d.principals :
              /\ p.principals[s].roles = Lowered(d.principals[s].roles)
              /\ p.principals[s].attributes = d.principals[s].attributes
    BY <1>1, <1>3
  <2> QED
    BY ONLY <2>1
<1>7. acl = [i \in DOMAIN d.acl |-> ExportedRule(CompiledRule(d.acl[i]))]
  BY <1>1
<1>8. rows = [i \in DOMAIN d.rows |-> ExportedRow(CompiledRow(d.rows[i]))]
  BY <1>1
<1> HIDE DEF roles, principals, acl, rows
<1> QED
  BY <1>1, <1>4, <1>5, <1>6, <1>7, <1>8 DEF p

LEMMA ExportIsWellFormed ==
    ASSUME NEW d \in Documents, Accepted(d)
    PROVE  LET e == Exported(Compiled(d)) IN ShapeErrors(e) = {} /\ SchemaErrors(e) = {}
<1> DEFINE e == Exported(Compiled(d))
<1>1. /\ e = [large |-> FALSE, deep |-> FALSE, unknown |-> FALSE, version |-> Version,
              default |-> d.default, roles |-> e.roles, principals |-> e.principals,
              acl |-> e.acl, rows |-> e.rows]
      /\ e.roles = [n \in DOMAIN d.roles |->
                      [unknown |-> FALSE, permissions |-> Lowered(d.roles[n].permissions),
                       bypass |-> d.roles[n].bypass]]
      /\ e.principals = [s \in DOMAIN d.principals |->
                           [unknown |-> FALSE, roles |-> Lowered(d.principals[s].roles),
                            attributes |-> d.principals[s].attributes]]
      /\ e.acl = [i \in DOMAIN d.acl |-> ExportedRule(CompiledRule(d.acl[i]))]
      /\ e.rows = [i \in DOMAIN d.rows |-> ExportedRow(CompiledRow(d.rows[i]))]
  BY ExportForm
<1> HIDE DEF e
<1>2. ASSUME NEW n \in DOMAIN e.roles
      PROVE  e.roles[n] \in RoleObjects({}) /\ RoleSchema(n, e.roles[n]) = {}
  <2>1. /\ n \in DOMAIN d.roles
        /\ e.roles[n] = [unknown |-> FALSE, permissions |-> Lowered(d.roles[n].permissions),
                         bypass |-> d.roles[n].bypass]
    BY <1>1
  <2>2. /\ n \in Identifiers /\ Lower[n] = n
        /\ Lowered(d.roles[n].permissions) \in NameLists /\ d.roles[n].bypass \in BOOLEAN
    BY <2>1, AcceptedForm, LoweredTwice DEF LowerCaseRoles
  <2>3. e.roles[n] \in [unknown : BOOLEAN, permissions : NameLists, bypass : BOOLEAN]
    BY <2>1, <2>2
  <2>4. e.roles[n] \in RoleObjects({})
    BY <2>3 DEF RoleObjects
  <2>5. d.roles[n].bypass # Malformed
    <3>1. n \in DOMAIN d.roles /\ RoleSchema(n, d.roles[n]) = {}
      BY <2>1, SchemaForm DEF Accepted
    <3> QED
      BY <3>1 DEF RoleSchema, ObjectErrors, If
  <2>6. e.roles[n] # Malformed /\ Lowered(d.roles[n].permissions) # Malformed
    BY <2>2, <2>4, NamesAssumption
  <2> QED
    BY <2>1, <2>2, <2>4, <2>5, <2>6 DEF RoleSchema, ObjectErrors, If
<1>3. ASSUME NEW s \in DOMAIN e.principals
      PROVE  e.principals[s] \in PrincipalObjects({}) /\ PrincipalSchema(e.principals[s]) = {}
  <2>1. /\ s \in DOMAIN d.principals
        /\ e.principals[s] = [unknown |-> FALSE, roles |-> Lowered(d.principals[s].roles),
                              attributes |-> d.principals[s].attributes]
    BY <1>1
  <2>2. Lowered(d.principals[s].roles) \in NameLists /\ d.principals[s].attributes \in NameLists
    BY <2>1, AcceptedForm, LoweredTwice
  <2>3. e.principals[s] \in [unknown : BOOLEAN, roles : NameLists, attributes : NameLists]
    BY <2>1, <2>2
  <2>4. e.principals[s] \in PrincipalObjects({})
    BY <2>3 DEF PrincipalObjects
  <2>5. /\ e.principals[s] # Malformed /\ Lowered(d.principals[s].roles) # Malformed
        /\ d.principals[s].attributes # Malformed
    BY <2>2, <2>4, NamesAssumption
  <2> QED
    <3>1. /\ e.principals[s].unknown = FALSE /\ e.principals[s].roles # Malformed
          /\ e.principals[s].attributes # Malformed /\ e.principals[s] # Malformed
      BY <2>1, <2>5
    <3>2. PrincipalSchema(e.principals[s]) = {}
      BY ONLY <3>1 DEF PrincipalSchema, ObjectErrors, If
    <3> QED
      BY <2>4, <3>2
<1>4. ASSUME NEW i \in DOMAIN e.acl
      PROVE  e.acl[i] \in RuleObjects({}) /\ RuleSchema(e.acl[i]) = {}
  <2>1. /\ i \in DOMAIN d.acl /\ e.acl[i] = ExportedRule(CompiledRule(d.acl[i]))
        /\ d.acl \in Seq(RuleObjects({Malformed})) /\ RuleIsValid(Normalize(d), d.acl[i])
    BY <1>1, AcceptedForm
  <2>2. d.acl[i] \in RuleObjects({Malformed})
    BY <2>1, MemberOfSeq
  <2> QED
    BY <2>1, <2>2, RuleRoundTrip DEF RuleIsValid
<1>5. ASSUME NEW i \in DOMAIN e.rows
      PROVE  e.rows[i] \in RowObjects({}) /\ RowSchema(e.rows[i]) = {}
  <2>1. /\ i \in DOMAIN d.rows /\ e.rows[i] = ExportedRow(CompiledRow(d.rows[i]))
        /\ RowSchemaOK(d.rows[i]) /\ RowErrors(Normalize(d), Row(d.rows[i])) = {}
    BY <1>1, AcceptedForm
  <2> QED
    BY <2>1, RowRoundTrip DEF RowSchemaOK
<1>6. /\ e.roles \in [DOMAIN d.roles -> RoleObjects({})]
      /\ e.principals \in [DOMAIN d.principals -> PrincipalObjects({})]
  BY <1>1, <1>2, <1>3
<1>7. e.acl \in Seq(RuleObjects({})) /\ e.rows \in Seq(RowObjects({}))
  <2>1. d.acl \in Seq(RuleObjects({Malformed})) /\ d.rows \in Seq(RowObjects({Malformed}))
    BY AcceptedForm
  <2>2. DOMAIN e.acl = DOMAIN d.acl /\ DOMAIN e.rows = DOMAIN d.rows
    BY <1>1
  <2>3. e.acl = [i \in DOMAIN e.acl |-> e.acl[i]] /\ e.rows = [i \in DOMAIN e.rows |-> e.rows[i]]
    BY <1>1
  <2> QED
    BY <1>4, <1>5, <2>1, <2>2, <2>3, SeqByMembers
<1>8. /\ e.roles # Malformed /\ e.principals # Malformed /\ e.acl # Malformed /\ e.rows # Malformed
  BY <1>6, <1>7, AcceptedForm, NamesAssumption
<1>9. d.default \in Written
  BY AcceptedForm
<1>10. e \in Objects(DOMAIN d.roles, DOMAIN d.principals)
  <2>1. \A version, default, roles, principals, acl, rows :
          /\ version = Version /\ default \in Written
          /\ roles \in [DOMAIN d.roles -> RoleObjects({})]
          /\ principals \in [DOMAIN d.principals -> PrincipalObjects({})]
          /\ acl \in Seq(RuleObjects({})) /\ rows \in Seq(RowObjects({}))
          => [large |-> FALSE, deep |-> FALSE, unknown |-> FALSE, version |-> version,
              default |-> default, roles |-> roles, principals |-> principals, acl |-> acl,
              rows |-> rows] \in Objects(DOMAIN d.roles, DOMAIN d.principals)
    BY DEF Objects
  <2> QED
    BY <1>1, <1>6, <1>7, <1>9, <2>1
<1>11. e # Malformed
  BY <1>10, AcceptedForm
<1>12. Version # Absent
  BY ShapeForm, SchemaForm DEF Accepted
<1>13. ShapeErrors(e) = {}
  BY <1>1, <1>11, <1>12 DEF ShapeErrors, If
<1>14. SchemaErrors(e) = {}
  <2>1. e.default # Malformed /\ e.version = Version
    BY <1>1, <1>9, NamesAssumption
  <2> QED
    BY <1>2, <1>3, <1>4, <1>5, <1>8, <2>1, SchemaHolds
<1> QED
  BY <1>13, <1>14 DEF e

\* Lowering again changes nothing: the export has the roles, the principals and the
\* compiled rules of the policy.
LEMMA ExportCompiles ==
    ASSUME NEW d \in Documents, Accepted(d)
    PROVE  LET e == Exported(Compiled(d)) IN
           /\ Compiled(e) = Compiled(d)
           /\ Normalize(e).roles = Normalize(d).roles
           /\ Normalize(e).principals = Normalize(d).principals
<1> DEFINE e == Exported(Compiled(d))
<1>1. /\ e.default = d.default
      /\ e.roles = [n \in DOMAIN d.roles |->
                      [unknown |-> FALSE, permissions |-> Lowered(d.roles[n].permissions),
                       bypass |-> d.roles[n].bypass]]
      /\ e.principals = [s \in DOMAIN d.principals |->
                           [unknown |-> FALSE, roles |-> Lowered(d.principals[s].roles),
                            attributes |-> d.principals[s].attributes]]
      /\ e.acl = [i \in DOMAIN d.acl |-> ExportedRule(CompiledRule(d.acl[i]))]
      /\ e.rows = [i \in DOMAIN d.rows |-> ExportedRow(CompiledRow(d.rows[i]))]
  BY ExportForm
<1> HIDE DEF e
<1>2. Normalize(e).roles = Normalize(d).roles
  <2>1. LowerCaseRoles(d) /\ LowerCaseRoles(e)
    BY <1>1, AcceptedForm DEF LowerCaseRoles
  <2>2. /\ DOMAIN e.roles = DOMAIN d.roles
        /\ \A n \in DOMAIN d.roles :
              /\ Lowered(e.roles[n].permissions) = Lowered(d.roles[n].permissions)
              /\ e.roles[n].bypass = d.roles[n].bypass
    BY <1>1, AcceptedForm, LoweredTwice
  <2>3. [n \in DOMAIN e.roles |-> [permissions |-> Lowered(e.roles[n].permissions),
                                   bypass |-> e.roles[n].bypass]]
          = [n \in DOMAIN d.roles |-> [permissions |-> Lowered(d.roles[n].permissions),
                                       bypass |-> d.roles[n].bypass]]
    BY ONLY <2>2
  <2> QED
    BY <2>1, <2>3, NormalRoles
<1>3. Normalize(e).principals = Normalize(d).principals
  <2>1. /\ DOMAIN e.principals = DOMAIN d.principals
        /\ \A s \in DOMAIN d.principals :
              /\ Lowered(e.principals[s].roles) = Lowered(d.principals[s].roles)
              /\ e.principals[s].attributes = d.principals[s].attributes
    BY <1>1, AcceptedForm, LoweredTwice
  <2>2. [s \in DOMAIN e.principals |-> [roles |-> Lowered(e.principals[s].roles),
                                        attributes |-> e.principals[s].attributes]]
          = [s \in DOMAIN d.principals |-> [roles |-> Lowered(d.principals[s].roles),
                                            attributes |-> d.principals[s].attributes]]
    BY ONLY <2>1
  <2> QED
    BY <2>2, NormalForm
<1>4. \A i \in DOMAIN d.acl : CompiledRule(e.acl[i]) = CompiledRule(d.acl[i])
  BY <1>1, AcceptedForm, MemberOfSeq, RuleRoundTrip
<1>5. ASSUME NEW i \in DOMAIN d.rows PROVE CompiledRow(e.rows[i]) = CompiledRow(d.rows[i])
  <2>1. RowSchemaOK(d.rows[i]) /\ RowErrors(Normalize(d), Row(d.rows[i])) = {}
    BY AcceptedForm
  <2>2. e.rows[i] = ExportedRow(CompiledRow(d.rows[i]))
    BY <1>1
  <2> QED
    BY <2>1, <2>2, RowRoundTrip
<1>6. DOMAIN e.acl = DOMAIN d.acl /\ DOMAIN e.rows = DOMAIN d.rows
  BY <1>1
<1>7. /\ [i \in DOMAIN e.acl |-> CompiledRule(e.acl[i])] = [i \in DOMAIN d.acl |-> CompiledRule(d.acl[i])]
      /\ [i \in DOMAIN e.rows |-> CompiledRow(e.rows[i])] = [i \in DOMAIN d.rows |-> CompiledRow(d.rows[i])]
  BY ONLY <1>4, <1>5, <1>6
<1>8. Compiled(e) = Compiled(d)
  BY <1>1, <1>2, <1>3, <1>7, CompiledForm
<1> QED
  BY <1>2, <1>3, <1>8 DEF e

LEMMA ExportIsAccepted ==
    ASSUME NEW d \in Documents, Accepted(d), ~HasNullValue(Compiled(d))
    PROVE  LET n == Normalize(Exported(Compiled(d))) IN SemanticErrors(n) \cup SecurityErrors(n) = {}
<1> DEFINE e == Exported(Compiled(d))
<1>2. /\ e.default = d.default
      /\ e.acl = [i \in DOMAIN d.acl |-> ExportedRule(CompiledRule(d.acl[i]))]
      /\ e.rows = [i \in DOMAIN d.rows |-> ExportedRow(CompiledRow(d.rows[i]))]
  <2>1. /\ e = [large |-> FALSE, deep |-> FALSE, unknown |-> FALSE, version |-> Version,
                default |-> d.default, roles |-> e.roles, principals |-> e.principals,
                acl |-> e.acl, rows |-> e.rows]
        /\ e.acl = [i \in DOMAIN d.acl |-> ExportedRule(CompiledRule(d.acl[i]))]
        /\ e.rows = [i \in DOMAIN d.rows |-> ExportedRow(CompiledRow(d.rows[i]))]
    BY ExportForm
  <2> HIDE DEF e
  <2> QED
    BY <2>1
<1> DEFINE n == Normalize(e)
           m == Normalize(d)
<1>1. n.roles = m.roles /\ n.principals = m.principals
  BY ExportCompiles
<1>3. /\ n.default = e.default /\ m.default = d.default
      /\ n.acl = [i \in DOMAIN e.acl |-> Rule(e.acl[i])]
      /\ n.rows = [i \in DOMAIN e.rows |-> Row(e.rows[i])]
  <2> HIDE DEF e
  <2>1. \A x : Normalize(x).default = x.default
    BY DEF Normalize
  <2> QED
    BY <2>1, NormalForm
<1>4. /\ m.default \in DOMAIN m.principals
      /\ \A s \in DOMAIN m.principals : m.principals[s].roles \subseteq DOMAIN m.roles
  BY SemanticForm DEF Accepted
<1>5. Compiled(d).rows = [i \in DOMAIN d.rows |-> CompiledRow(d.rows[i])]
  BY CompiledForm
<1>6. \A r : RuleErrors(n, r) = RuleErrors(m, r) /\ RowErrors(n, r) = RowErrors(m, r)
  BY <1>1, ErrorsDependOnRoles
<1> HIDE DEF e, n, m
<1>7. ASSUME NEW i \in DOMAIN n.acl PROVE RuleErrors(n, n.acl[i]) = {}
  <2>1. /\ i \in DOMAIN d.acl /\ n.acl[i] = Rule(ExportedRule(CompiledRule(d.acl[i])))
    BY <1>2, <1>3
  <2>2. d.acl[i] \in RuleObjects({Malformed}) /\ RuleIsValid(m, d.acl[i])
    BY <2>1, AcceptedForm, MemberOfSeq DEF m
  <2>3. RuleErrors(m, n.acl[i]) = {}
    BY <2>1, <2>2, RuleRoundTrip DEF RuleIsValid
  <2> QED
    BY <1>6, <2>3
<1>8. ASSUME NEW i \in DOMAIN n.rows
      PROVE  /\ i \in DOMAIN d.rows /\ RowErrors(n, n.rows[i]) = {}
             /\ n.rows[i].name = d.rows[i].name
  <2>1. /\ i \in DOMAIN d.rows /\ n.rows[i] = Row(ExportedRow(CompiledRow(d.rows[i])))
    BY <1>2, <1>3
  <2>2. RowSchemaOK(d.rows[i]) /\ RowErrors(m, Row(d.rows[i])) = {}
    BY <2>1, AcceptedForm DEF m
  <2>3. ~(CompiledRow(d.rows[i]).value = Null /\ CompiledRow(d.rows[i]).from = Absent)
    BY <1>5, <2>1 DEF HasNullValue
  <2>4. RowErrors(m, n.rows[i]) = {} /\ ExportedRow(CompiledRow(d.rows[i])).name = d.rows[i].name
    BY <2>1, <2>2, <2>3, RowRoundTrip
  <2>5. \A r : Row(r).name = r.name
    BY DEF Row
  <2> QED
    BY <1>6, <2>1, <2>4, <2>5
<1>9. \A i, j \in DOMAIN n.rows : i # j => n.rows[i].name # n.rows[j].name
  BY <1>8, AcceptedForm
<1>10. SemanticErrors(n) = {}
  BY <1>1, <1>2, <1>3, <1>4, <1>7, <1>8, <1>9, SemanticForm
<1>11. SecurityErrors(n) = SecurityErrors(m) /\ SecurityErrors(m) = {}
  BY <1>1 DEF SecurityErrors, Accepted, m
<1> QED
  BY <1>10, <1>11 DEF n, e

LEMMA ExportHasNoDuplicates ==
    ASSUME NEW d \in Documents, Accepted(d)
    PROVE  NameErrors(Exported(Compiled(d))) = {}
<1>1. DOMAIN Exported(Compiled(d)).roles = DOMAIN d.roles
  BY ExportForm
<1>2. Lowered(DOMAIN d.roles) = DOMAIN d.roles
  BY AcceptedForm DEF LowerCaseRoles, Lowered
<1> QED
  BY <1>1, <1>2 DEF NameErrors, If

-----------------------------------------------------------------------------
(* Documents on their way, and the policy in force *)

\* What the stages before the one that comes next have let through.
StagesPassed ==
    /\ step \in {"schema", "names", "meaning", "accepted"} => ShapeErrors(document) = {}
    /\ step \in {"names", "meaning", "accepted"} => SchemaErrors(document) = {}
    /\ step = "accepted" =>
          SemanticErrors(Normalize(document)) \cup SecurityErrors(Normalize(document)) = {}

InForce(p) == \E d \in Documents : Accepted(d) /\ p = Compiled(d)

ExportInv ==
    /\ exported => active # NoPolicy
    /\ exported /\ step # "installed" => document = Exported(active)
    /\ exported /\ ~HasNullValue(active) => step # "refused"

DocumentInv ==
    /\ StagesPassed /\ ExportInv
    /\ ~exported => document \in Documents
    /\ active # NoPolicy => InForce(active)

LEMMA DocumentInitInv == DocumentInit => DocumentInv
BY DEF DocumentInit, DocumentInv, StagesPassed, ExportInv

LEMMA StageInv ==
    ASSUME DocumentInv, NEW found, NEW now \in {"shape", "schema", "names", "meaning"},
           NEW next \in {"schema", "names", "meaning", "accepted"}, Stage(now, found, next),
           exported /\ ~HasNullValue(active) => found = {}
    PROVE  /\ ExportInv' /\ (~exported => document \in Documents)'
           /\ (active # NoPolicy => InForce(active))'
           /\ document' = document
           /\ step' = IF found = {} THEN next ELSE "refused"
<1>1. /\ document' = document /\ active' = active /\ exported' = exported
      /\ step' = IF found = {} THEN next ELSE "refused"
      /\ step # "installed"
  BY DEF Stage
<1>2. HasNullValue(active)' <=> HasNullValue(active)
  BY <1>1
<1>3. Exported(active)' = Exported(active) /\ (InForce(active)' <=> InForce(active))
  BY <1>1
<1>4. ExportInv'
  BY <1>1, <1>2, <1>3 DEF DocumentInv, ExportInv
<1> QED
  BY <1>1, <1>3, <1>4 DEF DocumentInv

\* What is installed is the compilation of a document of Documents, exported or not.
LEMMA InstallInForce ==
    ASSUME DocumentInv, Install
    PROVE  InForce(active') /\ (exported => active' = active)
<1>1. step = "accepted" /\ active' = Compiled(document)
  BY DEF Install
<1>2. CASE exported
  <2>1. PICK d \in Documents : Accepted(d) /\ active = Compiled(d)
    BY <1>2 DEF DocumentInv, ExportInv, InForce
  <2>2. document = Exported(Compiled(d))
    BY <1>1, <1>2, <2>1 DEF DocumentInv, ExportInv
  <2>3. active' = active
    BY <1>1, <2>1, <2>2, ExportCompiles
  <2> QED
    BY <2>1, <2>3 DEF InForce
<1>3. CASE ~exported
  <2>1. document \in Documents /\ Accepted(document)
    BY <1>1, <1>3 DEF DocumentInv, StagesPassed, Accepted
  <2> QED
    BY <1>1, <1>3, <2>1 DEF InForce
<1> QED
  BY <1>2, <1>3

LEMMA DocumentNextInv == DocumentInv /\ [DocumentNext]_<<documentVars, loginVars>> => DocumentInv'
<1> SUFFICES ASSUME DocumentInv, [DocumentNext]_<<documentVars, loginVars>> PROVE DocumentInv'
  OBVIOUS
<1>1. CASE UNCHANGED documentVars
  BY <1>1 DEF DocumentInv, StagesPassed, ExportInv, documentVars
<1>2. ASSUME exported, step \in {"shape", "schema", "names", "meaning", "accepted"}
      PROVE  \E d \in Documents : Accepted(d) /\ active = Compiled(d) /\ document = Exported(Compiled(d))
  BY <1>2 DEF DocumentInv, ExportInv, InForce
<1>3. CASE CheckShape
  <2>1. exported /\ ~HasNullValue(active) => ShapeErrors(document) = {}
    BY <1>2, <1>3, ExportIsWellFormed DEF CheckShape
  <2>2. Stage("shape", ShapeErrors(document), "schema")
    BY <1>3 DEF CheckShape
  <2> QED
    BY <2>1, <2>2, StageInv DEF DocumentInv, StagesPassed
<1>4. CASE CheckSchema
  <2>1. exported /\ ~HasNullValue(active) => SchemaErrors(document) = {}
    BY <1>2, <1>4, ExportIsWellFormed DEF CheckSchema
  <2>2. Stage("schema", SchemaErrors(document), "names") /\ step = "schema"
    BY <1>4 DEF CheckSchema
  <2> QED
    BY <2>1, <2>2, StageInv DEF DocumentInv, StagesPassed
<1>5. CASE CheckNames
  <2>1. exported /\ ~HasNullValue(active) => NameErrors(document) = {}
    BY <1>2, <1>5, ExportHasNoDuplicates DEF CheckNames
  <2>2. Stage("names", NameErrors(document), "meaning") /\ step = "names"
    BY <1>5 DEF CheckNames
  <2> QED
    BY <2>1, <2>2, StageInv DEF DocumentInv, StagesPassed
<1>6. CASE CheckMeaning
  <2> DEFINE found == SemanticErrors(Normalize(document)) \cup SecurityErrors(Normalize(document))
  <2>1. exported /\ ~HasNullValue(active) => found = {}
    BY <1>2, <1>6, ExportIsAccepted DEF CheckMeaning
  <2>2. Stage("meaning", found, "accepted") /\ step = "meaning"
    BY <1>6 DEF CheckMeaning
  <2> QED
    BY <2>1, <2>2, StageInv DEF DocumentInv, StagesPassed
<1>7. CASE Install
  <2>1. InForce(active') /\ (exported => active' = active)
    BY <1>7, InstallInForce
  <2>2. /\ step = "accepted" /\ step' = "installed"
        /\ document' = document /\ exported' = exported
    BY <1>7 DEF Install
  <2> QED
    BY <2>1, <2>2 DEF DocumentInv, StagesPassed, ExportInv
<1>8. CASE Export
  BY <1>8 DEF Export, Submit, DocumentInv, StagesPassed, ExportInv
<1>9. CASE Replace
  BY <1>9 DEF Replace, Submit, DocumentInv, StagesPassed, ExportInv
<1>10. CASE VerifyStatic \/ VerifyJwt \/ ComeWithout \/ Pin \/ ResolveToken \/ ResolveLocal
  BY <1>1, <1>10 DEF VerifyStatic, VerifyJwt, ComeWithout, Verified, Pin, ResolveToken, ResolveLocal
<1> QED
  BY <1>1, <1>3, <1>4, <1>5, <1>6, <1>7, <1>8, <1>9, <1>10 DEF DocumentNext

THEOREM DocumentInvariant == DocumentSpec => []DocumentInv
<1> QED
  BY DocumentInitInv, DocumentNextInv, PTL DEF DocumentSpec

\* "The export of a policy in force, submitted again, passes every stage and compiles to
\* the same policy", for any documents.
THEOREM DocumentExportRoundTrips == DocumentSpec => []ExportRoundTrips
<1>1. ASSUME DocumentInv, exported, ~HasNullValue(active)
      PROVE  step # "refused" /\ (step = "accepted" => Compiled(document) = active)
  <2>1. step # "refused"
    BY <1>1 DEF DocumentInv, ExportInv
  <2>2. ASSUME step = "accepted" PROVE Compiled(document) = active
    <3>1. PICK d \in Documents : Accepted(d) /\ active = Compiled(d)
      BY <1>1 DEF DocumentInv, ExportInv, InForce
    <3>2. document = Exported(Compiled(d))
      BY <1>1, <2>2, <3>1 DEF DocumentInv, ExportInv
    <3> QED
      BY <3>1, <3>2, ExportCompiles
  <2> QED
    BY <2>1, <2>2
<1>2. DocumentInv => ExportRoundTrips
  BY <1>1 DEF ExportRoundTrips
<1> QED
  BY <1>2, DocumentInvariant, PTL

-----------------------------------------------------------------------------
(* The principal of a request *)

\* A policy in force knows the roles its principals have, and its default principal.
Consistent(p) ==
    /\ p.default \in DOMAIN p.principals
    /\ \A s \in DOMAIN p.principals : p.principals[s].roles \subseteq DOMAIN p.roles

LEMMA InForceIsConsistent ==
    ASSUME NEW p, InForce(p)
    PROVE  Consistent(p)
<1>1. PICK d \in Documents : Accepted(d) /\ p = Compiled(d)
  BY DEF InForce
<1>2. SemanticErrors(Normalize(d)) = {}
  BY <1>1 DEF Accepted
<1>3. /\ p.default = d.default /\ p.roles = Normalize(d).roles
      /\ p.principals = Normalize(d).principals
  BY <1>1, CompiledForm
<1>4. Normalize(d).default = d.default
  BY DEF Normalize
<1> QED
  BY <1>2, <1>3, <1>4, SemanticForm DEF Consistent

LoginInv ==
    /\ login # "none" => Consistent(active)
    /\ login \in {"pinned", "resolved"} => Consistent(pinned)
    /\ login = "refused" /\ stable => HasToken \/ settings.mode # "disabled"
    /\ login = "resolved" /\ ~who.claimed /\ stable => who.roles \subseteq DOMAIN pinned.roles
    /\ login = "resolved" /\ who.claimed =>
          /\ who.subject \notin DOMAIN pinned.principals
          /\ \A r \in who.roles \cap DOMAIN pinned.roles : ~Privileged(pinned.roles[r])

LEMMA LoginNextInv ==
    ASSUME DocumentInv, LoginInv, [DocumentNext]_<<documentVars, loginVars>>
    PROVE  LoginInv'
<1>1. CASE UNCHANGED <<documentVars, loginVars>>
  BY <1>1 DEF LoginInv, documentVars, loginVars, HasToken, Consistent, Privileged
<1>2. CASE UNCHANGED <<active, loginVars>>
  BY <1>2 DEF LoginInv, loginVars, HasToken, Consistent, Privileged
<1>3. CASE CheckShape \/ CheckSchema \/ CheckNames \/ CheckMeaning \/ Export \/ Replace
  BY <1>2, <1>3 DEF CheckShape, CheckSchema, CheckNames, CheckMeaning, Stage, Export, Replace, Submit
<1>4. CASE Install
  <2>1. Consistent(active')
    BY <1>4, InstallInForce, InForceIsConsistent
  <2>2. UNCHANGED loginVars
    BY <1>4 DEF Install
  <2>3. Consistent(active)'
    BY <2>1
  <2> QED
    BY <2>2, <2>3 DEF LoginInv, loginVars, HasToken, Consistent, Privileged
<1>5. CASE VerifyStatic \/ VerifyJwt \/ ComeWithout
  <2>1. active # NoPolicy /\ active' = active /\ Consistent(active)
    BY <1>5, InForceIsConsistent DEF VerifyStatic, VerifyJwt, ComeWithout, Verified, documentVars,
       DocumentInv
  <2>2. /\ settings' = settings /\ credential' = credential
        /\ login' = "verified" \/ (login' = "refused" /\ HasToken)
    BY <1>5 DEF VerifyStatic, VerifyJwt, ComeWithout, Verified, HasToken, Refuse
  <2>3. Consistent(active)'
    BY <2>1 DEF Consistent
  <2> QED
    BY <2>2, <2>3 DEF LoginInv, HasToken
<1>6. CASE Pin
  <2>1. login' = "pinned" /\ pinned' = active /\ active' = active /\ Consistent(active)
    BY <1>6 DEF Pin, LoginInv, documentVars
  <2>2. Consistent(active)' /\ Consistent(pinned)'
    BY <2>1 DEF Consistent
  <2> QED
    BY <2>1, <2>2 DEF LoginInv
<1>7. CASE ResolveToken
  <2>1. /\ login = "pinned" /\ HasToken /\ Consistent(active) /\ Consistent(pinned)
        /\ pinned' = pinned /\ active' = active /\ settings' = settings /\ credential' = credential
    BY <1>7 DEF ResolveToken, LoginInv, documentVars
  <2>2. Consistent(active)' /\ Consistent(pinned)' /\ HasToken'
    BY <2>1 DEF Consistent, HasToken
  <2>3. CASE login' = "refused"
    BY <2>2, <2>3 DEF LoginInv
  <2>4. CASE login' = "resolved" /\ who' = OfPolicy(credential.subject, pinned)
              /\ credential.subject \in DOMAIN pinned.principals
    <3>1. who'.claimed = FALSE /\ who'.roles \subseteq DOMAIN pinned.roles
      BY <2>1, <2>4 DEF OfPolicy, Consistent
    <3> QED
      BY <2>1, <2>2, <2>4, <3>1 DEF LoginInv
  <2> DEFINE roles == MapClaimRoles(credential.roles, pinned)
  <2>5. CASE /\ login' = "resolved" /\ credential.subject \notin DOMAIN pinned.principals
             /\ who' = [subject |-> credential.subject, roles |-> roles, claimed |-> TRUE]
    <3>1. \A r \in roles \cap DOMAIN pinned.roles : ~Privileged(pinned.roles[r])
      BY DEF MapClaimRoles
    <3>2. \A r \in who'.roles \cap DOMAIN pinned'.roles : ~Privileged(pinned'.roles[r])
      BY <2>1, <2>5, <3>1
    <3>3. \A r \in (who.roles)' \cap (DOMAIN pinned.roles)' : ~Privileged(pinned.roles[r])'
      BY <3>2 DEF Privileged
    <3>4. who'.claimed = TRUE /\ who'.subject = credential.subject
      BY <2>5
    <3> QED
      BY <2>1, <2>2, <2>5, <3>3, <3>4 DEF LoginInv
  <2> QED
    BY <1>7, <2>3, <2>4, <2>5 DEF ResolveToken, Resolved, Refuse
<1>8. CASE ResolveLocal
  <2>1. /\ login = "pinned" /\ ~HasToken /\ Consistent(active) /\ Consistent(pinned)
        /\ pinned' = pinned /\ active' = active /\ settings' = settings /\ credential' = credential
        /\ stable' = (pinned = active)
    BY <1>8 DEF ResolveLocal, LoginInv, documentVars
  <2>2. Consistent(active)' /\ Consistent(pinned)'
    BY <2>1 DEF Consistent
  <2>3. CASE login' = "refused" /\ (settings.mode # "disabled" \/ pinned.default \notin DOMAIN active.principals)
    <3>1. stable' => settings'.mode # "disabled"
      BY <2>1, <2>3 DEF Consistent
    <3> QED
      BY <2>2, <2>3, <3>1 DEF LoginInv
  <2>4. CASE login' = "resolved" /\ who' = OfPolicy(pinned.default, active)
    <3>1. who'.claimed = FALSE /\ (stable' => who'.roles \subseteq DOMAIN pinned.roles)
      BY <2>1, <2>4 DEF OfPolicy, Consistent
    <3> QED
      BY <2>1, <2>2, <2>4, <3>1 DEF LoginInv
  <2> QED
    BY <1>8, <2>3, <2>4 DEF ResolveLocal, Resolved, Refuse
<1> QED
  BY <1>1, <1>3, <1>4, <1>5, <1>6, <1>7, <1>8 DEF DocumentNext

\* Roles are the policy's or roles of the claims without privileges, and under one accepted
\* policy a local request finds its default principal.
THEOREM DocumentPrincipalIsVetted == DocumentSpec => []PrincipalIsVetted
<1>1. DocumentInit => LoginInv
  BY DEF DocumentInit, LoginInv
<1>2. LoginInv => PrincipalIsVetted
  BY DEF LoginInv, PrincipalIsVetted, Privileged
<1> QED
  BY <1>1, <1>2, LoginNextInv, DocumentInvariant, PTL DEF DocumentSpec
=============================================================================
