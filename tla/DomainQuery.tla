------------------------------ MODULE DomainQuery ------------------------------
(***************************************************************************)
(* mcp_server/domain/registry.py and binder.py: what a definition of a     *)
(* domain tool must satisfy to be loaded, and how render() binds the       *)
(* arguments of a call to its template.                                    *)
(*                                                                         *)
(* A value is a number, None is null and Empty the empty string.  What a   *)
(* kind, a range, a length or an allowlist accept, and what the value that *)
(* is bound becomes (the text of a number becomes the number), is the      *)
(* mapping coerce; the text of the SQL between two slots is left out.      *)
(* MCSchemaCatalog has definitions.                                        *)
(***************************************************************************)
EXTENDS Naturals, Sequences, FiniteSets

CONSTANTS Values, None, Empty,
          Fragments,      \* of SQL, strings
          Names,          \* of parameters and slots
          Start, Finish,  \* "start_date" and "end_date"
          MaxRows,        \* limits.max_rows
          MaxBytes        \* limits.max_result_bytes, 0 for no limit

ASSUME DomainAssumption ==
    /\ Values \subseteq Nat /\ None \notin Values /\ Empty \notin Values /\ None # Empty
    /\ Start \in Names /\ Finish \in Names
    /\ MaxRows \in Nat \ {0} /\ MaxBytes \in Nat

Absent == {None, Empty}     \* null and the empty string, as arguments, count as not given
Raws   == Values \cup {Empty}

ParameterKinds == {"value", "enum", "identifier", "other"}

\* A mapping with some of the keys S.
IsMapping(f, S, T) == DOMAIN f \subseteq S /\ \A key \in DOMAIN f : f[key] \in T

\* The definition of a tool: the slots of the SQL in their order, the parameters by name,
\* the identifiers by slot, each a mapping of values to fragments of SQL.
IsDefinition(d) ==
    /\ d.slots \in Seq(Names)
    /\ DOMAIN d.parameters \subseteq Names
    /\ \A p \in DOMAIN d.parameters :
          /\ d.parameters[p].kind \in ParameterKinds
          /\ d.parameters[p].required \in BOOLEAN
          /\ d.parameters[p].default \in Raws \cup {None}
          /\ IsMapping(d.parameters[p].coerce, Raws, Raws)
    /\ DOMAIN d.identifiers \subseteq Names
    /\ \A slot \in DOMAIN d.identifiers : IsMapping(d.identifiers[slot], Raws, Fragments)

Declared(d) == DOMAIN d.parameters
Identifiers(d) == DOMAIN d.identifiers
SlotsOf(d) == {d.slots[i] : i \in DOMAIN d.slots}

KindsKnown(d) == \A p \in Declared(d) : d.parameters[p].kind # "other"

SlotsDefined(d) == SlotsOf(d) \subseteq Declared(d) \cup Identifiers(d)

IdentifiersUsable(d) ==
    \A slot \in Identifiers(d) :
       /\ DOMAIN d.identifiers[slot] # {}
       /\ slot \in Declared(d)
       /\ d.parameters[slot].default \in DOMAIN d.identifiers[slot] \cup {None}

ParametersUsable(d) ==
    \A p \in Declared(d) :
       /\ d.parameters[p].kind = "enum" => DOMAIN d.parameters[p].coerce # {}
       /\ d.parameters[p].kind = "identifier" => ~d.parameters[p].required

\* _build_template() and _validate_template() return the definition or raise.
Loadable(d) == KindsKnown(d) /\ SlotsDefined(d) /\ IdentifiersUsable(d) /\ ParametersUsable(d)

-----------------------------------------------------------------------------
(* render(d, args), args a mapping of some names to values *)

UnknownArguments(d, args) == DOMAIN args \ (Declared(d) \cup Identifiers(d))

Given(args, slot) == slot \in DOMAIN args /\ args[slot] \notin Absent

\* provided, or the default as it stands: an empty default stays the empty string.
Raw_DefaultFirst(d, args, slot) ==
    IF slot \notin DOMAIN args \/ d.parameters[slot].default # None
      THEN d.parameters[slot].default ELSE args[slot]
Raw(d, args, slot) == IF Given(args, slot) THEN args[slot] ELSE d.parameters[slot].default

\* _lookup_identifier() and _coerce(): a required parameter has a value, an optional one
\* may be null.
Accepted(d, args, slot) ==
    LET raw == Raw(d, args, slot)  p == d.parameters[slot] IN
    IF slot \in Identifiers(d) THEN raw \in DOMAIN d.identifiers[slot]
    ELSE /\ p.required => raw \notin Absent
         /\ raw = None \/ (p.kind # "identifier" /\ raw \in DOMAIN p.coerce)

\* What is effective: null passes, any other value is bound as it was coerced.
Effective(d, args, slot) ==
    LET raw == Raw(d, args, slot) IN
    IF slot \in Identifiers(d) \/ raw = None THEN raw ELSE d.parameters[slot].coerce[raw]

\* "start_date must not be after end_date", among the effective parameters.
InOrder(d, args) ==
    {Start, Finish} \subseteq SlotsOf(d) =>
       LET from == Effective(d, args, Start)  to == Effective(d, args, Finish) IN
       from \notin Absent /\ to \notin Absent => from <= to

Renders(d, args) ==
    /\ UnknownArguments(d, args) = {}
    /\ \A slot \in SlotsOf(d) : Accepted(d, args, slot)
    /\ InOrder(d, args)

\* The text: a slot of an identifier becomes its fragment, any other a placeholder.
Sql(d, args) ==
    [i \in DOMAIN d.slots |->
        LET slot == d.slots[i] IN
        IF slot \in Identifiers(d) THEN d.identifiers[slot][Raw(d, args, slot)] ELSE "?"]

IsValueSlot(d, i) == d.slots[i] \notin Identifiers(d)

\* The values to bind, one per placeholder in the order of the text.
BoundSlots(d) ==
    LET values == {i \in DOMAIN d.slots : IsValueSlot(d, i)} IN
    [k \in 1..Cardinality(values) |->
        d.slots[CHOOSE i \in values : Cardinality({j \in values : j <= i}) = k]]

Params(d, args) == [k \in DOMAIN BoundSlots(d) |-> Effective(d, args, BoundSlots(d)[k])]

-----------------------------------------------------------------------------
(* QueryExecutor.run() *)

\* _bind_params() refuses a text with fewer or more placeholders than values; without
\* values the text is executed as it is.
Binds(sql, params) == params # <<>> => Len(params) = Cardinality({i \in DOMAIN sql : sql[i] = "?"})

\* The bytes of the first n rows, a row being the number of its bytes.
Bytes(rows, n) ==
    LET sum[k \in 0..n] == IF k = 0 THEN 0 ELSE sum[k - 1] + rows[k] IN sum[n]

Fetched(rows) == SubSeq(rows, 1, IF Len(rows) < MaxRows THEN Len(rows) ELSE MaxRows)

KeptCount(rows) ==
    CHOOSE n \in 0..Len(rows) :
       /\ \A k \in 1..n : MaxBytes = 0 \/ Bytes(rows, k) <= MaxBytes
       /\ n = Len(rows) \/ (MaxBytes > 0 /\ Bytes(rows, n + 1) > MaxBytes)

\* The rows that are kept of those the database has, and why not all.
Result(rows) ==
    LET fetched == Fetched(rows)  n == KeptCount(fetched) IN
    [rows |-> SubSeq(fetched, 1, n),
     truncated |-> IF n < Len(fetched) THEN "bytes" ELSE IF n >= MaxRows THEN "rows" ELSE ""]
=============================================================================
