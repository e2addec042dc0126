--------------------------- MODULE MCSchemaCatalog ---------------------------
(* Finite instances of the two caches a server keeps of files: SchemaCatalog  *)
(* and DomainRegistry.  They share nothing but the process, and the initial   *)
(* state chooses which of them is looked at.                                  *)
EXTENDS SchemaCatalog, DomainRegistry, TLC

VARIABLE part

Parameter(kind, required, default, coerce) ==
    [kind |-> kind, required |-> required, default |-> default, coerce |-> coerce]

Itself(S) == [v \in S |-> v]

Date(accepted) == Parameter("value", TRUE, None, Itself(accepted))
Dates == "start_date" :> Date({1, 2}) @@ "end_date" :> Date({1, 2})

\* The text 3 of the number 2 is bound as the number.
Limit == "limit" :> Parameter("value", FALSE, 2, Itself({1, 2}) @@ 3 :> 2)

\* An optional text whose default is the empty string, and a number with this default.
Industry == "limit" :> Parameter("value", FALSE, Empty, Itself({1, Empty}))
Number == "limit" :> Parameter("value", FALSE, Empty, Itself({1, 2}))

Order(default) == "order" :> Parameter("identifier", FALSE, default, <<>>)
Directions == "order" :> (1 :> "asc" @@ 2 :> "desc")

Definition(slots, parameters, identifiers) ==
    [slots |-> slots, parameters |-> parameters, identifiers |-> identifiers]

\* Those that are valid, one with a slot that occurs twice and an identifier without a
\* default, two with an empty default, and one for each rule that may be broken.
MCDefinitions ==
    {Definition(<<"start_date", "end_date", "order", "limit">>,
                Dates @@ Order(1) @@ Limit, Directions),
     Definition(<<"start_date", "order", "end_date", "start_date">>,
                Dates @@ Order(None), Directions),
     Definition(<<"start_date", "limit">>, Dates @@ Industry, <<>>),
     Definition(<<"start_date", "limit">>, Dates @@ Number, <<>>),
     Definition(<<"start_date", "end_date">>, "start_date" :> Date({1}), <<>>),
     Definition(<<"limit">>, "limit" :> Parameter("other", FALSE, None, <<>>), <<>>),
     Definition(<<"limit">>, "limit" :> Parameter("enum", FALSE, None, <<>>), <<>>),
     Definition(<<"order">>, Order(Empty), Directions),
     Definition(<<"order">>, "order" :> Parameter("identifier", TRUE, 1, <<>>), Directions)}

MCArgumentSets ==
    {<<>>,
     "start_date" :> 1,
     "start_date" :> 1 @@ "end_date" :> 2,
     "start_date" :> 2 @@ "end_date" :> 1,
     "start_date" :> 1 @@ "end_date" :> 0,
     "start_date" :> 2 @@ "end_date" :> 2 @@ "order" :> 2 @@ "limit" :> 3,
     "start_date" :> 1 @@ "end_date" :> 2 @@ "order" :> 0,
     "start_date" :> 1 @@ "end_date" :> None @@ "order" :> 1,
     "start_date" :> 1 @@ "limit" :> Empty,
     "start_date" :> 1 @@ "end_date" :> 2 @@ "order" :> None @@ "limit" :> 1,
     "start_date" :> 1 @@ "end_date" :> 2 @@ "unknown" :> 1}

MCRowSets == {<<>>, <<1>>, <<1, 1, 1>>, <<2, 1>>, <<3>>}

MCInit ==
    /\ Init
    /\ DomainInit
    /\ \/ part = "catalog" /\ specs = OtherTools
       \/ part = "domain" /\ \E s \in Schemas : database = [k \in Tables |-> s]

MCNext ==
    \/ part = "catalog" /\ Next /\ UNCHANGED <<domain, part>>
    \/ part = "domain" /\ DomainNext /\ UNCHANGED <<vars, part>>

MCSpec == MCInit /\ [][MCNext]_<<vars, domain, part>>

\* Threads, tables and the answers of the database are only compared for equality.
Symmetry == Permutations(Threads) \cup Permutations(Tables) \cup Permutations(Schemas)
            \cup Permutations(Callers)
=============================================================================
