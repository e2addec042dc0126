---------------------------- MODULE DomainRegistry ----------------------------
(***************************************************************************)
(* mcp_server/domain/registry.py and service.py: the registry of the       *)
(* domain tools, which reloads its definitions when the mtime of the file  *)
(* has changed, and the calls of a tool that use it.  The file is read and *)
(* its definitions are built outside the lock.                             *)
(*                                                                         *)
(* One tool stands for all.  list(), definition_version() and              *)
(* spec_snapshot() look up as get() does; QueryService is a choice of its  *)
(* answers.                                                                *)
(***************************************************************************)
EXTENDS DomainQuery

CONSTANTS Callers,
          Definitions,    \* of the tool, well formed or not
          Malformed,      \* a text that is not YAML, has no tools or a parameter without name
          OtherTools,     \* a text that defines other tools only
          ArgumentSets,   \* the arguments a call may have
          RowSets,         \* the rows the database may have for a query, by their bytes
          ReloadSeconds,  \* _ttl
          MaxTime,        \* bound: ticks of the clock
          MaxWrites       \* bound: versions of the file

Texts == Definitions \cup {Malformed, OtherTools}

ASSUME RegistryAssumption ==
    /\ \A d \in Definitions : IsDefinition(d)
    /\ \A args \in ArgumentSets : IsMapping(args, Names, Raws \cup {None})
    /\ RowSets \subseteq Seq(Nat)
    /\ ReloadSeconds \in Nat /\ MaxTime \in Nat /\ MaxWrites \in Nat \ {0}

NoMtime == 0

VARIABLES time,       \* time.monotonic()
          document,   \* the file: its mtime, or NoMtime when there is none, and its text
          writes,     \* number of versions so far
          written,    \* history: when the file changed last
          specs,      \* _specs: the text they were built from
          loadedMtime,  \* _mtime
          lastCheck,  \* _checked
          overtaken,  \* history: the file changed while the last load was in progress
          call,       \* what each caller is doing
          answer      \* history: what the call that ended in the last step answered

disk == <<document, writes, written>>
registry == <<specs, loadedMtime, overtaken>>
domain == <<time, disk, registry, lastCheck, call, answer>>

NoAnswer == [status |-> "none"]
Idle == [at |-> "idle", since |-> 0, text |-> Malformed, late |-> FALSE]

Good(text) == text \in Definitions => Loadable(text)
CanLoad(text) == text # Malformed /\ Good(text)

\* The module is imported and has loaded the file.  _checked is 0.0 then, and the clock has
\* run for longer than _ttl: the first call looks at the file again.
DomainInit ==
    /\ time = ReloadSeconds
    /\ \E text \in Texts : CanLoad(text) /\ document = [mtime |-> 1, text |-> text]
    /\ writes = 1 /\ written = 0
    /\ specs = document.text /\ loadedMtime = document.mtime
    /\ lastCheck = 0
    /\ overtaken = FALSE
    /\ call = [t \in Callers |-> Idle]
    /\ answer = NoAnswer

At(t, step) == call[t].at = step
Be(t, local) == call' = [call EXCEPT ![t] = local] /\ answer' = NoAnswer
Answer(t, a) == call' = [call EXCEPT ![t] = Idle] /\ answer' = a

-----------------------------------------------------------------------------
(* DomainQueryService.run() *)

Run(t) ==
    /\ At(t, "idle")
    /\ Be(t, [Idle EXCEPT !.at = "check"])
    /\ UNCHANGED <<time, disk, registry, lastCheck>>

AfterCheck(t, step) == Be(t, [call[t] EXCEPT !.at = step, !.since = time])

Due_OffByOne(t) == time > lastCheck + ReloadSeconds
Due(t) == time >= lastCheck + ReloadSeconds

\* _maybe_reload(), one critical section: the check counts before the load is tried.
CheckMtime(t) ==
    /\ At(t, "check")
    /\ \/ ~Due(t) /\ AfterCheck(t, "get") /\ UNCHANGED lastCheck
       \/ /\ Due(t)
          /\ lastCheck' = time
          /\ AfterCheck(t, IF document.mtime = loadedMtime THEN "get" ELSE "load")
    /\ UNCHANGED <<time, disk, registry>>

\* load_domain_queries() and the templates, without the lock: no file, a malformed one or
\* a definition that is not valid raises, and the call with it.  What a parameter without
\* a name raises is a KeyError, which run() takes for an unknown tool.
LoadDefinitions(t) ==
    /\ At(t, "load")
    /\ IF document.mtime # NoMtime /\ CanLoad(document.text)
         THEN Be(t, [call[t] EXCEPT !.at = "install", !.text = document.text])
         ELSE \/ Answer(t, [status |-> "raised"])
              \/ document.text = Malformed /\ document.mtime # NoMtime
                 /\ Answer(t, [status |-> "unknown"])
    /\ UNCHANGED <<time, disk, registry, lastCheck>>

\* The second half of _load(), under the lock: the mtime is the file's as it is now.
Install(t) ==
    /\ At(t, "install")
    /\ specs' = call[t].text
    /\ loadedMtime' = document.mtime
    /\ overtaken' = call[t].late
    /\ Be(t, [call[t] EXCEPT !.at = "get", !.text = Malformed, !.late = FALSE])
    /\ UNCHANGED <<time, disk, lastCheck>>

\* What the query answers for the text of a call: QueryService refuses or fails, or the
\* columns are not those of result_columns, or there are rows.
Answers(d, args) ==
    LET sql == Sql(d, args)  params == Params(d, args) IN
    {[status |-> "error"]} \cup
    (IF ~Binds(sql, params) THEN {}
     ELSE {[status |-> "mismatch"]} \cup
          {[status |-> "rows", definition |-> d, args |-> args, sql |-> sql, params |-> params,
            table |-> rows, result |-> Result(rows)] : rows \in RowSets})

\* get(), render(), the query and _wrap(), which use the definition that get() found; the
\* arguments of the call matter here only.
GetAndQuery(t) ==
    /\ At(t, "get")
    /\ \E args \in ArgumentSets :
          \/ specs = OtherTools /\ Answer(t, [status |-> "unknown"])
          \/ /\ specs # OtherTools /\ ~Renders(specs, args)
             /\ Answer(t, [status |-> "invalid"])
          \/ /\ specs # OtherTools /\ Renders(specs, args)
             /\ \E a \in Answers(specs, args) : Answer(t, a)
    /\ UNCHANGED <<time, disk, registry, lastCheck>>

-----------------------------------------------------------------------------
(* The clock and the editor of the file *)

Advance ==
    /\ time < MaxTime
    /\ time' = time + 1
    /\ answer' = NoAnswer
    /\ UNCHANGED <<disk, registry, lastCheck, call>>

Write ==
    /\ writes < MaxWrites
    /\ writes' = writes + 1
    /\ \/ \E text \in Texts : document' = [mtime |-> writes', text |-> text]
       \/ document' = [mtime |-> NoMtime, text |-> Malformed]
    /\ written' = time
    /\ call' = [t \in Callers |-> [call[t] EXCEPT !.late = call[t].at = "install"]]
    /\ answer' = NoAnswer
    /\ UNCHANGED <<time, registry, lastCheck>>

DomainNext ==
    \/ \E t \in Callers :
          \/ Run(t) \/ CheckMtime(t) \/ LoadDefinitions(t) \/ Install(t) \/ GetAndQuery(t)
    \/ Advance \/ Write

DomainSpec == DomainInit /\ [][DomainNext]_domain

-----------------------------------------------------------------------------
DomainTypeOK ==
    /\ time \in Nat /\ writes \in Nat /\ written \in Nat /\ lastCheck \in Nat
    /\ document \in [mtime : Nat, text : Texts]
    /\ specs \in Texts \ {Malformed}
    /\ loadedMtime \in Nat
    /\ overtaken \in BOOLEAN
    /\ call \in [Callers -> [at : {"idle", "check", "load", "install", "get"},
                             since : Nat, text : Texts, late : BOOLEAN]]
    /\ answer.status \in {"none", "unknown", "invalid", "error", "mismatch", "raised", "rows"}

Loading(t) == call[t].at \in {"load", "install"}

\* A call that found out about the file after it had been as it is for the TTL (and for some
\* time when the TTL is 0), while nobody is loading it.
Informed(t) ==
    /\ At(t, "get") /\ written < call[t].since /\ written + ReloadSeconds <= call[t].since
    /\ document.mtime # NoMtime /\ CanLoad(document.text)
    /\ \A u \in Callers : ~Loading(u)

\* "Reloads by mtime and TTL": a definition that cannot be loaded is never in use and never
\* taken for the file's; an informed call finds the definitions of the file, unless the
\* last load was overtaken by a change of the file, whose mtime then covers up for the
\* older definitions.
RegistryFollowsFile ==
    /\ CanLoad(specs)
    /\ loadedMtime = document.mtime /\ ~overtaken => specs = document.text
    /\ \A t \in Callers : Informed(t) /\ ~overtaken => specs = document.text

\* "Reloads its definition file by mtime and TTL": an informed call finds the definitions
\* of the file, also when the file changed between load_domain_queries() and the read of
\* its mtime in _load().
DefinitionsAreReloaded ==
    \A t \in Callers : Informed(t) => specs = document.text

ValueSlots(d) == {i \in DOMAIN d.slots : d.slots[i] \notin Identifiers(d)}

\* "Values are bound by the driver and never become text, identifiers come from the
\* allowlist only": in an answer every placeholder was bound to what the value the caller
\* gave for its slot is coerced to, or the default, and a required parameter has one; what
\* is not a placeholder is a fragment of the definition.  The rows are the first of those
\* the query has, within both caps, an answer that is not marked truncated has them all,
\* and one that is marked has reached the cap it names.
AnswersAsDeclared ==
    answer.status = "rows" =>
       LET d == answer.definition  args == answer.args
           kept == answer.result.rows  why == answer.result.truncated IN
       /\ \A i \in DOMAIN d.slots :
             IF i \in ValueSlots(d)
               THEN LET value == answer.params[Cardinality({j \in ValueSlots(d) : j <= i})]
                        p == d.parameters[d.slots[i]] IN
                    /\ answer.sql[i] = "?"
                    /\ Given(args, d.slots[i])
                         => /\ args[d.slots[i]] \in DOMAIN p.coerce
                            /\ value = p.coerce[args[d.slots[i]]]
                    /\ ~Given(args, d.slots[i])
                         => \/ value = None /\ p.default = None
                            \/ p.default \in DOMAIN p.coerce /\ value = p.coerce[p.default]
                    /\ p.required => value # None
               ELSE \E v \in DOMAIN d.identifiers[d.slots[i]] :
                       answer.sql[i] = d.identifiers[d.slots[i]][v]
       /\ \A i \in DOMAIN kept : kept[i] = answer.table[i]
       /\ Len(kept) <= MaxRows
       /\ MaxBytes > 0 => Bytes(kept, Len(kept)) <= MaxBytes
       /\ why = "" => kept = answer.table
       /\ why = "rows" => Len(kept) = MaxRows
       /\ why = "bytes" => MaxBytes > 0 /\ Bytes(answer.table, Len(kept) + 1) > MaxBytes
=============================================================================
