# sql-mcp-agent: a formal model

TLA+ models of the concurrent core of `sql-mcp-agent` (Python, under `src/`) and of its
authorization decisions, TLC runs that check them on small instances, and TLAPS proofs for every
value of the constants.

- [1. The system](#1-the-system)
- [2. Modules and how they correspond to the code](#2-modules-and-how-they-correspond-to-the-code)
- [3. Runs: what is checked and with which bounds](#3-runs-what-is-checked-and-with-which-bounds)
- [4. Where code and documents disagree](#4-where-code-and-documents-disagree)
- [5. Proofs](#5-proofs)
- [6. Fairness](#6-fairness)
- [7. What is not modelled, and the plan](#7-what-is-not-modelled-and-the-plan)

To repeat a run: `tlc -workers 2 -config MCConnectionPool.cfg MCConnectionPool.tla` (each row of
section 3 names its module and configuration); to repeat the proofs: `tlapm ConnectionPoolProofs.tla`.

## 1. The system

An agent process (`src/agent`) lets a language model call the tools of an MCP server
(`src/mcp_server`), which answers questions about a MySQL database: it validates the SQL, decides
what the caller may read, rewrites the query accordingly and runs it on a pooled connection.

Where concurrency comes from. The server runs one event loop (the ASGI middleware, `lifespan()`) and
many threads: the tools are synchronous functions, which the pinned SDK (`mcp==2.2.0`) runs in worker
threads; `health.py:28,36,38` sends the readiness probe's `get_context()` and `pool.probe()` to
threads; the audit writer (`audit.py:107`), the alert engine (`alerts.py:84`) and the telemetry
exporter (`telemetry/__init__.py:464`) are threads of their own. `policy_admin.py` is a command-line
process on the same policy store. The agent is a single coroutine whose environment (model, server,
clock) interleaves with it at every `await`.

| Component | State | Operations | Interacts with | Hard behaviour | Correct when |
|---|---|---|---|---|---|
| Connection pool `database/pool.py` | `_created`, `_in_use`, `_closed`, LIFO queue, per-connection usage | `acquire`, `release`, `_discard`, `close` | executor, catalog, policy store, audit writer | queue operations and `close()` of sockets outside the lock; failures of factory and ping; close in the middle of calls | no connection in two hands; both counters exact on all paths; bounded; nobody waits for ever |
| Policy store and manager `authorization/manager.py` | tables `policy_active/versions/audit`; `_cached`, `_cached_policy`, `_last_check`, RLock | `get`, `get_context`, `reload`, `publish` | every authorized call, `policy_admin`, probe, audit | publication races between threads and processes; cache refreshed and read outside the lock; failures after a commit | no lost update; cache coherent; a reload is not older than its call; every cache catches up |
| Agent `agent/agent.py`, `reliability.py` | message list, budgets, retry counters, deadline | `run`, `_drive`, `_call_llm`, `_run_tool`, `_invoke_tool` | model, MCP server | deadline against retries and back-offs; repair rounds; multi-call responses; exceptions on closing | every tool call gets its reply; nothing is sent twice that must not be; budgets hold; the status is true; every run ends |
| Audit writer `authorization/audit.py` | bounded queue, writer thread, `_stop`, `_closed`, counters, table | `log_event`, `enqueue`, `persist_sync`, `flush`, `stop` | query service, lifespan | full queue, failed insert with lost answer, shutdown while events arrive | every event is stored or counted; required events are stored before the answer |
| Server lifecycle `server.py`, `observability/lifecycle.py`, `middleware.py` | state, in-flight counter | `lifespan`, `begin_request`, `end_request`, `wait_for_drain` | audit writer, pools, exporter | requests that begin while draining, timeouts on every wait | counter exact; a clean shutdown loses nothing; the server stops |
| Query service `services/query_service.py` | one semaphore per service, counters | `run`, `_run` | validator, authorization, executor, audit, metrics | exceptions between counting and answering; refusals at the limit | permits exact; requests = answers + errors + exceptions |
| Alert engine `observability/alerts.py` | previous snapshot, state of each rule and since when it is pending | `evaluate`, `_compute_signals`, `_eval_rule` | metrics | windows cut through running queries; the `for` window is seen only through samples | an alert fires after its window, and then; rates are rates |
| Schema catalog `catalog/service.py` | list and table caches with TTL, semantics, mtimes | `get_table`, `list_tables`, `reload_semantics`, `invalidate` | authorization, tools, connection pool | database load outside the lock, reload in between | a cached schema uses current semantics; bounded cache |
| Domain queries `domain/registry.py`, `binder.py`, `service.py`, `database/executor.py` | specs, version, mtime, check time | `get`, `_maybe_reload`, `_load`, `render`, `run` | domain tools, query service | the file is read, installed and dated at different times, outside the lock; a failed load after the check time was set; nulls, defaults and two caps | the served definition catches up with the file; an answer is what the definition declares |
| Authorization `authorization/service.py`, `lineage.py` | none (pure over a pinned policy) | `authorize_table/column/sql`, row policies, star expansion | policy manager, catalog, parser | precedence of rules, lineage through CTEs and derived tables, one identifier as table, alias and CTE | deny dominates, column needs table, an approved query reads only what is allowed |
| Policy documents `authorization/validation.py`, `policy.py` | none | `validate_policy_document`, `compile_policy`, `permission_policy_to_dict` | manager, seed of a store, rollback | five stages that normalize on the way; export and compile must be inverse | an exported policy is accepted as the same policy; a rule applies to whom it names |
| SQL validation `security/*`, `query_service._run` | none | `validate`, `_ensure_limit`, `_result_column_guard` | query service, authorization | a query is rewritten after it was validated | what is executed satisfies the static policy |
| Authentication `auth/*` | request context (contextvar) | `verify_token`, `principal_for_access_token`, `current_request_context` | manager | policies are published between the reads of one request; roles of claims | no role from claims that bypasses filters or administers policies |
| Telemetry `telemetry/__init__.py`, `observability/tracing.py` | span buffer, export queue, exporter thread | `start`, `end`, `_record`, `_drain_export_queue`, `_post_otlp`, `flush_exporter` | middleware, query service, lifespan | full queue, two drainers of one queue, a daemon thread at exit | no span reaches the collector twice, none vanishes uncounted |
| Health, Prometheus `observability/health.py`, `prom_exporter.py` | none | probes, text rendering | pool, manager | | |
| Tools `tools/*` | none | argument checks, calls to the services | services | | |
| Scripts `scripts/*` | none | demos, benchmarks | | | |

## 2. Modules and how they correspond to the code

All modules use the source's names where TLA+ allows it. `pc`, `main`, `worker` say which statement
of the code comes next; one action is one critical section, one operation on a queue, one database
call or one await. Comments in the modules name the code behind each action.

**ConnectionPool** (`database/pool.py`). `created`, `inUse`, `closed`, `avail` are `_created`,
`_in_use`, `_closed` and the LIFO queue; `usage` is the counter the pool pins on a connection;
`open` is the driver's view. `acquire()` is `BeginAcquire`, `AcquireLocked` (the critical section at
the head of the loop), `CreateOk/CreateFail`, `CheckDeadline`, `GetConn/GetEmpty`,
`PingOk/PingFail`; `release()` is `ReleaseLocked` and `Put`; `_discard()` is `DiscardLocked` and
`CloseConn`; `close()` is `CloseLocked`, `DrainOne`, `DrainDone`. Time is the flag `expired[t]`.
**ConnectionLease** is what the pool promises its callers: a connection is absent, in the pool, or
owned by one thread, and at most `MaxSize` exist. `LeaseSpec` instantiates it under the refinement
mapping `owner`; the pool implements it.

**PolicyManager** (`authorization/manager.py`). The store is three variables and the lock of the row of
the active pointer. A transaction is `Select` (`SELECT ... FOR UPDATE`: waits for the row, compares the
expected version, and holds the row from then on) or `SelectConflict`, and `Write` (the statements up to
the commit, which releases the row); `TransactionFails` is a rollback. A version is the hash of its
document, so a document stands for its version. Every process has a manager with `cached`, `policy`,
`fresh`, `lock`; `Home` and `Calls` say in which process a thread runs and what it calls. `get()` is
`Enter` to `SetRecord`; `get_context()` adds `ReadPolicy` and `ReadVersion`, `reload()` adds
`ReadVersion`, which the code performs after it has released the lock; `publish()` is the transaction,
`ReadBack` (outside the manager's lock) and `Install`, `Compile` (under it). Store errors and failed
mandatory audit writes are `Failing`. `during` and `raced` are history: the versions that were active
during a reload, and the records that publications of its process installed meanwhile.

**Agent** (`agent/agent.py`, `agent/reliability.py`). One `run()`. The environment decides what every
await ends with; `Tick` lets the deadline pass between any two steps. `_gather_context()` is its two awaits,
`ListTools` and `ReadSchema`. Whatever ends a run, the cancellation by `asyncio.timeout` included, leaves
the session first (`CloseSession`), and an exception of the exit takes the place of the outcome. Messages are reduced to
`unanswered`, the number of tool calls of the last response that have no `tool` message yet; answers
of the server to the classes `classify_error()` tells apart.

**AuditWriter** (`authorization/audit.py`) and **ServerLifespan** (`server.py` `lifespan()`,
`lifecycle.py`, `middleware.py`) compose: the second EXTENDS the first and interleaves requests, the
writer thread and the shutdown sequence. `required` is `AUDIT_REQUIRED`, either value from the first
state on. From `audit_flush` on the shutdown runs synchronously on the event loop, so no request
begins or ends there (`LoopServes`), while their tool threads go on. **AuditTrail** is what the writer
promises: an event goes from open, or pending, to stored or gone, or its caller is refused, each with
its count, until the trail is closed; `TrailSpec` instantiates it under the mapping `Fates`.

**QueryService** (`services/query_service.py`) and **AlertEngine** (`observability/alerts.py`)
compose: queries in several threads and two services, the alert thread sampling the counters and
moving a rule on the error rate (`_eval_rule()`: `Reopened`, `WindowOver`, `Calmed`). The rules do not
depend on each other, so one stands for all. `evaluated`, `calm` and `breached` are history: when the
rule was looked at last, when it was last not breached, when the breach after that was first seen.

**Telemetry** (`telemetry/__init__.py`, `observability/tracing.py`). A span is a request and what it is
for; `opened` is the stack of a request's open spans. `End` is the first half of `_record()` (the
buffer), `Put` the second (`put_nowait()`); `Drain` is one `get_nowait()` of the exporter thread or of
`flush_exporter()`, which run side by side; `Post` sends the spans of one trace, and the collector has
them or not, whatever the answer. `Exit` ends the process after a flush, with what the daemon thread
still has in its hand. **SpanDelivery** is what the exporter promises: a span goes from local to
pending and from there to delivered or lost, once. `DeliverySpec` instantiates it under the mapping
`Fates`. `ChildFlag` is always "01", as `tracing.py:49` passes no flag to a child: a child of a trace
that is not sampled is sampled all the same (`telemetry/__init__.py:442` would have inherited it).

**SchemaCatalog** (`catalog/service.py`). One catalog shared by all threads. `get_table()` is `Call`,
`MaybeReload` (one critical section), `ReloadRead` and `ReloadInstall` (`reload_semantics()`, under the
lock: the file is read, then its mtime), `ReadClock`, `Lookup` (under the lock), `Load`/`LoadFails`,
`MergeColumns`, `MergeMeta` (outside it: the semantics are read twice) and `Store` with the trim. An
entry is `[schema, columns, meta, expire]`: which answer of the database and which version of the
semantics it was made of. A version of the file stands for its text and its mtime; `Missing` is the
deleted file. `changed`, `reloaded` and `torn` are history variables: when a table and the semantics
changed last, and whether the file was written during the last reload. The assignment of
`_semantic` and the two after it are one step: a reader outside the lock that falls between them
sees what it would see after them, and everything else waits for the lock.

**Authorization** (`authorization/service.py`, `lineage.py`, with `security/parser.py` for what a
query refers to). `authorize_sql()` is a sequence of checks in the order of the code: `CheckPermission`,
`CheckTables`, `CheckColumns`, `CheckLineage`, `ExpandStars`, and `ApplyRowPolicies`, the loop over the
table nodes with one step per node (`SkipNode`, `FilterNode`). `LookupFails` is the exception of a
catalog whose database is down. The decisions (`authorize_table`, `authorize_column`, ...) and the
lineage (`Resolve`, `Lineage`, `Scopes`) are operators. A query is a record of at most two SELECTs, each
a map from aliases to the names they stand for, a set of projections and a set of references in
conditions. One identifier may be a table's name, an alias and the name of the CTE or derived table at
once, and the code's shortcuts by name are modelled as they are: `extract_tables` leaves out every
reference with a CTE's name, `AliasMaps` is one map for the whole query (which table node stays in it is
left open: the order is that of the walk over the tree), `CheckColumns` leaves out what resolves to a
derived name, `IsTheCte` skips nodes by name. `Occurrences` and `Read` say, apart from that code, which
tables and columns a database reads for such a query, by the scopes of SQL, and `MayRead` and `MaySee`
what the documents promise about the rules; the properties relate the two.

**QueryGuard** (`services/query_service.py`, `security/validator.py`, `security/policy.py`) EXTENDS
Authorization with what `_run()` does before and after it: `Validate`, `Authorize` (the steps of
Authorization), `Recheck` (the rewritten query is validated again), `AddLimit` (`_ensure_limit()`),
`Execute` with the guard on the names of the result's columns. A guard is the static policy of
`security.yaml`; `Checks` are those of `SqlValidator` in their order, the first that fails gives the
code, and tables and columns are those the parser finds (`extract_tables`, `AliasMaps`). The text of a
query is its set of words.

**PolicyDocument** (`authorization/validation.py`, `permission_policy_to_dict()`) is the pure part of a
policy's life: the errors each stage reports, `Normalize`, `Build`, `Exported`. A value of a wrong
type is `Malformed`, a field that is not given `Absent`, `null` is `Null`, and `Lower` is the table of
the names in lower case. **Authentication** EXTENDS it with the life itself, one action per stage of
`validate_policy_document()`, `Install`, `Export`, `Replace`, and with a request: `VerifyStatic` /
`VerifyJwt` / `ComeWithout`, `Pin` (`get_context()`), `ResolveToken` or `ResolveLocal`, between any two
of which another policy may come into force.

**DomainQuery** (`domain/registry.py`, `binder.py`, `database/executor.py`) is the pure part of the
domain tools: which definitions may be loaded, what `render()` accepts and binds, what the executor
keeps of the rows within its two caps. A parameter's `coerce` maps the values it accepts to what
`_coerce()` makes of them; `Empty` is the empty string, which counts as not given among the arguments
(`Given`) and as a value in a default. **DomainRegistry** (`registry.py`, `domain/service.py`) EXTENDS
it with the calls: `CheckMtime` (under the lock, the check time is set before the load),
`LoadDefinitions` (outside it), `Install` (under it, with the mtime of that moment), `GetAndQuery`.
`written` and `overtaken` are history: when the file changed last, and whether it did during the last
load.

`MC*.tla` hold instances: definitions of functions on model values, and symmetry. Three of them are
sums: components that share only the process (spans and queries, the two caches of files, a query and
a policy document) are explored in one run, whose initial state chooses the part that moves.

## 3. Runs: what is checked and with which bounds

| Run | Module / cfg | Checks | Bounds and why they suffice |
|---|---|---|---|
| `pool` | MCConnectionPool / MCConnectionPool.cfg | `TypeOK`, `ExclusiveLending`, `Accounting`, `SocketsAccounted`, `RecycledInTime`, `AcquireReturns`, `LeaseSpec` | 3 threads on 2 connections (one always waits), 4 identities (two being closed while two exist), recycling after 2 uses, close() at any moment |
| `policy` | MCPolicyManager / MCPolicyManager.cfg | `CacheCoherent`, `ReloadIsCurrent`, `NoLostUpdate`, `StaleCacheHeals`, `CallsReturn` | a server with a probe and an administrator, and a CLI process; 2 documents, 2 publications, 1 failure at any place; two transactions and a reload overlap in every way; the store starts empty, so seeding races too |
| `policy_publish_race` | MCPolicyManager / PolicyPublishRace.cfg | `PublishedIsServed` is violated | 2 threads of one server, 3 publications, no failure |
| `agent` | MCAgent / MCAgent.cfg | `RepliesComplete`, `SubmittedOnce`, `BudgetsHold`, `StatusTruthful`, `QuietAfterDeadline`, `Terminates` | every limit is reached and passed by one: 2 rounds, 3 tool calls, 1 repair, 2 responses, 1 retry each, up to 2 calls per response; a retry-safe, an unsafe and a blocked tool |
| `lifespan` | MCServerLifespan / MCServerLifespan.cfg | `NoSilentLoss`, `CleanShutdown`, `RequiredIsStored`, `TrailSpec`, `ShutdownEnds`, `RequestsEnd` | 3 requests and the barrier on a queue of 2: it fills up with events, and with the barrier |
| `audit_tail` | MCServerLifespan / AuditTail.cfg | `TailIsStored` is violated | 2 requests |
| `observability` | MCObservability / MCObservability.cfg | `PermitsExact`, `RequestsAccounted`, `FiresAfterWindow`, `OvershootBounded`, `DeliverySpec` | queries: 2 threads, 2 services of 1 permit (refused at the limit), 3 requests; a rule with a window of 2 ticks on a clock of 4, so that it fires, resolves and starts again. Spans: 2 requests of up to 3 spans, a queue of 2 and a buffer of 1, so that both overflow, with and without an endpoint |
| `error_rate` | MCObservability / ErrorRate.cfg | `ErrorRateIsAFraction` is violated | 2 threads |
| `catalog` | MCSchemaCatalog / MCSchemaCatalog.cfg | `TypeOK`, `StaleOnlyWithinTtl`, `SemanticsFollowFile`, `RegistryFollowsFile`, `AnswersAsDeclared` | catalog: 2 threads on 2 tables with a cache for one (a load is overtaken by a load, a reload or a trim), TTL 1 on a clock of 3 instants, 3 versions of the file (deleting it included), 1 change of the database. Domain queries: 2 callers, 3 versions of the file, interval 1 on a clock of 4 instants; 9 definitions, one for each rule they may break, coercions that change a value and empty defaults, 11 sets of arguments (nulls, empty texts, defaults, unknown names, dates in the wrong order), rows at and over both caps |
| `authorization` | MCAuthorization / MCAuthorization.cfg | `ReadsOnlyAuthorized`, `RowsAreFiltered`, `OpenQueryPasses`, `ExecutedIsValidated`, `ExportRoundTrips`, `PrincipalIsVetted` | every subset of 8 rules (allow and deny, for the user and for roles, patterns for one and for all tables, allow lists), 5 sets of row policies and the bypass, queries over 2 tables and a CTE or derived table, with aliases, tables used twice, aliases shared by two SELECTs and names that collide, with and without a catalog, under the open static policy; a few policies under 11 others, one for each check. Documents: 5 valid ones and one with each error, 2 submitted one after the other; 6 settings and 7 credentials |
| `cte_names` | MCAuthorization / CteNames.cfg | `TablesAreAuthorized` is violated | the same instance |
| `alias_names` | MCAuthorization / AliasNames.cfg | `AliasesAreResolved` is violated | the same instance |

Five more configurations end in a counterexample to a sentence of a document or a comment. They are kept
to be run by hand; what they show is in section 4.

| Module / cfg | Shows | Bounds |
|---|---|---|
| MCPolicyManager / PolicyReloadRace.cfg | `ReloadAnswersActive` is violated | the instance of `policy`, no failure |
| MCAgent / AgentRefusal.cfg | `RefusalIsPermissionDenied` is violated | one tool call |
| MCSchemaCatalog / RegistryOvertaken.cfg | `DefinitionsAreReloaded` is violated | the instance of `catalog` |
| MCSchemaCatalog / SemanticsTorn.cfg | `SemanticsAreReloaded` is violated | the instance of `catalog` |
| MCAuthorization / PolicyUsers.cfg | `NamedUserIsMatched` is violated | the instance of `authorization` |

Deadlock is checked in the runs of the pool, the policies and the catalogs; the agent, the lifespan,
the telemetry after its process has ended, a query and a document that is not replaced really stop.
The types of the policy manager, the agent, the registry, the alert engine and the exporter are
proved (section 5) and not checked again. What
the properties say is in the comment above each of them; in short:

- *pool*: the counters that limit the pool are exact in every interleaving of creation, failed ping,
  recycling, release and close; a waiter always returns or raises, whether or not a holder ever
  gives its connection back; the sockets exceed `max_size` only by connections whose `close()` is
  under way.
- *policy*: the compiled policy a manager serves is the one of the record it reports, after failures
  too; the record `reload()` returns was active during the call, or a publication of the same process
  installed it during the call; a publication with an expected version replaces exactly that version,
  which holds only because the SELECT locks the row; a polled cache ends up with the active version.
- *agent*: each tool call of a response gets its reply before the model is called again; nothing that
  must not be repeated is sent twice; nothing is sent after the deadline; the status is about something
  that happened.
- *lifespan*: until the writer is closed, an event of an answered request is stored, queued, in hand or
  counted as failed; a shutdown none of whose waits gave up leaves nothing queued, whatever requests
  began meanwhile; with `AUDIT_REQUIRED` success implies a stored row; the whole
  implements `AuditTrail`, where a loss is counted in the step it happens; shutdown and requests end.
- *observability*: no permit is lost or returned twice on any path; each request is accounted for once;
  an alert fires when, and only when, every sample of its window was a breach; the errors of a window
  exceed its requests by no more than the threads; the exporter implements
  `SpanDelivery`, with two drainers, a full queue, failed posts and the end of the process.
- *catalog*: an entry that can be served is made of the database's current schema and the current
  semantics, unless one of them changed within the last TTL; the semantics are those of the file
  whose mtime is remembered, except when the file is written between the two looks a reload takes
  (section 4, item 8).
  A call of a domain tool finds the definitions the file has had for an interval, unless a load is in
  progress or was overtaken (section 4, item 7); what the database is asked and what is answered is what the definition declares.
- *authorization*: an approved query reads only tables the principal may read, save the table a CTE
  takes its name from (section 4, item 9). When no table that is read has the name of the CTE or derived
  table and no alias stands for two tables (`NamesApart`), it reads only columns the principal may see,
  through stars, renamings, derived tables and conditions. Every use of a protected table, under any
  alias, is filtered by all policies for the principal, with the same exception; a query
  that nothing restricts is neither refused nor changed. What is executed satisfies the static policy
  after it was rewritten, under the same two conditions. An export of the policy in force is accepted again and compiles to the same
  policy (but for a row policy that compares with `null`, whose value `permission_policy_to_dict()`
  leaves out at `policy.py:138`: it is refused). No role of a token's claims bypasses row filters or
  administers policies.

## 4. Where code and documents disagree

1. `tools/policy_admin.py:118` promises that a published version is hot-loaded at once. Two
   publications in one process may install in the reverse order of their commits (`manager.py:368`);
   the process then serves the older one until the next poll (`StaleCacheHeals` shows that it ends).
   Run `policy_publish_race`.
2. `agent/reliability.py:34` gives PERMISSION_DENIED to refusals of the server; the codes the
   authorization service returns for tables, columns and rows are not in its list, and such a run ends
   as TOOL_ERROR.
   Shown by `AgentRefusal.cfg`.
3. `audit.py:11` promises that `flush()` keeps the tail of the queue on a graceful exit. Its waits are
   bounded and `_run()` stops at `_stop`, whatever is queued. Run `audit_tail`. `CleanShutdown` is
   what does hold: without a timeout nothing is left.
4. `query_service.py:72` says that its denominator keeps the error rate within [0, 1]. Requests are
   counted at the beginning and errors at the end of a query, and a window cuts between them: the rate
   reaches 2. Errors in a window in which no request began and nothing was executed give the rate 0.
   Run `error_rate`; what does hold is `RequestsAccounted` and, of the rate, `OvershootBounded`.
5. `src/configs/permissions.yaml:3` says that an explicit deny wins over an allow. `_norm_subjects()`
   (`validation.py:431`) puts the roles of a rule in lower case and leaves its users as they are
   written, `PolicySubjects.matches()` (`models.py:29`) looks the subject up in lower case: a rule that
   names the user `Alice`, a deny too, is accepted and never applies to her.
   Shown by `PolicyUsers.cfg`.
6. `tools/policy_admin.py:26` says of the reload tool that it reloads the active policy from the store.
   `reload()` (`manager.py:338`) returns `_cached` after the lock is released: when a publication of
   the same process, whose record was replaced elsewhere before, installs it in between, the answer
   names a version that was not active at any moment of the call.
   Shown by `PolicyReloadRace.cfg`; what does
   hold is `ReloadIsCurrent`.
7. `registry.py:119` says that the definition file is reloaded by mtime and TTL. `_load()` reads the text
   first and the mtime last (`registry.py:158`): a change in between leaves the older definitions under
   the newer mtime until the file is touched again.
   Shown by `RegistryOvertaken.cfg`; what does hold is
   `RegistryFollowsFile`.
8. `catalog/service.py:198` and `CHANGELOG.md:101` say the same of the semantics, and
   `reload_semantics()` (`service.py:193`) takes the two looks in the same order. Shown by
   `SemanticsTorn.cfg`; what does hold is `SemanticsFollowFile`.
9. `tests/test_sql_parser.py:135` says that a CTE's name is no real table and that the real table in its
   body must be extracted. `_tables_of()` (`parser.py:93`) leaves out every reference with the name of
   a CTE. In the body of a CTE of that name, which is not recursive, it is the real table: no check looks
   at it, and the row filters skip its node (`authorization/service.py:293`). Run `cte_names`.
10. `parser.py:112` says that a qualified column is resolved through the aliases of FROM and JOIN. There
   is one map for all SELECTs of a query, and of two tables with one alias the later in the walk stays:
   a column of the other is decided for the wrong table. The lineage resolves by SELECT, but looks at
   projections only. Run `alias_names`.

## 5. Proofs

TLAPS proves, for all values of the constants allowed by the modules' named assumptions
(`PoolAssumption`, `PolicyAssumption`, `AgentAssumption`, `AuditAssumption`, `CatalogAssumption`,
`DomainAssumption`, `RegistryAssumption`, `AuthorizationAssumption`, `GuardAssumption`,
`NamesAssumption`, `AuthenticationAssumption`, `DocumentsAssumption`, `TelemetryAssumption`,
`QueryAssumption`, `AlertAssumption`, each evaluated by TLC in the runs too). They say what the
constants are, never how the program behaves: sets are finite, bounds are numbers, markers such as
`NoScope` or `Null` differ from the values they stand beside, definitions and documents have the
form their reader delivers, and `Lower` is idempotent on the names that occur.


| Module | Theorems | Inductive invariant and why it is needed |
|---|---|---|
| ConnectionPoolProofs | `PoolTypeOK`, `PoolExclusiveLending`, `PoolAccounting`, `PoolSocketsAccounted`, `PoolRecycledInTime`, `PoolImplementsLease`, `PoolPutNeverBlocks`, `PoolNoGrowthAfterClose` | `PoolInvariant`: exclusive lending gives disjoint sets of idle and carried connections, so that the cardinalities in `Accounting` change by exactly one per step; accounting bounds `Len(avail)` by `created`, hence `PutNeverBlocks`; `created < MaxSize` is tested in the same critical section that increments it. `UsageInv`: an idle connection, and one that is lent and not yet recycled, was used less than `MaxUsage` times. `PoolImplementsLease` is a step simulation: `Owns(c, x)` states the mapping `owner` without its CHOOSE, each step moves one connection or none, and since the live connections are the counted ones, the thread that creates still finds room in the lease |
| PolicyManagerProofs | `PolicyTypeOK`, `PolicyCacheCoherent`, `PolicyReloadIsCurrent`, `PolicyNoLostUpdate` | `PolicyInvariant`: the lock is held exactly by the thread between its two writes of the cache, both writes take the same `rec[t]`; a thread that has compared the version its caller expected holds the row until its writes, so that nobody else writes (`RowHeld`). `Tracked` and `Settled` are about a reload: what it has read was active during the call, and once it has compared, the cache of its process is such a record or one a publication installed since |
| AgentProofs | `AgentTypeOK`, `AgentRepliesComplete`, `AgentSubmittedOnce`, `AgentBudgetsHold`, `AgentStatusTruthful`, `AgentQuietAfterDeadline` | `AgentInvariant`: at each program counter the number of unanswered calls is that of the calls still to do (plus the one in the air), the attempts bound what was sent, and the verdict recorded at "closing" already has its reason |
| SchemaCatalogProofs | `CatalogTypeOK`, `CatalogStaleOnlyWithinTtl`, `CatalogSemanticsFollowFile`; `RegistryInvariant`, `CatalogRegistryFollowsFile`, `CatalogAnswersAsDeclared`, `CatalogDomainTypeOK` | `CatalogInvariant`: whatever a thread has read is current or was changed after the thread took the time its entry will expire by (`RowFresh`), hence the same of every entry with the TTL added (`CacheFresh`); between the two looks of a reload what was read is the file, unless `torn`. `RegistryInv` is about DomainRegistry: no mtime is used twice, so that a load that was not overtaken carries the text of the mtime it installs; and once a check saw the file as it is, the file is loaded or somebody loads it (`Noticed`), which holds because a check that counts is followed by the load. `CatalogAnswersAsDeclared` is about the operators: a placeholder has the rank of its slot among the slots of values, and ranks are injective (`RankNumbers`), so that `BoundSlots` names that slot; the first row over the cap is a least number (`Least`), so that `KeptCount` exists, and the partial sums it compares exist and are numbers (`SumsExist`, `BytesIsNat`) |
| AuthorizationProofs | `AuthorizationReadsOnlyAuthorized`, `AuthorizationRowsAreFiltered`, `AuthorizationOpenQueryPasses`; `GuardRefinesAuthorization`, `GuardInvariant`, `GuardExecutedIsValidated` | `AuthorizationInvariant`: what each check has established for the stages after it, and of the loop over the table nodes that every node it has left behind is skipped or filtered (`LoopOK`). `AuthorizationRowsAreFiltered` maps what the database reads to nodes of the query: expansion keeps the sources (`SameNames`), and a table that is read is one of the nodes (`OccurrencesAreNodes`). For columns: when the names are apart, every choice of the alias map is the scoping of SQL (`ApartIsResolved`), a reference by name is one of the checked columns (`NamedIsSeen`), a star is expanded to checked columns (`ExpandedIsSeen`) or stands over tables without column rules (`StarIsSeen`); so a derived table offers only what may be seen, and so does a SELECT over it. No proof but that of `AuthorizationOpenQueryPasses` uses `CheckLineage`: with one level of nesting and names that are apart the other checks are enough. Every step of QueryGuard is one of Authorization or leaves it as it is, so the theorems hold inside `_run()`; `GuardInv`: from `Recheck` on the query was approved, and the rewritten one passed every check, the first that fails decides (`Verdict`), so passing means that none fails |
| PolicyDocumentProofs | `DocumentInvariant`, `DocumentExportRoundTrips`, `DocumentPrincipalIsVetted` | `DocumentInv`: what each stage of the validation has established for the next, and that the policy in force was built from a document that passed them all. An exported policy passes each stage because its names are in lower case already, on which `Normalize` is the identity, and `Build` undoes `Exported`. `LoginInv`: what a request under way holds is what its credential can have given, under the policy that is pinned, so a role of claims that the pinned policy defines is not a privileged one, whatever policy came into force meanwhile |
| ObservabilityProofs | `AlertInvariant`, `QueryPermitsExact`, `QueryRequestsAccounted`, `AlertFiresAfterWindow`, `AlertOvershootBounded`, `AlertTypesOK`; `ExporterInvariant`, `ExporterDelivers`, `ExporterTypeOK` | `QueryInv`: a running thread is in a service, so that the permit it gives back is of the service it took one from; each step changes the set of holders by at most one thread. `WindowInv`: an open window began no earlier than the last healthy sample, and during a breach no later than it was first seen; hence it is over exactly when the breach is old enough. `Overshoot`: the errors since the last sample and the queries still running are together at most the requests since then and the threads, which a query that begins or ends keeps. `ExporterInv`: a span that was opened is in one place only, the stack of its trace, the buffer, the queue or the hand of one drainer, so that what a drainer posts or a full queue drops is nowhere else; that is what each step of the abstract `SpanDelivery` asks of the fate of a span. `ExporterDelivers` maps the initial states to initial states and every step to a step of SpanDelivery or to a stutter |
| ServerLifespanProofs | `LifespanInvariant`, `LifespanCountersMatchTable`, `LifespanNoSilentLoss`, `LifespanCleanShutdown`, `LifespanRequiredIsStored`, `LifespanKeepsTrail` | `LifespanInv`: every event is in one place (queue, writer's hand, table, or in the hand of its request), so that one that is gone was counted as failed as long as the writer is open or no wait gave up; the number in flight is that of the requests that began and have not ended; and `Phases` says what each stage of the shutdown has reached if nothing timed out: no request in flight after the drain, an empty queue after the barrier came back. `LifespanKeepsTrail` is a step simulation: with `TrailInv` (what is queued or in the writer's hand was handed over, an outcome means the request is over) the fate of an event follows from where it is (`FateByWhere`), and a step either keeps every fate or moves one, by one action of AuditTrail |

The proofs have one lemma per conjunct of the invariant with one case per action, or one lemma per
action; the theorems of the properties follow from the invariant, and the action properties and the
refinement from the invariant and one step. The theorems about types, `PoolPutNeverBlocks`,
`PoolNoGrowthAfterClose` and `LifespanCountersMatchTable` (which `TrailSpec` contains) are proved and no longer checked by a run of their own.

Every invariant and action property that a passing run checks is proved. Only model-checked is
liveness (`AcquireReturns`, `StaleCacheHeals`, `CallsReturn`, `Terminates`, `ShutdownEnds`,
`RequestsEnd`), which is outside of what the prover handles. The library's induction rules take an
operator and cannot be used either; where a proof needs induction over the rows of an answer it is by
least counterexample, from the well-foundedness of `<` (`Least`). Of the promises of section 4 that
do not hold, what does hold in their place is proved: `LifespanCleanShutdown` (item 3),
`AlertOvershootBounded` (item 4), `PolicyReloadIsCurrent` (item 6), `CatalogRegistryFollowsFile` (item
7), `CatalogSemanticsFollowFile` (item 8), `AuthorizationReadsOnlyAuthorized` (items 9 and 10) and
`AuthorizationRowsAreFiltered` (item 9).

Two notes for who extends the proofs. The prover reads `UNION A \cup B` as `UNION (A \cup B)` where
TLC reads `(UNION A) \cup B`: the modules write the parentheses, so that what is proved is what is
checked. And `PolicyDocument` states the forms its documents may have (`Objects` and the sets it is
made of) for the sake of the proofs; its checks and conversions do not use them.

## 6. Fairness

- *ConnectionPool*: weak fairness of a thread inside `acquire()` (threads are scheduled; driver calls
  carry connect and read timeouts) and of the clock. None for holders: they may keep a connection for
  ever, and a waiter still returns.
- *PolicyManager*: weak fairness of running threads and of the reload interval; strong fairness of
  taking the RLock, because a waiter is granted a lock that is released again and again; weak fairness
  of the probe's calls, which the orchestrator repeats for ever.
- *Agent*: weak fairness of the clock and of the agent's own steps. None for the model and the server.
- *ServerLifespan*: weak fairness of the request threads, of the writer thread and of the main
  sequence, whose waits have timeouts, with the exception of the put of the barrier: it ends because
  the writer keeps emptying the queue. Nothing makes requests begin.
- The other specifications state no fairness, and no property of theirs needs it.

## 7. What is not modelled, and the plan

Left out of the modelled components: statistics that only `stats()` reads, logging, table creation
and the periodic maintenance of the audit store (`audit.py:72-92`, which moves old rows in one
transaction of its own), policy files and the in-memory store (the model has the MySQL store, which
is the one with concurrency); of the metrics the histograms and gauges, of the alert engine the
signals other than the error rate, which are computed from the same snapshot; of the telemetry the
JSON of a span and the HTTP headers; in the catalog the list of tables, which is cached in the same
way, `search()`, `invalidate()` and `refresh=True`, which nothing in the server uses. Messages, SQL
text and documents are model values or classes; the checks on the text of a statement (length,
comments, keywords) are one choice each.

The queries of the authorization model have at most one CTE or derived table; a CTE is not recursive;
conditions hold references and no subqueries; names do not differ in case and are not qualified by a
schema; the catalog, when there is one and its database answers, is up to date. The theorems hold for
queries of this form, whatever their size and whatever their names. Two of them say less where names
collide: the table a CTE takes its name from is excepted, and what they say about columns needs
`NamesApart`. That is not an assumption about the program but a limit of what it guarantees: items 9 and
10 of section 4 show that neither exception can be dropped.

The text of a domain query goes through `sqlglot` between `render()` and the executor; the model binds
the text as it was rendered. The three statements of a catalog load are one read of the database.

Next, in this order:

1. Deeper nesting of queries, which is where `CheckLineage` starts to matter.
2. PolicyManager with QueryService: one query reads the policy, the roles and the labels by three
   calls of `get_context()`; a property needs a promise first about which of two versions a query
   that runs across a publication should use.

Not planned: the SQL grammar and its rewriting in `sqlglot` (external), YAML parsing, token
cryptography, text rendering (Prometheus, prompts), scripts; they hold no state that interacts.
