# Verification of mcp-sql-server

TLA+ models of the concurrent and failure-prone parts of the MCP server for SQL
Server (`src/src/`), the TLC configurations that check them, and TLAPS proofs of
their safety properties.

## The system

An MCP client calls *tools*. A tool call runs as a coroutine on the event loop
of a FastAPI/FastMCP process; next to it run the worker threads of
`asyncio.to_thread`, the threads in which FastAPI runs the synchronous
diagnostics routes, and other server processes that share a Redis.

| Component | State | Operations | Hard behaviour | What makes it correct |
|---|---|---|---|---|
| Connection manager (`db/connection_manager.py`) | per instance `available`, `in_use`, counters; one `RLock` with a condition variable | `connect` (acquire, release), reads with retry, `execute_proc`, health check, `close_all_pools` | races between lock sections, waiting, failing connections, shutdown under load | one borrower per connection, nothing leaked, no work of a failed job on what is offered, no lost wake-up, procedures at most once |
| Rate limiter (`middleware/rate_limiter.py`) | a sliding window per actor and a global one, in memory or in Redis | `allow` | clock read before the lock, timestamps out of order, keys that expire, lost answers | nobody exceeds the quota, nobody is denied without cause |
| Session manager (`security/session_manager.py`) | one time per actor and session | `touch`, `active_count`, `_cleanup` | clock read before the lock; slots that expire | limit of sessions kept, a session in use keeps its slot |
| Tool calls (`tools/sql_tools.py`) | local variables of each handler, `denied_requests` | about 20 handlers: authorise, check, query, report, audit | cancellation at every await, messages to the client that fail, threads left behind | audit, answer, charge and counter agree |
| Audit log (`middleware/audit_logger.py`) | a file | `log_event` | the write may fail | one line per call |
| Dashboard pages (`tools/dashboard_page_store.py`, `diagnostics/routes.py`) | pages with expiry and metadata | register, view, refresh | refresh = read, query without lock, store; old clocks | pages live as announced, are fresh, are not resurrected |
| Token verifier (`security/auth_provider.py`) | two cached documents with their times | `verify_token` | key rotation, responses out of order, failing fetches | retired keys die, new keys are found |
| Server (`server.py`), configuration (`config_loader.py`), tool registry and flags | the configuration, the shared HTTP client, the registered tools | start-up, shutdown | every step may raise, with resources open; several parts read the same settings independently | what is opened is released, no failure is swallowed, authentication and authorisation agree, tools follow the flags |
| Analysis tools (`sql_tools.py`, `model_graph.py`, `analysis_contracts.py`, `dashboard_payloads.py`) | the rows read so far, the failed queries | a dozen queries, thresholds, graphs of foreign keys and of blocked sessions | one query of several fails; severities from the first, any or many rows; cyclic graphs | no false all-clear, the worst row decides, agreement with reference definitions |
| Privilege mapper, usage summary, dashboard app (`sessions_dashboard_app.py`) | - | a decision, two totals, a handler | - | part of the tool calls |
| Write guard | the policy | decisions on SQL text and procedure names | - | - |
| `query_catalog` | - | SQL text | - | - |

A handler calls the session manager, the rate limiter and the write guard on the
event loop, then the connection manager; a dashboard handler fills the page
store, which the routes read and refill through the connection manager. The
verifier runs in front of every call when authentication is on. All of these
read shared state under locks of their own; no lock is held while another is
taken, except by the health check, which is re-entrant.

## Modules

| Module | Models | Composition |
|---|---|---|
| `ConnectionLease` | what `connect` promises: lend, use, return, drop | abstract specification |
| `ConnectionPool` | `ConnectionManager` for one instance | implements `ConnectionLease` (`LeaseSpec`) |
| `ConnectionPoolProofs` | theorems about `ConnectionPool` | extends it |
| `RateLimiter` | both limiters (`backend`) | verdict used in `RequestPipeline` |
| `SessionManager` | `touch`, `_cleanup`, `active_count` | verdict used in `RequestPipeline` |
| `RequestPipeline` | every handler of `sql_tools.py` and the data tool of the dashboard app, the privileges, the audit log and its summary | uses the verdicts of the others as choices |
| `DashboardStore` | page store, the tool that fills it, its two routes | |
| `TokenVerifier` | `verify_token` with its caches, the issuer (external) | |
| `AnalysisAlgorithms` | pure algorithms on rows, each with its reference | |
| `AnalysisReports` | a call of an analysis tool: queries, failures, grading, report | extends `AnalysisAlgorithms`; `RequestPipeline` has the checks and the audit of the same call |
| `ServerStartup` | the server process from `load_config` to the end of the lifespan | decides `AuthEnforced` of `RequestPipeline`; its shutdown is `CloseAllPools` of `ConnectionPool` |
| `RateLimiterProofs`, `SessionManagerProofs`, `DashboardStoreProofs`, `TokenVerifierProofs`, `ServerStartupProofs`, `RequestPipelineProofs`, `AnalysisReportsProofs` | theorems about these modules | extend them |
| `MC*` | constants and symmetry for TLC | extend their module |

Definitions whose comment begins "Mutant of" are plausible bugs: each replaces
the definition it names, and the property listed for it in `PROJECT.json` must
then fail. They are not part of any specification.

### ConnectionPool

One action per block under the lock and one per database call outside it, with
a program counter `pc[t]` per thread; `_acquire_connection` is
`AcquireIdle/New/Timeout/Wait`, `Wake`, `Probe`, `Drop`, `CloseDropped`,
`Connect*`, `Register`; the body of `with connect()` is `UseOk`, `UseFail` and
`UseInDoubt` (the commit succeeds, its answer is lost); `_release_connection`
is `ReleasePooled/Direct`, `Discard`, `Put`, `PutRefused`, `Close`;
`_run_read_operation` is `Retry`; `Finish` ends a job. `lock` is only needed
for the health check, which keeps the lock between actions; `Condition.wait`
gives it up. `Usable(c)` lets the probe of an open connection fail at any time,
because the server may drop it at any time. Lists are sets: which idle
connection is popped is left open. Connections have autocommit off, so any
statement opens a transaction. Of it the model keeps whether there is work in it
that a commit would make permanent: of a job that raised (`dirty`), or of a read
that returned (`left`), because the text of a read is its caller's and may change
data (`SELECT ... INTO`). `Settle` is a commit or a rollback; `_release_connection`
rolls back after an error only (`Rollback`). That a job that raised cannot harm
the next borrower is a property (`OfferedClean`, and the fitness in the lease);
that a read cannot is not one, and `pool_leftover` shows how it does. The locks
of an open transaction are left out.

### RateLimiter and SessionManager

`Call` reads the clock, a later action enters the lock (or runs the Lua script);
`Tick` lets at most `MaxDelay` pass in between. A bucket is the set of the
admissions it holds, numbered in order; `Kept` is `_prune`, which only looks at
the head, or `ZREMRANGEBYSCORE`. Properties are about the real times (`at`,
`used`), which the code does not know. The clocks of processes that share Redis
are taken to agree; a skew between them acts like additional delay.

### RequestPipeline

The handlers share one skeleton, so each is a record: its checks in order, the
checks followed by a message, its database calls and how their failure is
handled, the exceptions it counts, and whether it swallows them (`ping`).
The verdicts of the other components and of the database are choices. `Throw`
is what the `except` clauses do, `Except` the message inside them, `Finally`
the audit line; `Cancel` is enabled at every `await` of the handlers
(`AtAwait`). History variables (`passed`, `charged`, `committed`) record what
really happened. A pattern that every handler repeats is one operator here, and
the map names one of its places. `fetch_sessions_dashboard_data`, the data tool of
the interactive app, has no context, no `try` and no audit line
(`traced |-> FALSE`): an exception leaves it as it is.

### AnalysisReports and AnalysisAlgorithms

A tool reads its queries in the order of the code. The rows of a query are
chosen when it is read (`Read`), or it fails, inside a `try` of its own
(`FailCaught`) or not (`FailRaised`); `Skip` leaves out what the arguments or
earlier results make unnecessary. A row is the value that decides its grade, and
whether it is in the schema or table asked for (`here`). When everything is
read, `Finish` grades the rows (one operator per tool, with the constants of the
code; ratios are compared by cross-multiplication) and builds the report, which
fails if a finding has an unknown severity (`build_finding`). Evidence,
recommendations and `TOP n` are left out; a filter is applied to the rows that
were read, as in the code. `AnalysisAlgorithms` holds the naming of columns (a
name is a base and its numeric suffixes), the search for foreign-key cycles
along paths, the heads of blocking chains as the tool computes them and as the
app computes (`true_head_blockers`) and lists them (`listed_heads`, the first
`HeadLimit`, 25 in the code), and the depth at which the page shows a session;
`Reached` and `Circular` are the references, by closed sets instead of paths.

The loops of the code (`filter_rows`, `Missing`, the names of the columns) and
its recursive searches (`OnCycle`, `depth_for_session`) are recursive functions:
a loop is a function of the number of its turns, a search one of the pair of the
node and what it has seen. Where the code counts or picks rows of a list, the
model uses the set of their indices (`type_mismatches`, `high_scan`), because
equal rows are counted each.

### ServerStartup

One action per part of `build_fastapi_app` that can fail differently: before
the HTTP client exists (`FailLoading`), inside the `try` (`FailInTry`), after it
(`Mount`), and in the lifespan. The environment is read with the file, and a
value of it stands in for the whole value of the file (`Override`);
`registered` is kept beside the tools that really have a handler. `raised` is the
exception that ends the process, `cause` (history) what failed first: the failure
of a release takes the place of the exception on its way.

### DashboardStore

The html of a page is the time its queries began; every operation of the store
is split where the code reads the clock and where it takes the lock.

### TokenVerifier

Between two awaits nothing interleaves, so a step of `verify_token` goes from
one await to the next. `Respond` is the moment at which the issuer answers,
`JwksArrives` the moment at which the answer is used.

## Runs

| Run | Shows | Bounds |
|---|---|---|
| `pool_safety` | all invariants of the pool; it implements the lease; every job ends | 2 threads with a job each of any kind, 2 connections, pool_max 1, no symmetry |
| `pool_leftover` | violation, see below | 2 threads with the jobs the server gives them, 2 jobs each, 2 connections, pool_max 1 |
| `limiter_windows` | quota kept, denials justified, for both backends | 2 callers, 2 actors, limits 2 and 3, window 3, clock to 6, 4 admissions |
| `session_safety` | limit, slots, refusals | 2 callers, 3 keys, limit 2, clock to 6 |
| `pipeline_safety` | audit, answers, charges, counters, summary | a call of any handler with a record of its own, beside a procedure |
| `pipeline_commit` | violation | one call |
| `dashboard_safety` | promises, freshness, resurrection | 2 workers, 2 pages, TTL 2, clock to 6 |
| `verifier_rotation` | retired and new keys | 2 calls, 2 keys, cache TTL 2, latency 1, clock to 4 |
| `analysis` | severities, all-clears, cycles, names, blocking chains | 2 to 5 rows a call, at and beside each threshold; 3 tables; 3 waiting sessions and one that only blocks; 2 failing queries; indentation limited to 1 (16 in the code), listed heads to 1 (25) |
| `analysis_outage` | violation | the same |
| `startup` | release of resources, authentication, tool flags | up to 2 entries of instances; 4 maps of tool flags and 5 of instance flags, in the file and in the environment; every setting of authentication |
| `startup_leak` | violation | one entry, no flags |

Why the bounds are enough: two threads suffice for every race between two lock
sections, and a job each (with its retry) brings every connection back to the pool,
discards it and hands it to the other thread (the proofs cover any number of
threads, connections and jobs); the clocks run for at least two windows
(timeouts, TTLs), so that every entry can be made, be used, expire and be made
again; two calls are all that the shared state
of the pipeline (the audit log and a counter) can tell apart. Two rows show
whether the first, the last or the worst decides; three tables or sessions have
every kind of cycle beside, before and through a start, and five columns let a
generated name meet two that are taken. With one place in the list of heads, two
chains are enough to fill it and to leave a head out.

Disagreements between documents and code, each shown by a violation run:

- `pool_leftover`: a read that changed data returns, its connection is offered
  again with the transaction open, and the `commit` of the next borrower's
  procedure makes the change permanent, although only the tools for procedures may
  write (`docs/access-levels-and-controlled-write.md:35`) and TASK-010 wants
  returned connections reset "to safe state before reuse".
- `startup_leak`: a failure of `http_app`, `include_router` or `mount` comes after
  the `try` of `build_fastapi_app` and leaves the HTTP client open, against the
  comment "Ensure the async client is cleaned up if app construction fails".
- `pipeline_commit`: a committed procedure may be logged as denied.
- `analysis_outage`: `top_statements` fails when both of its sources are
  unavailable, because the finding that would say so has the severity "error",
  which `_normalize_severity` rejects.

The models also record differences that have no run of their own:

- The pool may exceed `pool_max`: threads that find it empty at the same time all
  create a connection, because `_acquire_connection` reserves no slot (line 145),
  although "concurrent acquisition beyond 10 is rejected or times out" (AC-P2-002).
  `OvershootBounded` says by how much.
- A connection that is being created while `close_all_pools` runs is registered
  afterwards and stays open, although "`close_all_pools()` closes all pooled
  connections" (AC-P2-004, TEST-003).
- `latency_report` writes no audit line, and neither does the app's data tool.
- A read is retried once (`_READ_RETRY_ATTEMPTS = 2`), not three times as CON-005
  of `plan/audit-database-context-switching-1.md` says.
- A session that is touched often enough never reaches its TTL: `Expired` takes
  start and last use from the same time, although `docs/mcp-tool-catalog.md:196`
  speaks of both.
- A call that is cancelled before it is approved keeps its first decision and is
  logged as "allow" (`Cancel`, `Line`).
- `analyze_db_data_model` says "All data model checks passed" although scans of
  its subtools failed, and `analyze_sec_config` gives the all-clear although it
  could not read the setting of xp_cmdshell: `NoFalseAllClear` leaves them out.
- `head_blockers` of `sessions_dashboard` are all blockers, not only the "root
  blocking session IDs" of `docs/run-mcp-server-with-docker.md:207`; the app
  computes the roots, and has none for a cycle.
- `state.registered_tools` has the named analysis tools, which have no handler
  under that name; `policy.instance_enable_flags` is read by nothing.
- An error of `aclose` hides the error of the construction, and one of
  `close_all_pools` the error with which the lifespan was left: `ShutdownReleases`
  says which exception may take the place of which.

### Fairness

`JobsEnd` assumes that a thread that can take a step takes one (`WF` of its
steps: the lock is handed on, database calls return, as drivers' own limits make
them) and that a deadline passes. It does not assume that a notification comes:
a sleeper may only be saved by its deadline. The code sets no limit on queries, so
that database calls return is an assumption about the database. Nothing is assumed
about shutdown.

## Proofs

`ConnectionPoolProofs` proves for every number of threads and connections, every
`pool_max`, pooling on or off, and every assignment of kinds of jobs
(`PoolAssumption`, which says no more than that the sets are finite and their
elements distinct from the sentinels):

- `Invariance`: `Spec => []PoolInv`. `Exclusive`, `NoLeak` and `OfferedClean` are
  not inductive: `Put` preserves `Exclusive` only if a thread at "put" holds a
  connection (`Holding`), that connection is still counted or was closed by the
  shutdown (`Counted`), and it carries no work of a job that raised (`CleanHeld`:
  such work is only on connections on their way out).
  `CommittedOnce` is the inductive form of `ProcAtMostOnce`: after the commit a
  job is on its way out.
- `TypeCorrect`, `MutualExclusion`, `OffersOnlyClean`, `LeakFreedom`,
  `AtMostOnce` follow from it.
- `CountInvariance`: `CountInv`, relative to `PoolInv`, by counting: every step
  moves at most one connection, so the cardinalities change by at most one.
  `BoundedOvershoot`, `WakeupsNotLost`, `CountersAddUp` and
  `NobodySleepsWithTheLock` follow.
- `ImplementsLease`: `Spec => LeaseSpec`, action by action. Under `PoolInv` a
  connection has at most one holder, so `leaseOwner` can be read off `held` and
  `available` without a choice (`OwnerOf`); a step that moves one connection
  (`OwnerMoves`) is then a step of the lease, and any other is none. A thread that
  takes a connection from the pool has a fit one because of `OfferedClean`: the
  refinement needs the safety invariants. Fit means open and without work of a
  failed borrower; work of a read that returned is not excluded (`pool_leftover`).

`RateLimiterProofs` proves, for both backends, any number of callers and actors
and any quotas, window, time to live and delay with `Window <= Ttl` and
`MaxDelay <= Window`: `LimiterInvariance`, `QuotaNeverExceeded` and
`DenialsJustified`. `QuotaKept` looks only at the log and is not inductive: it
needs that a bucket forgets nothing within the window (`NothingForgotten`),
which for Redis needs that a key outlives its entries (`LivesOn`), and both need
that stamps are at most `MaxDelay` old (`Fresh`). `PruneExact` is the lemma about
pruning: what is kept is recent, and what is recent is kept, although a deque is
only looked at from its head.

`SessionManagerProofs` proves `SessionInvariance`, `SlotsKept` and
`RefusalsJustified` for any limits. `SlotKept` needs that a session used a short
time ago is in the table (`UsedStored`) with a stamp at most `MaxDelay` older
than its use (`StampsFresh`).

`DashboardStoreProofs` proves `DashboardInvariance`, `PagesLiveAsPromised`,
`NeverSetBackFar`, `PagesServedFresh` and `DeadPagesStayDead`. The strengthening
is `InFlight` (a page the tool is about to store is new; one that a refresh is
about to store was unexpired when its queries began) and `Bounded` (a store with
an old clock sets an announced expiry back by `MaxDelay` at most).
`PagesStayRefreshable` proves `Refreshable`: the tool and a refresh store a page with
its metadata, and the cleanup of the store removes pages as a whole.

`TokenVerifierProofs` proves `VerifierInvariance`, `RetiredKeysDie` and
`NewKeysFound` for any number of calls and keys. The point is
`NoOlderThanItsTime`: because the time of a cache entry is read before the
request is sent, a late response may replace a newer key set but never claims to
be younger than it is.

`ServerStartupProofs` proves `StartupInvariance`, `ShutdownAlwaysReleases` and
`VerifierServesHandlers` for any flags, overrides and settings. `ShutdownReleases`
speaks of the end and `AuthAgrees` of the time of service, so neither is
inductive: `Held` says for every step what is open, what failed first and what was
raised, and `Provided` carries the decision of `build_auth_provider` to the service.

`ToolsAlwaysFollowFlags` proves `ToolsFollowFlags` with an invariant of its own,
`ToolsInv`: the instances are distinct and known (`Configured`), the flags in
force are those of the file unless the environment has the map (`InForce`), and
after the registration the handlers are what the flags enable (`Handled`). The
first part needs that the loop over the entries of the configuration keeps what it
has collected distinct (`EnabledIdsLoop`), for any number of entries.

`RequestPipelineProofs` proves, for any finite set of requests and any choice of
tools for each (`PipelineAssumption`), `PipelineInvariance`, `PipelineTypes`,
`LogAlwaysAgrees`, `LogAlwaysNamesCharged` and `DeniedAlwaysReconciles`. None of
these properties is inductive: they compare the end of a call with what happened
long before. `PipelineInv` says of every request

- what it has done (`History`): the checks it has passed are the first ones of
  its handler's list, and only `exec_proc` commits;
- where it is (`Place`): which labels of a handler can be reached with what done;
- whom it was charged to (`ChargedOnce`): the actor that the log will name,
  because authorisation, the only check that changes it, comes before the session;
- what it will answer (`Verdict`): from the first exception to the `finally`
  block, error, decision and answer agree;

and of the log (`LogInv`) that its lines are about calls that are over, one for
each. `DeniedReconciles` adds up `denied_requests` (`CountInv`), the lines of the
log and the lines that were lost, so its proof counts the requests by what became
of them. The handlers are records, so facts about them (`HandlersKnown`) are
proved once, by cases; the proofs of the actions rest on them.

`AnalysisReportsProofs` proves all invariants of `AnalysisReports`, for any rows
that the queries deliver, any number of them, any failures and any `DepthLimit`
and `HeadLimit \in Nat`. Little happens between the states (`ReportsInv`:
`Delivered`, `Noted`, `Told`; `ReadInOrder` for the order of rows and the
severities that can be built): a report is what `Report` makes of the rows, and
what there is to prove is what the algorithms compute. `ReportsAssumption` gives
rows their shapes: columns have a name or none, the sessions that wait and are
waited for are pairs of integers, the missing indexes are counted by natural
numbers and scans measured in integers.

- `AllClearIsTrue` (`NoFalseAllClear`): a failed second source is noted, no
  finding is the all-clear, and the filter over the rows keeps exactly those that
  are here (`FilterRows`).
- `CyclesAreFound` (`CyclesFound`): the search from a node, with the nodes it has
  seen, succeeds exactly if an edge leads to the start from a node that can be
  reached without entering a seen one (`SearchLeads`), by induction over the set
  of nodes that are not seen; leaving out what was seen loses no cycle
  (`LeadsBack`). The reference is stated with closed sets, so neither side
  speaks of paths.
- `NamesStayUnique` (`NamesUnique`): of the numbered variants of a name one is free
  (`FreeNameIsFree`); a name with a base of its own never meets another, because a
  name that is made up has the base of the name it was made from (`NamedSoFar`).
- `RootsAreReached` (`RootsReached`): of the sessions on a chain without an
  end, one from which the fewest can be reached lies on a cycle (`EndlessIsCircular`);
  the first numbers of a finite set are as many as the limit if any is left out, and
  those left out are larger (`FirstsAreFew`, `FirstsAreFull`, `FirstsComeFirst`);
  the depth of a session is the length of its chain, by induction along the search
  (`DepthIsLength`).
- `WorstRowAlwaysDecides` (`WorstRowDecides`): each finding of the four tools but
  those that count is a *kind*: some queries, rows that make it, rows that make it
  severe (`HealthIsKinds`, `ModelIsKinds`, `SecurityIsKinds`,
  `StatementsAreKinds`). A kind is graded alike on all rows and on the worst of
  them (`GradedAlone`, `GradedTogether`). The tool that looks at the first of the
  scanned objects only (`ScanSeverity`) is right because the query orders them by
  their scan ratio (`FirstIsMost`), and the one that reads one row of settings because
  there is one at most (`SettingsHit`). For the findings that count, more rows
  are no less severe (`CountedTogether`).

What needs induction here is proved without a predicate as a parameter: a nonempty
set of numbers has a least member (`LeastNumber`), one that holds 0 and is closed
under the next turn holds all (`InductUpTo`), nonempty families of subsets of a
finite set have minimal members (`MinimalSubset`). That a recursive function exists
at all, which its equation alone does not say, is proved by building up its turns
(`LoopExists`, `DepthsExist`); two functions with the same turns agree
(`LoopsAgree`).

Only model-checked is what needs fairness: `JobsEnd`. The prover handles neither
`ENABLED` nor fairness. The four statements of documents that
the violation runs refute have counterexamples and no theorem. The theorems are
about the model: that the model is the code is what reading the two side by side
shows, with the lines of `PROJECT.json`.

## Not modelled

SQL and HTML text, the classification of SQL statements and the spelling of
procedure names in the write guard (its verdicts are choices of
`RequestPipeline`); evidence, recommendations and redaction in reports; numeric
settings of the configuration, which appear only as values that may be
unusable; the counts by category of the usage summary, which follow from the
text of tool names; the reported health of an instance, which nothing but the
diagnostics reads, and `reused_total`; clock skew between hosts; memory growth
(`_actor_events` keeps a deque for every actor ever seen); the user interface
of the dashboard app.

## Plan

1. Connection pool, lease, proofs of the invariants and of the refinement (done).
2. Rate limiter, session manager, dashboard store, token verifier, with proofs
   (done).
3. Request pipeline with the app's data tool, privileges and usage summary (done).
4. Analysis algorithms and reports; start-up, configuration and tool flags (done).
5. Proofs of the invariants of the request pipeline, the reports, the tool flags
   and `Refreshable` (done).
6. A composition of pipeline, limiter and sessions, in place of the choices, and
   the proof that what is proved of each part holds of it.
