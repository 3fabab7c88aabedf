# Verification of YodMCP

TLA+ models of the YodMCP kernel (`src/src/yodmcp`), the TLC runs that check them on small
instances, and TLAPS proofs of the results that matter most. `PROJECT.json` lists the runs, the
source lines each definition models, the hazards the properties are for, and the theorems.

## The system

YodMCP is a Python asyncio kernel for agents. `docker-compose.yml` runs three processes (REST API,
A2A, MCP) from one image on one volume, so the durable backends of all three share one SQLite file.
Within a process there is one event loop: a synchronous function is atomic, and other coroutines
run only at an `await`.

| Component | State | Operations | What is hard | What makes it correct |
|---|---|---|---|---|
| Task store `tasks/manager.py` | rows `tasks`, or a dict | create, update, cancel, get, list, run_background | awaits between statements, one shared transaction per process, several processes, crash, lock waits | an acknowledged write is durable; a terminal status comes with its outcome; every call ends |
| SQLite connections `storage/aiosqlite_conn.py` | one cached connection per component | conn, close | change of event loop, failed schema script, no rollback | a connection is used in its own loop only, no worker is left behind, none is handed out while its schema script is still to run |
| Memory graphs `memory/multigraph.py` | nodes, four edge maps, entity index | write, read, consolidate, delete | long sequences of operations, equal clock readings, caps | nothing dangles, edges are mutual, provenance ends in an original |
| Durable memory `memory/durable.py` | three tables | the same, statement by statement | the same, plus interleaved statements and crash | the same, as far as the awaits allow |
| Approval queue `security/hitl.py` | requests with a status | enqueue, get, decide, list_pending | expiry happens only when somebody looks | late requests are never decided; a verdict is final |
| Policy `security/policy.py` | blocked tools, tenant lists | evaluate, block, allow, deny | order of the rules | the first matching rule decides |
| Tool gate `tools/gate.py` | none of its own | `_gated` | four records per call on many early returns | claims, requests, usage and audit account for each other |
| Quota `monetization/billing.py`, `metering.py` | plan, current tenant, counters | record_and_check, refresh, webhook | process-wide plan and tenant, awaits, restart, overlapping webhooks | the quota is exact for the tenant of the call; the plan in force is the entitlement of the only tenant served |
| Entitlements `monetization/entitlements.py` | one row per tenant | activate, deactivate, get_plan | webhooks in any order, repeated, overlapping, failing half-way | the row is what the event says that wrote it last, and in the end what the newest says, unless an older one came after it |
| Audit `observability/audit.py` | events, JSONL file, table | record, recent | background writes that may fail | the trail tells what happened |
| Attestation `security/attestation.py` | claims, a signing key | issue, verify, recent | keys drawn per start, measurements that depend on where a process runs | one claim per privileged decision; it verifies as long as its key and measurement do |
| Cache `cache/layer.py` | entries by key | get_exact, get_semantic, put, delete | stale entries, eviction, nearest match | a hit is what was last stored |
| Rate limiter `security/rate_limit.py` | token buckets | dispatch | wall clock, keys taken from headers before authentication | requests that it counts together keep to the rate |
| HTTP API and A2A `api/app.py`, `a2a/server.py`, `security/auth.py` | requests in flight | decide, list pending, send a message, create a task, billing, policy lists | a request waits between the limiter and its handler; names that operators share | what a client was answered stays true |
| Skills `skills/registry.py` | skills by name | load at the start, read | several roots, names that collide, files that cannot be read | each name has one well-defined skill |
| SDK, logging, web pages | none, or read-only | | I/O | |

The tool gate calls, in this order and without an await, validation, policy, attestation, the
approval queue, audit, billing; the body of a tool then calls the memory, the task store or the
cache. The API calls the approval queue, the policy lists and billing from the operators' side.

## Modules

| Module | Models | State and actions |
|---|---|---|
| `SqliteFile` | the SQLite file as the code uses it (external) | operators on `[disk, work, owner]`: the committed content, the content inside the one open transaction, and the connection that holds it |
| `TaskStore` | `TaskManager`, sqlite backend | `calls[s]` is the program counter, arguments and local row of a coroutine; one action per awaited statement (`Insert`, `Select`, `Write`, `Commit`), the runner of `run_background` (`Work`), `Raise` for a statement that fails, `Crash` for a process death |
| `MultiGraph` | `MultiGraphMemory` | `nodes`, `edges`, `index`; `Write`, `Consolidate`, `Delete` are one step each because every method holds one lock and awaits nothing under it |
| `DurableMemory` | `DurableMultiGraphMemory` on `SqliteFile` | the same graphs as tables; `calls[s]` is a coroutine between two awaited statements |
| `ApprovalDesk` | what operators are promised | requests that expire on time |
| `HitlQueue` | `HitlQueue` | `items`, `now`; one action per method, plus `Tick`; a decision carries the name of one of the `Operators` |
| `Tenancy`, `Quota` | tenants; the in-process part of `BillingService` and `UsageMeter` | `plan`, `bound` (`billing.tenant_id`), `counts` of the day |
| `ToolGate` (extends `HitlQueue`, `Quota`) | `_gated` composed with policy, the queue, claims, audit and quota | `Call` is a whole tool call up to the decision to run its body; the policy and plan changes and the operators interleave with the calls |
| `Billing` (extends `Quota`) | webhooks, entitlements, status and checkout requests | `file` (the table of entitlements), `calls` and `queue`: requests that await the entitlement statement by statement; `Checkout` and `Subscription` make events, `BeginWebhook` delivers any of them at any time, `RefuseWebhook` answers one unread; `Raise`, `Restart` |
| `Background` (on `SqliteFile`) | the fire-and-forget writes of the meter and the audit trail | `tasks`: every task created and the statement it is at; `file`: the tables of both; `Execute`, `Commit`, `Swallow`, `Ended` |
| `AuditTrail`, `Metering` (extend `Background`) | `AuditLogger`; `UsageMeter` | events kept in memory and `lines` of the JSONL file; `usage`, and `counts` per process; their statements |
| `Attestation` | `AttestationService` and its providers | `claims` as clients hold them, `starts` of each process; `Issue`, `Verify`, `Restarted` |
| `Trails` (extends the last three) | what a tool call leaves behind | `Call` notes, claims and meters in one step and creates the tasks, whose statements interleave with later calls, `Crash` and `Midnight` |
| `Connection` | `LoopSafeSqlite` | the cached connection, its lock, the loops of a process, and every connection ever opened with its worker thread |
| `Cache` | `CacheLayer`: lookups, stores, eviction | entries with their rank of use |
| `PlanCache`, `MemoryRead` (extend `Cache`) | `plan_cache_put`, `_get`, `_delete`; `memory_read` with its cache | puts, nearest lookups, deletes; readers with filters over nodes that come and go |
| `CacheTools` | both on the one cache of the substrate | entries of both namespaces evict each other |
| `Auth`, `RateLimit` (extends `Auth`) | `get_auth_context()`; `RateLimitMiddleware` | clients are the headers they send, Authorization and X-API-Key, one, both or none; one bucket per key of a request, a clock that may be set back |
| `Skills` | `SkillsRegistry` | `disk`, the files of the roots; `skills`, what was loaded at the last `Start`. `SkillsAreServed` is a declarative reference for the loop that loads them |
| `Surface` (extends `RateLimit`, `Skills`; instance of `HitlQueue`) | the HTTP surface of a process | `inflight`: requests between limiter and handler, which meet authentication (`Reject`) and their handlers (`Decide`, `NotFound`, `Pending`, `Message`, `Create`) in any order; `told`: what operators were answered; `StartUp`, `Stop`, `Install`, `Clock` |
| `Deployment` | the processes | no state |
| `*Proofs` | theorems | |
| `MC*` | instances for TLC | |

Identifiers that the program draws with `uuid4()` are numbers in the order of insertion, or model
values drawn without repetition. Content, embeddings, wording and logging are left out.

What a reader who compares a module with its code should know:

* `DurableMemory` is not `MultiGraph` on disk. The sqlite backend does not check that the
  `causal_parent` and `link_to` of a write exist (`Given` is the set of ids that clients make up), gives a summary
  a one-way semantic edge, and a delete leaves the `source_ids` of summaries alone. So the
  invariant that nothing dangles becomes `OnlyGivenAndSourcesDangle`, and holds for one caller per
  process only; `DeleteLeavesNoTrace` shows two callers breaking it.
* `SqliteFile` is one connection per process and component: the coroutines of a process write into
  each other's open transaction, and whoever commits first commits for all. A second process
  waits for the lock, or its statement raises.
* `Billing` takes one process to serve the API and the tools, as `build_substrate()` wires it. In the
  deployment of `docker-compose.yml` the MCP process is another one and never refreshes
  its plan at all. Stripe is external: it sends events in any order, several at a time, repeats one until it is
  answered with HTTP 200, and sometimes afterwards. The service keeps neither the id nor the time of an event, so
  whichever is written last has its way, an old one that is sent again after a newer one included; the properties
  say what follows for the row, and `NewestEventWins` below that more does not. An event that fails the signature
  check or cannot be parsed is answered `ok: False` with HTTP 200, so it is never repeated (`RefuseWebhook`). An
  expired checkout ends the entitlement of its tenant, whatever that came from.
  The statements of one connection run in the order in which they were awaited, because aiosqlite has one worker
  queue.
* In `MemoryRead` an answer carries no mark that it came from the cache: `{"cached": True, **cached}`
  takes `cached` from the stored answer, where it is `False`.
* `RateLimit` counts tokens in sixtieths, and time in seconds; the code uses floats. Its bucket key
  is the end of a header: two long keys that end alike, which the model leaves out, would share a
  bucket. The limiter looks at Authorization, whatever its scheme, before X-API-Key, but authentication takes the key
  from X-API-Key unless Authorization is a Bearer. So `RateIsBounded` bounds the requests that the limiter counts
  together (`Same`), and not those of an API key: `KeysAreLimited` below is false. The refusal is an `HTTPException` raised inside a middleware, outside the handlers of FastAPI's
  exceptions, so a client is answered 500 and never sees status 429 or `Retry-After`; `Surface` says only that the
  request goes no further.
* `Surface` is one process with all three surfaces on one substrate, as `create_api_app()` wires it. In
  `docker-compose.yml` the tool calls run in the MCP process: the approvals and policy lists of
  the API process are then others than those the gate uses, and no operator ever sees a request of
  the gate. The name of an operator (`api_key_id`) is the beginning of its key, or the same for
  everybody without configured keys; operators may share one (`KeyId`), and then both read a verdict of either as
  their own. `AnswersStayTrue` therefore speaks of names, as the answers do. `Unknown` is an id that this
  process never drew, as that of a request of another process or of one before a restart: the answer is "not
  found". Tasks are kept in `board` by tenant, taken from the caller by `Message` and from the body, if it names one, by `Create`; no
  property speaks of them. The expiry of a task (`ttl_ms`) is stored and never enforced.
* In `Attestation` a signature is the pair of key and body. Time stamp, risk tier and arguments hash are
  signed like the tool's name, so one field stands for them; mode, public key, actor and session are not
  signed, and `verify()` takes neither key nor measurement from the claim.
* `Trails` has a running event loop in every process: the branch of `record()` that calls
  `asyncio.run()` when there is none is not modelled. Tasks of one component in one process share a
  transaction, as in `TaskStore`.
* `Skills` keeps of a file the name it gives; a file that is not UTF-8 raises `UnicodeDecodeError`, which
  the loader does not catch, so the process does not start.
* `Connection` assumes of aiosqlite that a failed connect leaves no worker thread, and that
  `close()` ends the one it closes. A schema script that raises is not run again on that connection, which is
  handed out nevertheless: `ScriptIsOver` says that no script is still to run, and not that the tables are there
  (`TablesAreThere` below).

## Runs

| Run | Question | Bounds and why they are enough |
|---|---|---|
| `TaskStore` | do acknowledged writes survive, whatever is interleaved, fails or dies, and does every call end? | 2 tasks, 2 coroutines in one process (a shared transaction) and 1 in another (lock conflict), 3 calls, 1 fault: every pair of statements interleaves in both ways, and a failed commit leaves the lock to a waiting process |
| `MultiGraph` | do any sequences of operations break the graphs? | 3 nodes of 2 levels that all may name the one entity, an entity cap of 1 (so that the third finds more than it links), 2 clock readings, in any order and repeated |
| `DurableSerial` | do operations of different processes, with a crash, break the stored graphs? | 3 nodes, 1 entity, 3 calls, 1 crash, one made-up id; a third call meets what two interleaved ones left behind |
| `DurableShared` | does what was answered survive when two coroutines share a transaction? | 3 nodes, 3 calls, 1 failed statement, 1 crash |
| `ToolGate` | do the records of a call account for each other, is the quota exact, and can a late request be decided or a verdict change? | 2 tenants (symmetric), one tool of each kind, 3 calls, 1 policy or plan change, 2 days, a limit of one call a day, a second plan without limit, a global allowlist that leaves one tool out; a TTL of 0 ticks and a clock of 1, so that pending, late and expired requests coexist |
| `Billing` | is the stored entitlement what the event asks for that wrote it last, does it become what the newest says, and is the plan in force the entitlement? | 2 tenants, 2 events of Stripe (a payment and what follows it for one tenant, or one event of each), sent in any order, 1 status or tool call, 2 requests at a time, 2 faults (a statement that raises, a restart, a repeat of an answered event, an event that is not read); unanswered events are repeated without a bound, so an old one comes back after the newer one, overlapping or later |
| `Trails` | do claims, audit and usage account for each other across faults, is anything counted twice or lost once stored, does every write end, and which claims verify where? | 1 tenant, 2 processes (one attests in software, one simulates a TEE without a given key), 1 privileged tool and 1 other, 2 calls with up to 4 background writes on 4 connections, 1 error, 1 crash, midnight: two tasks share a transaction or compete for the lock, and one of them raises or dies half-way |
| `Connection` | can a connection of a dead loop be used, or one whose script is still to run, a worker thread be left behind, a caller wait for ever? | 3 coroutines (two that wait while one holds the lock), 3 loops, 5 connections, 1 failure |
| `CacheTools` | do lookups, deletes and eviction agree on what is stored, and is every answer of `memory_read` one that `memory.read()` gave? | 2 similar descriptions and 2 filters in a cache of 3 entries (so that the fourth evicts) with 5 puts; 1 node that comes and goes; readers that filter by level |
| `Surface` | is the rate bounded in every interval, do answers stay true, and is each skill served from the right file? | 4 clients (a long key in either header, a short one next to an Authorization of another scheme, none), 1 request a minute, 3 requests, 2 in flight, a clock that reads from -30 s to 30 s in steps of 30 s, set back once, 1 approval with TTL 30 s and an unknown id, 1 restart; every content of 2 roots with 2 directories, 2 names, one of them built in, unreadable and garbled files. Requests are explored on an empty disk only (`ServedDisks`), as no handler reads it |
| `TaskStoreLostPatch` (violation) | does a patch change only the fields it was given? | 2 coroutines of one process |
| `MemoryReadDeleted` (violation) | is a deleted node forgotten by reads? | that of `CacheTools` |

Every component's module has a type invariant. They hold in the same runs, and those of `TaskStore`,
`MultiGraph`, `DurableMemory`, `HitlQueue`, `ToolGate`, `Trails`, `Connection`, `CacheTools`, `Surface` and
`Billing` are proved, so no run spends a property on them.

The two violations are findings. The sqlite `update()` reads a row, awaits and writes the whole row
back, so a patch of other fields committed in between is lost; and nothing takes a deleted node out
of the read cache.

### Divergences that no run shows

These statements of the documents are stated in the modules too, below the properties that hold.
Each is false: TLC finds a counterexample when the definition is given to the run of the module as
its only property, with the change of constants noted.

| Definition | What the program does |
|---|---|
| `DurableMemory!DeleteLeavesNoTrace` (constants of `DurableShared`) | the statements of a delete and a write of one process interleave, and an edge to the deleted node stays; tools/register.py:91 promises otherwise |
| `ToolGate!RefusedToolsDoNotRun` | eight tools drop the answer of the gate and run (tools/register.py:138) |
| `ToolGate!AuditTellsTheOutcome` | a call refused by the quota is audited as allowed (tools/gate.py:79-97) |
| `ToolGate!EmptyAllowlistIsNoRule` | an empty tenant allowlist refuses everything; security/policy.py:67 says it means the default rules |
| `ToolGate!FailClosedWaits` | fail-closed changes the reason and lets the call run (tools/gate.py:72); security/hitl.py:4 says otherwise |
| `ToolGate!WritesWithinQuota` (`CallsPerDay <- TwoCalls`) | `memory_writes_per_day` is never enforced; docs/ARCHITECTURE.md:23 says it is |
| `ToolGate!RecentIsNewestFirst`, `LimitCapsTheList` | recent events come oldest first, and a limit of 0 means all (observability/audit.py:158) |
| `Billing!EntitlementOverridesEnv`, `FallsBackToEnvPlan` | the plan in force is one per process: a tenant is charged by the plan of the environment or of another tenant (monetization/billing.py:57-64) |
| `Billing!StatusIsOfItsCaller` | a status request answers for the tenant that another request bound while it awaited (api/app.py:130) |
| `Billing!PaymentActivatesItsPlan` (`Live = FALSE`) | a payment without metadata activates plan pro for whoever was bound last |
| `Billing!NewestEventWins` | an older event whose first delivery failed is sent again after a newer one and puts its own plan back; nothing compares events (monetization/billing.py:220-244) |
| `Billing!PaymentIsKept` | a payment that fails the signature check is answered with HTTP 200 and never sent again (monetization/billing.py:204-207) |
| `RateLimit!KeysAreLimited` (run `Surface`, `Clients <- TwoSchemes`) | a key in X-API-Key gets another full bucket with every other Authorization that is not a Bearer; security/rate_limit.py:3 and 38 say that the limit is by API key |
| `Connection!TablesAreThere` | once a schema script has raised, later callers get the connection without its tables (storage/aiosqlite_conn.py:69-75) |
| `Metering!QuotasSurviveRestarts` (run `Trails`, `Procs = {"p"}`, `SPECIFICATION Spec`) | the counters a quota is checked against start at zero after a restart; monetization/metering.py:3 says quotas survive |
| `PlanCache!PutOverwrites`, `CachedIsCached`, `NotDeletedWasMissing` | a second plan does not replace the first in lookups; a put may evict its own entry; a delete may answer `deleted=false` |
| `MemoryRead!AgentSeesItsNodes` (`Filters <- ByAgent`), `ItemIsTheOneAskedFor` (`Filters <- ByItem`; both with `Nodes = {"n1", "n2"}`) | the key of the read cache leaves out the agent and the item (tools/register.py:75), so one agent or item is answered with another |

`CHECK_DEADLOCK FALSE` is set because the bounds stop the models, as an idle program stops.

### Fairness

* `TaskStore!FairSpec` and `Trails!FairSpec` assume weak fairness of each coroutine's next step, its error
  included: the event loop runs every ready coroutine, a statement of aiosqlite either completes
  or raises, and a wait for the write lock ends with "database is locked" after the busy timeout.
* `Billing!FairBillingSpec` assumes weak fairness of the worker thread, which takes the next statement or
  lets it raise, and strong fairness of Stripe's deliveries of events that it has no answer to: it repeats them, so one of them meets
  a free slot. Nothing is assumed of the order of deliveries, nor of events that were refused, which have their answer.
  Faults are bounded, so some delivery is the last that fails.
* `Connection!FairSpec` assumes strong fairness of each coroutine's step, because a waiter of
  `asyncio.Lock` is disabled while another holds it, and the lock serves its waiters in order.

Nothing is assumed about callers, process deaths or faults.

## Proofs

Each module of proofs is about one component or composition and works the same way: an inductive
invariant that is stronger than the properties, a lemma per action that says it is kept, a lemma
for `Next`, and the properties as corollaries. What the invariant adds, and why the properties
alone are not inductive:

* `TaskStoreProofs`: type correctness, `AckedWritesAreDurable`, `OutcomeComesWithStatus`, for any tasks,
  processes, coroutines and faults. The invariant adds that the open transaction is ahead of the
  disk row by row (`WorkIsAhead`), that an id drawn for an INSERT is fresh (`InsertIsFresh`) and
  that a call still sees the row it read or wrote (`CallSeesItsRow`): without these a commit could
  be acknowledged for a version that another coroutine's transaction had lost. `OutcomeInv` says
  of the file, the open transaction, the rows that calls have read and the patches they carry that
  status and outcome go together (`Paired`, `PairedPatch`); a stale row written back whole stays paired.
* `MemoryProofs`: of the in-process graphs, type correctness, the five invariants and the action property
  `OnlyDeleteCutsEdges`, for any number of nodes, levels, entities and any clock. Of the cache and the tools
  on it, type correctness, `ExactIsLatest`, `DeletedStaysDeleted`, `ExactDescriptionWins` and `AnswersWereTrue`,
  for any size of the cache, any order of hits and any similarity. `CacheInv` says that the list has each entry once, that
  keys lead to entries of that key (`KeysLeadHome`) and that a cached result is the answer of a read with its key
  (`ResultsFitTheirKeys`). Eviction sorts by hits; all that the proofs need of the sort is that `Ranked` lists
  each member once (`RankedListsAll`). `AnswersWereTrue` assumes what the run does, that the filters of readers
  are told apart by the key of the cache (`KeysTellAll`); without it the property fails (`AgentSeesItsNodes` above).
* `DurableMemoryProofs`: type correctness, `AnswersAreDurable` and `NoPhantoms`, for any processes, coroutines,
  errors and crashes. Disk and open transaction are each `Sound` (whatever is referred to was
  inserted once, or made up by a client), a transaction forgets nothing (`Grows`), and a call knows
  only what its connection sees (`Informed`): an open transaction may vanish under a call only
  together with the call.
  The four graph invariants of the run `DurableSerial` are proved under `Serial` (one caller per process, no
  statement that raises but for the lock), again for any processes, calls and crashes. They fail
  between the statements of a call, so `SerialInv` says that the open transaction, *together with the edges
  that its call has still to insert*, is `Closed`, which holds the four invariants, and how far that
  call is (`Midway`).
* `ToolGateProofs`: of the queue alone, type correctness, `VerdictsAreInTime` and the refinement
  `HitlSpec => ImplementsDesk`; the invariant adds that no request is from the future, and each step maps
  to a step of the desk or to one it does not see (`StepRefines`). Of the gate with the queue, all
  these and `ClaimsMatchAudit`, `QueueMatchesAudit`, `UsageMatchesAudit`, `QuotaIsExact`, for any tenants, tools, plans,
  limits, allow lists, calls and days. The four support each other: the quota is exact because the
  counters are the events of the day, which needs that no event is from a later one
  (`EventsArePast`).
* `TrailsProofs`: type correctness, `ClaimsVerify`, `DoneIsDurable`, `ChargesAreOnTrail`, `NothingIsOvercounted`, for any
  processes, tools, calls, errors, crashes and days. Each claim is signed with the key and the
  measurement that its issuer had since the start that issued it (`SignedClaims`); from there it is an
  argument on keys (`KeysAlike`) and bodies (`BodiesAlike`), and relies on signatures being pairs of key
  and body. For the counters the invariant names the sets of calls that were counted, for good
  (`D`) and in the open transaction (`W`), and says that the counters are their sizes (`CountedAs`):
  a call may be counted whose row never comes, so the rows alone do not determine them.
  `TasksAreStored` says what each background task has already inserted.
* `ConnectionProofs`: type correctness, `UsedInItsLoop`, `OneWorker`, `ScriptIsOver` and `ScriptRunsOnOpen` (the
  connection whose schema script runs is not closed under it), for any coroutines, loops,
  connections and errors. Who connects, runs the script or closes holds the lock of this loop
  (`LockIsHeld`) and knows what is in the cache (`HolderKnowsCache`); the cached connection belongs to the
  loop noted with it (`CacheIsBound`); a worker runs only for it and for one being closed
  (`WorkersAreKnown`); a connection in someone's hands is ready (`HeldIsReady`), and coroutines end with
  their loop (`NobodyWithoutLoop`).
* `SurfaceProofs`: type correctness, `RateIsBounded`, `AnswersStayTrue` and `StartedSkillsAreServed`, for any clients,
  keys, rates, clocks, number of requests, restarts, and any content of any number of skill directories. The bound holds between any two requests because the requests that passed since
  one of them and the tokens that are left were there then or came with the clock (`Paid`).
  That needs nothing of headers but that what is counted together has one bucket (`SameBucket`).
  Answers stay true because whoever gave a verdict was told of it (`AnswersAreBacked`), and a verdict bars any
  other decision, whether or not operators share names. Skills are loaded one directory after the other: what is
  registered after the first d directories is an induction on d (`LoadServes`), written with sets and a
  minimal counterexample (`Induction`) as the prover has no rule for it.
* `BillingProofs`: type correctness, `EntitlementIsLastWritten` and `PlanFollowsEntitlement`, for any tenants, plans, slots
  and faults, and events in any order, repeated and overlapping. Type correctness says that every busy slot is
  in the queue once, and that no event is sent, answered or delivered that Stripe did not make (`TypeInv`). The
  invariant relates the rows to the queue of the connection: whoever waits for a commit is, or is before, a delivery
  of the event that wrote the row last (`CommitsWrote`), which is why a commit of any other request does no harm;
  so, once that event is handled, its row is in the transaction, and in the file unless a commit is to come
  (`RowIsLast`). A row on its way to a status request is old only if a commit of the newer one is behind it
  (`FetchesAreCurrent`), so the last to set the plan sets it to the present row (`PlanIsCurrent`).
  `EntitlementIsLastWritten` and `RowIsLast` speak of `Live`, as without a Stripe secret a webhook may name another tenant;
  the rest holds with and without.

The assumptions are the named `ASSUME`s of the modules, which TLC evaluates in every run: bounds are
numbers, nobody's names are not somebody's, tables of constants have their domains.

## Only model-checked

* Liveness (`CallsEnd`, `EventsBecomeDurable`, `EntitlementsArrive`), which is out of the prover's reach.
* The two findings, whose runs end in a violation, and the statements of the table of divergences.

Every invariant and every action property of the passing runs is a theorem, for any value of the
bounds that the guards of the modules name.

## Not modelled

Cryptography, HTTP and MCP transports, tracing, logging, web pages, the SDK, the agent card, embeddings and
ranking, and the legacy store and runtime behind the old dashboard. Of the in-memory task
backend only `create` is modelled: each of its operations is one step under a lock.
`PROJECT.json` gives the reason for each component.

## Plan

The in-memory task backend as an abstract specification (`TaskBoard`) that `TaskStore` implements
where statements do not interleave.
