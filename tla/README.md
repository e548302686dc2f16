# Api2Business in TLA+

Api2Business operates a Sub2API installation: it watches the accounts of the pool, sets their
priorities, imports, purchases, diagnoses and retires accounts, cuts API keys off and books what
all of that costs. This directory holds a formal model of the parts of it in which the order of
events matters, the TLC configurations that check the model on small instances, and TLAPS proofs
of its main safety properties for instances of any size.

Source references are to the repository (`src/src/...` is the TypeScript code,
`src/go-worker/...` the Go worker). `PROJECT.json` maps every definition that models code to its
file and lines, lists the runs, the hazards and the properties that cover them, one mutant per
property (a faulty form of a definition with which the property must fail), the findings and the
theorems.

Contents: 1 the system, 2 how the models are built, 3 the modules, 4 runs and bounds, 5 fairness,
6 proofs, 7 findings, 8 what is not modelled, 9 plan, 10 running it.

## 1. The system

### Processes and stores

* The **API process** (Bun, TypeScript: `server.ts` starts `bootstrap.ts`, which builds the
  services of `api.ts` and the routes of `http.ts`). All services live here, each as an object
  with state in memory, and run interleaved at every `await`.
* The **worker** (`src/go-worker`). Temporal workflows in Go. An activity does nothing but
  `POST /api/internal/execute-worker-operation`, so each operation runs inside the API process;
  the worker may restart while its operation goes on in the API, and conversely.
* **Temporal**: workflow executions, their ids, timers, signals.
* **Sub2API**, a foreign service: its admin HTTP interface, and its PostgreSQL database, which is
  read through one connection (the read broker).
* Api2Business' own **PostgreSQL** (`OperationsStore`), the **SQLite** database of the lottery, and
  **ledger files** (JSONL, JSON) in the data directory.

Two facts shape nearly everything. Calls to Sub2API may time out and still take effect. And a
deadline never stops the work behind it: an HTTP handler, an activity or a query that nobody waits
for any more goes on.

### Components

For each: its state, its operations, what is hard about it, and what makes it correct.
"M" marks the components that are modelled, "m" those of which a part is; the others are left out
(section 8).

| Component | State | Operations | Hard behaviour | Correct when |
|---|---|---|---|---|
| **Sub2API read broker** (M) `sub2api-read-executor.ts` | two queues, in-flight promise per key, result cache, current task, connection | `query`, `status`, `close`; drain loop, watchdog, retry, recycling | statements that never answer, answers after the watchdog, `close` during a drain, cache refilled by an overtaken read | every caller is answered once, with nothing older than what was told before; one statement per connection; bounded cache |
| **Automatic priority plans** (M) `operations-service.ts`, `operations-store.ts`, `priority-automation-safety.ts` | plan table, advisory lock, batches of the run, priorities in Sub2API | lock, reconcile, score, write batches, read back, retry, finish | runs in several processes, crashes between record and result, partial and late writes | one run at a time; only its own run settles a plan; risk is reduced before load is added; `applied` is what Sub2API holds |
| **Schedules** (M) `worker.go`, `workflows.go`, `idle-account-probe.ts` | workflow executions with their input, in-flight scopes of the probes | start, replace, terminate, 30 s watchdog, one round after another | inputs pinned by stable ids, watchdog beside rounds, rounds that outlive their execution | inputs follow the configuration, disabled scopes stop, nothing in flight is cancelled, lost executions come back |
| **API key cutoffs** (M) `workflows.go`, `upstream-management.ts` | switch of each account, cutoff ledger, timers and signals of the workflow | disable, guard, restore, restore now | overlapping cutoffs, administrators in between, half-done activities | what was cut comes back, what an administrator switched off stays off |
| **Retirement of OAuth accounts** (M) `account-lifecycle-service.ts`, `account-lifecycle-ledger.ts` | the last 20 jobs in memory, a ledger file, the pool in Sub2API | submit, detect, probe, settle, book, delete in batches, read back, resume | two workflows on one job, eviction, restart, late and half-done deletions | no deletion without a booking, one booking per job, a settled job left nothing |
| **Operations store connections** (M) `operations-store.ts` | pools with generations | query, write, recycling, `close` | several timeouts of one generation, writes in flight at a recycle | recycled once per generation; writes never replayed; nothing left open |
| **Account import** (M) `account-import-service.ts`, `account-import-preflight.ts`, `account-import-cost-ledger.ts` | the last 20 jobs in memory, cost ledger | upload, preflight, corrections, import with an idempotency key, reconcile, charge | timeout with a part created, now or later; accounts that others delete and replace; eviction and restart | no account is charged twice or to a job it was there before; a job that succeeds has charged all it made; the ledger can be read whatever is corrected |
| **BugTeam purchases** (M) | jobs in memory | quote, order, poll, download, import | an order known only to the memory of the process; rounding of prices | a successful purchase was fulfilled and charged at its price |
| **Public recovery jobs** (M) | one JSON file per job | stages, saved between them, resumed by a new process | a crash between an effect and the save, two workers on one file | imports have the whole download; success was verified |
| **Upstream operations** (m) | pending operations (30 min), recharge ledger | submit, claim, complete, prune; create, update, recharge, align | registered after the workflow was submitted, overlapping attempts, one step of several failing | a recharge is booked once |
| **Lottery** (M) | SQLite: draws, grants, records | draw (mutex), reconcile, delete, reset | credit with an unknown outcome; deletion beside a draw | a chance is used once, a prize is paid once and recorded |
| **Probe isolation and probes** (m) | JSON file under a file lock; user, key and group in Sub2API | ensure, probe, verify; rounds | find-or-create by several callers, limits of a round, broken streams | a probe measures its account; nobody is passed over; quality means the sum |
| **Model sync** (M) | cursor, rounds | plan, apply in rounds | failing accounts, overlaps, restarts | each account has its turn |
| **Scheduling** (m) | snapshot of a scope, none for the ranking | read model from sections; scores to priorities | sections that fail, builds side by side; ties, rounding, few priorities | data as fresh as they say; the order is kept with as few changes as possible |
| **Score read model, response cache** (M) | stored snapshots and answers, running refreshes | read, refresh | a refresh joined or failing, restarts | nobody is told less than before, failure is not taken for success |
| **Quota monitor** (m) | samples, counters, balances | sample, summarize | shared wallets, counters that start again, failed reads | never more than was spent or produced |
| **Procurement costs** (m) | none | merge ledger and configuration, share out refunds | several sources of one cost, rounding | counted once, shared out to the fen |
| **Configuration reload** (m) | configuration, fingerprint | poll, load, publish | edits while it is read | an edit is noticed, an invalid one ignored |
| **Command line and routes** (m) | none; idempotency keys the operator keeps | commands with and without `--confirm`, polling, verification | lost answers, repeated commands | nothing is written twice, or without `--confirm` but by two commands; calls find their route |
| **Browser pages** (m) | the view, timers, requests under way | load, switch, refresh, import | answers in any order | shown is what it says; imported is what was confirmed |
| Diagnosis, most economics, build | none or derived | reports | none of order | not modelled |

Interactions: the HTTP routes and the worker's internal route call the same services; services
read Sub2API's database through the read broker and write through the admin client; long
operations are submitted through the Temporal gateway and come back through the internal route;
schedules cause sampling, probes, model sync and priority plans; import, purchase and recovery
submit imports to one another. On stop the server refuses requests, hot reload stops, the context
closes, then the store, the read broker and Temporal are closed.

## 2. How the models are built

* One action stands for the code between two points at which others can interleave (an `await`,
  a message, a process end). Work after the last `await` of a handler, such as a `finally`, belongs
  to the action.
* Calls to Sub2API are two actions where the gap matters (a read, then the write based on it), and
  their failures are modelled by effect: done, not done, partly done, done later.
* Failures are counted by `faults`, bounded by `MaxFaults`; all bounds are CONSTANTS described where
  they are declared. They bound how often, never when.
* Contents are abstracted to what properties distinguish: rows of a read to the version of the
  database they were read at, a schedule's input to a `cadence`, an account to being healthy, dead
  or gone.
* Definitions with a comment "Faulty:" or "Mutant" take no part in a specification. Each is the
  broken form of the definition below it, and replacing that definition by it makes a property fail.

## 3. The modules

### ReadService and ReadBroker

`ReadService` says what a caller of the broker relies on: a call, once made, is answered or refused
once, an answer is a state of the foreign database not younger than the present one, and answers
about a key do not go back in time from one told to a caller to the next.

`ReadBroker` is `SingleConnectionSub2ApiReadExecutor`. `Query` is `query()` up to its return of the
promise: rejected when closed, answered from the cache, joined to the promise of the key, or queued.
`TakeManual`, `TakeAutomatic` and `DrainEnd` are the loop of `drain()`, `QueueTimeout` the timer of a
queued task. A statement is a member of `ops` and belongs to a connection generation: `Succeed`,
`Fail`, `LoseConnection` are its ends while the executor waits; `Watchdog` gives up waiting; what
was abandoned ends in `AbandonedEnds` and must reach neither a caller nor the cache. `Retry` and
`GiveUp` follow `recycleDatabase()`. `Forget` is the `finally()` that clears the in-flight entry one
microtask later. `Close`/`CloseDone` are `close()`.

The in-flight map, the lives of the tasks, the settled promises and the running statements are
separate state in the code, and nearly all properties relate two of them. `ImplementsService` is the
refinement: the answer of a call is the outcome of the promise it was given, the told version is what
any earlier answer or cache entry of its key showed.

A retired connection may still be executing a statement while the next one starts:
`OneOperationPerConnection` is about each connection, not the server. A manual read that joins an
automatic one keeps the automatic priority; `ManualFirst` is about tasks, as the code is.

### PriorityPlan

A runner is one execution of `runV2AutomaticPriorityPlan`. `Start` asks for the advisory lock of
`withPriorityOptimizationQueue`; `Acquire` gets it and marks started pending plans as failed
(`reconcileInterruptedPriorityPlans`); `Score...` chooses a result (unusable, nothing to change, or a
target for some accounts: what the scoring computes is left open, so that properties hold for
whatever it returns) and records the plan; `Confirm` reads the scores a second time; `Preflight`,
`Write`, `Verify`, `Recheck` are the loop over batches, `FinishPlan` writes the verdict, `Unlock`
frees the lock. `Batches` is `orderedPriorityEntries` followed by the split into batches. Partial
writes, crashes, lost sessions (`LoseSession`) and requests that take effect after they were given
up (`LateWrite`) are separate actions that two constants switch on.

Other writers of priorities (an administrator) are not in the model: `AppliedMeansInForce` says that
the run read the priorities it claims, not that nobody changed them afterwards.

### Schedules

`Boot`, `Tick`, `EnsureStart`, `EnsureStop`, `EnsureFails` are `ensureSchedules` at start-up and from
the watchdog, one Temporal call per step, ended by the first that fails. A schedule is an execution
with the input it was started with; `StartRound`, `EndRound`, `Wake` are the loops of `workflows.go`.
Idle probe rounds live in the API (`StartProbe`, `SkipProbe`, `EndProbe`, `ProbeTimesOut`,
`ManualProbe`) and end on their own, whatever became of the execution that asked for them. `Lost`,
`WorkerExits` and `ApiRestarts` are the failures. A restart of the worker picks any configuration.

The ids of score schedules contain their interval and are never terminated, so these are in `Score`
with one member per interval and `DisabledIsOff` leaves them out. The same holds for the interval of
running priority and model-sync executions in `CadenceIsCurrent`. Two worker processes at once (a
rolling deployment) are not modelled.

### ApiKeyCutoff

A cutoff is one `ApiKeyCutoffWorkflow`: `Submit` the HTTP handler, `Check`, `Read`, `SwitchOff`,
`Verify` the disable activity, `Guard`, `Timer`, `Hold`, `DeadlinePasses`, `RestoreNow` the wait of
the workflow, `RestoreRead` and `SwitchOn` the restore activity, and `Fails`/`SwitchFails` the failing
activities with the workflow that returns at the first error. Administrators switch accounts
(`AdminSwitchesOff`/`On`), accounts break, the OAuth pool empties and fills. The ledger of external
cutoffs is present as the source of what `Targets` may restore.

### AccountLifecycle

A job is detected, then settled. `Submit` and `Settle` are the HTTP handlers, including the
submission to Temporal whose answer may be an error though the workflow started. A run is a workflow
with the copy of the job it took: `StartDetection`, `Detect`, `Probe` are `runDetectWorker`;
`StartSettlement`, `ReadFacts`, `Book`, `DeleteBatch`, `VerifyDeletion` are `runSettlementWorker`;
`CallFails` is any failing call in them, `LateDelete` a deletion that takes effect after its call
failed, `Restart` loses all jobs, `FloorAfter` evicts the oldest. `Patch` writes a copy back over what
others wrote, as `applyWorkerPatch` does. Accounts may also appear, die, recover and disappear by other
hands (`PoolChanges`). The two patches at the end of a settlement follow one another without an await
and are one step. One plan type and scope is modelled; the amounts of a booking are left out, and so
is that the ledger's fingerprint depends on the day and the plan type.

### AccountImport

`Submit` is the HTTP handler with its submission to Temporal; `SubmissionFails` is an error answer, which
marks the job failed, though its workflow may have started. A run is `runWorker` and `run`, cut where the
code awaits: `Start`, `FirstPreflight`, `Correct`, `Recheck` (plan types), `Import` (the call to Sub2API
with whatever of it took effect, answered or not), `Reconcile` after a timeout, `Configure` for the
copies of a recovery, `Verify`, `Charge`, `Finish`, and `CallFails` for any call that fails. `Persists`
and `Ends` are the patches of the job; a patch throws when the job is no longer kept (`FloorAfter`
evicts, `Restart` loses all jobs with the runs, since both live in the API process). `LateWrite`
is the part of a timed-out call that takes effect afterwards, `PoolChanges` the hands of others, which
delete accounts or spoil their settings or plan type. `plan.known` (all that a preflight has read) and
`maker` (whose call an account comes from) are only observed.

What the properties leave out is as telling as what they say:

* Only a job that *succeeds* has charged what it made. One that fails after Sub2API created accounts
  charges nothing, and a second submission finds the accounts aligned and skips them.
* A late write after the job has looked for the last time is nobody's (`maker` 0) and is never charged.
* `ChargesOnlyNew` has an exception. The reconciliation takes for created what is now the single account
  of its user and was neither skipped nor expected. A user who had two accounts is neither; when one of
  the two is deleted while the call times out, the other counts as created and is charged, although the test at
  `account-import-service.test.ts:76` says that a reconciliation does not charge existing accounts. TLC
  finds this behaviour when the exception is dropped.
* Two jobs for one user that both find no account may create two accounts. Both are new and both are charged.

The jobs import OAuth accounts of OpenAI with one set of settings. Imports for Grok always create; imports
of API-key accounts return no ids, so that nothing is verified or charged. Neither is modelled, nor are
proxies and the corrections of ledger entries.

### The parts of `Services`

The modules below share no state with one another. Each is a specification of its own with its
constants. `Parts` has the variables they share in turn; `ActingParts` puts those side by side that write, move
money, probe or synchronize, `AnsweringParts` those that answer, show or compute, each with its `Init`, `Next` and
specification (`ActingSpec`, `AnsweringSpec`) and with what the system promises of its parts. `Services` is the union of the
two; `MCServices` gives it its bounds, and section 4 says how the parts are run together. The groups are separate because the
proofs are about one group each (section 6). The inductive invariants of the parts that are proved stand at the end of
their modules, where they can be read with the actions they are about.

**Lottery.** `Request`, `Enter`, `Draw`, `Credit` are `draw()` with its mutex: a chance is taken in the same
transaction in which the record is written, then Sub2API is asked for the credit, which may fail, take
effect without an answer, or late (`LateCredit`). `Status` reconciles the daily grants, `SetChances`
and `DeleteRecord` are `reset()` and `deleteRecord()`, which do not take the mutex. A credit whose answer
is lost stays `failed` though it was paid, and nobody settles one that a restart left `pending`:
the code promises neither, and the property says only what a record that claims success means.

**UpstreamOperations.** `SubmitOperation` starts the workflow and `Register` puts the operation in the map afterwards, as the
code does. An attempt claims it (`Claim`) and goes through the stages of its action (creation
with lookup, account, template, isolation, verification, probe and suspension; recharge; update, usage,
alignment, recovery); it may overlap with another attempt of the same operation. `Book` is
`recordUpstreamRechargeCost`. What a creation leaves behind when two of one identity run at once
(two accounts) is not promised and no property is about it.

**OperationsStore.** A query runs on the pool of its generation; `Lose` retires this pool through `Replaces`
unless another query has done so; `Recovery` decides what is run again. `LateWrite` is a write that
PostgreSQL executes after its answer was given up.

**ScoreReadModel**, **ResponseCache**, **SchedulingSnapshot** and **ConfigReload** are about freshness. Their contents
are versions: the number of a collection, of what a handler read, of the snapshot a section was read for, of an edit. The score
model has its row or file, the memory and the refresh in flight; the cache its entries and shared
refreshes; the snapshot its sections, each of which may come from the snapshot before, in memory or
persisted, with background and forced builds side by side; the reload its files and the fingerprint. A section
gets its time when all of them have settled, so it is dated by the snapshot it was read for: fresh ones are of the
snapshot that shows them, stale ones of an earlier one.
Three facts:

* `upstream-scheduling.md:358` says that a section which fails keeps its data and its success time. The
  usage section does not: the code goes through `records(usageRows).map(cachedUsageResult)`
  (`upstream-scheduling-v2.ts:575`), which takes rows of the cache and not the results that a snapshot has, and keeps
  the time without the data. `SnapshotsAreHonest` excepts it; the definition
  `FailedSectionKeepsItsData` states what the document says and TLC refutes it.
* A row that `persistedCache` reads slowly can put an older snapshot back in memory.
* An edit between the read of a file and the fingerprint (`config.ts:1326`) is hidden until the next
  edit; `overtaken` marks these, and `EditsAreNoticed` is about the others.

**CommandLine over ApiRoutes.** A table of commands with the calls each makes and a table of routes in the order of `createHandler`.
The operator enters one command several times, without `--confirm`, with an option forgotten, with the key printed
before or none; answers get lost, others change the wallet. `CallsFindTheirRoute` resolves every call in
the route table. Two commands write without `--confirm` (`Unasked`): `upstreams usage` (`cli.ts:916-919`), an operation like the
others, after which `synchronizeDetectedRates` renames and re-rates accounts in Sub2API (`worker-operation.ts:170-173`), and
`accounts math-probe` (`cli.ts:1482-1565`). `EffectsAreAsked` allows them one write for each time they were entered, and every
other command one for each time it was confirmed.

**Purchases** is `runWorker` of the purchase service with BugTeam as an order that is made, fulfilled
and downloaded; **PublicRecovery** the job file with two workers, each of which reads the file in one step and saves its copy in a later one, as
`retry` does; **CostLedger** the ledger with charges and
both kinds of corrections; **ProcurementCosts** the merge of ledger and configuration and the shares of refunds.
Facts: a purchase evicted or lost in a restart leaves a paid order nobody knows; a crash after the
download was linked into place makes the job fail until its import is asked for by name; the last account
of a refund takes the rest of the rounding, which may be negative, and a refund on a batch that cost nothing is a
division by zero (`NaN`); `RefundsAreSharedOut` is about the sums that are numbers.

**ProbeIsolation**, **ProbeStream**, **IdleProbe.** The first has the find-or-create of group, user and key with the file that records what is
ready, callers in parallel and changes by others; the second the fold over the events of a stream and the
classification of what was heard; the third the rounds of a scope: plan, repair, start, probe, record,
reconcile. The order of the accounts by their latest activity is a function from account to place (`order`): an activity
moves its account to the last place, LIMIT is a set by rank (`First`), and the loops go through what is chosen `InTurn`.
`NobodyIsPassedOver` is about rounds that have room for more accounts than are beyond repair (`Repairable`): an account that never can be
isolated takes a repair of each round, hence as many of them as a round repairs or plans stop everybody behind them. The
instance has an account beyond repair, and a round repairs two.

**QuotaMonitor** has the samples of accounts that share wallets, and the windows computed from them. In a window with
a round that has none of the selected accounts, their sum is counted instead of each account, and the counter of one that joins
counts as output; the property leaves these windows out (`CountedOneByOne`).

**PriorityRanking** computes a plan from evidence and current priorities; it is checked against reference
definitions (`MostKept`, `Dominates`). An account called less often than the target, scored or not, gets a bonus that
shrinks with its calls, and so may come before a better and cheaper one that was called enough
(`account-priority-plan.test.ts:682` expects it); only an account that lacks no fewer calls dominates another. In the
instance the bonus is large enough for that. With a reserve policy the plan does not come to rest
(`account-priority-plan.ts:501`), and the instance has none. **ModelSync** has the cursor and the rounds; rounds by hand move the cursor
and overlaps repeat a batch, which `Undisturbed` leaves out of the promise.

**SchedulingPage**, **ImportPage**, **QuotaPage** have the variables of the pages, the requests under way, and what the operator does. Facts: after
a failed switch of scope the old tables stay under the new tab, no longer said to be ready; the bytes of a file may
arrive after a later choice and the preview made by submitting has no sequence number, so
`ImportsWhatWasConfirmed` assumes an operator who waits for both, and who waits for the preview of a file before
typing over its text, since typed text takes no sequence number either; the quota page's first pass is not guarded by
the flag that guards the others.

## 4. Runs

Each run asks one question of the system, or one group of questions that need the same instance.

| Run | Asks | Bounds |
|---|---|---|
| `read_broker` | Safety and refinement of the broker | 3 calls, 2 keys, cache of 1, 1 foreign commit |
| `priority_plan` | Exclusion, history, order and truth of plans | 2 runners, 2 plans, 2 accounts, 3 priorities, batches of 1, 1 retry, 2 faults |
| `priority_plan_live` | Are started plans settled, whatever breaks? | 2 runners, 2 plans, 1 account, 2 priorities, 1 fault, lost sessions and late writes |
| `priority_plan_lost_lock` | Do writing runs exclude each other when the lock session breaks? No (finding 1) | 2 accounts, 2 priorities, 1 fault |
| `schedules` | Inputs, disabled scopes, rounds, restoration | 2 score ids, one schedule of each other kind, 3 configurations, 2 faults |
| `schedules_probes` | Does the watchdog leave probe rounds alone? No (finding 2) | same kinds, 2 faults |
| `live` | Safety of overlapping cutoffs, and do they end? Is every call of the broker settled, does `close` return? | 1 account, 2 cutoffs, 1 fault; 2 calls, 2 keys |
| `api_key_cutoff_page` | Do keys come back by themselves? No (finding 3) | 2 accounts, 1 cutoff, 1 fault |
| `account_lifecycle` | Booking, deletion, settlement | 2 accounts, 2 jobs of which 1 is kept, 2 runs, batches of 1, 2 faults |
| `import_jobs` | What is charged, when, and how often | 2 users, 2 account ids, 2 jobs of which 1 is kept, 1 fault, 1 change by others |
| `account_lifecycle_resume` | Does a resumed settlement end? No (finding 4) | 2 accounts, 1 job, 1 run, 1 fault |
| `services` | Do the other parts keep their promises? | as in `MCServices`, below |

What the properties say is in the comment above each. Why the bounds are enough:

* *ReadBroker.* A key is joined, refilled and evicted with two calls on it and one on another; three
  calls give a running, a waiting and a joining one. A cache of one entry evicts at the second key.
  Retry, watchdog and recycling concern one task and its successor. One commit tells old from new.
* *PriorityPlan.* Two runners meet at the lock, two plans let one be reconciled while the other runs,
  two accounts with batches of one give two batches in either order of risk, three priorities a
  larger and a smaller change, two faults a crash and a failure after it.
* *Schedules.* The kinds are handled alike within a kind, except scores, hence two; three
  configurations change an interval and disable each kind that can be disabled.
* *ApiKeyCutoff.* Conflicts are between two cutoffs, or a cutoff and an administrator, about the same
  account; accounts do not interact except through a kind that covers one. Safety is proved for any
  number.
* *AccountLifecycle.* Two accounts in batches of one give a settlement that stops half-way; two jobs
  with one kept give eviction; two runs give two workflows of one job or of two. Safety is proved for
  any number.

* *AccountImport.* Two users let a call be half done and a reconciliation find one part skipped, one
  updated and one created; two ids give a user a second account, or a deleted account a successor; two
  jobs overlap, and the first one is evicted when the second is submitted but goes on to its next patch;
  one fault is the timeout, one change the deletion or misalignment during it. Safety is proved for
  any number.

`live` examines two modules that share no state side by side, each in its own behaviours. `services` does so with twenty-one parts. They share no state, so their product would only
multiply their states: the first step of a behaviour is the choice of a `part`, and the others have no
variables in it (`ActingParts` and `AnsweringParts` instantiate the modules with the variables `v1`, `v2`, ... of `Parts`, of which a part
uses the first ones). Each invariant says of the parts it is about what their module states. The bounds
are in `MCServices` and `Services.cfg`, chosen so that what each hazard needs can happen:

| Part | Bounds |
|---|---|
| lottery | 2 draws, 1 chance at first and 1 a day, 2 days, 1 reset, 2 failures |
| operations | 2 operations of 9 kinds, 2 attempts, 2 accounts, 1 fault |
| store | 2 queries of any kind, 2 faults: two queries lose one pool, or one loses two |
| scores, responses | 3 calls (one that begins, one that joins, one after it), 1 or 2 faults |
| snapshot | 2 requests that may be repeated, 2 sections, 2 builds, 1 fault |
| reload | 2 templates, 2 edits |
| command | every command of the tables, entered twice, 2 lost answers or changes of the wallet |
| purchases, recovery | 2 purchases of which 1 is kept, totals with and without a remainder; 2 workers; 1 fault each |
| ledger, costs | 2 accounts, 3 lines; 4 accounts, 4 records, 2 refunds |
| isolation, stream, rounds | 2 accounts of which one has a conflicting name, 2 callers, 2 groups, 1 fault; 5 answers; 3 accounts, 2 candidates, 1 repair |
| quota | 2 accounts of one wallet, 3 rounds, a window of 2, 1 fault |
| ranking, models | 4 accounts, 5 priorities, any evidence of 7 rows, a target of 2 calls; 4 accounts in batches of 2, 2 runners |
| pages | 2 scopes and 4 requests; 3 sources and 4 actions; 2 passes and 1 unit of time |

`ranking` and `rounds` begin in a part of their initial states (`SomeRankings`, `SomeRounds`): rankings from any priorities
of one set of evidence and of any evidence from equal priorities; rounds in which all accounts are active.

`CHECK_DEADLOCK FALSE` is set where a system may come to rest: the calls, cutoffs, jobs or plans of
the instance are used up. `priority_plan*` and `schedules*` never stop (a runner can always
start again, the ticker always fires) and are checked for deadlock.

## 5. Fairness

* `ReadBroker!Fairness`: timers fire (watchdog, queue timeout), promises and microtasks go on (drain,
  retry, give up, `close`). *None* for the database: a statement may never answer, which is
  what the watchdog is for.
* `PriorityPlan!Fairness`: the schedule keeps starting runs, a run that was started takes its
  next step, whether it holds the lock or ends, and PostgreSQL grants a free lock to someone. No fairness for a particular waiter.
* `Schedules!Fairness`: the supervisor restarts the worker, the ticker fires and `ensureSchedules` makes
  its next call, workflows take their next step, probe rounds end, an activity that waits for a round
  times out.
* `ApiKeyCutoff!FairSpec`: the next step of each workflow happens; deadlines only under `PunctualSpec`,
  the run that asks whether keys come back.
* `AccountLifecycle!FairSpec`: a started run takes its next step or fails, and a submission that will
  fail does.

* `MCLive!LiveFairness` is the fairness of the two modules it puts side by side, of which a behaviour examines one:
  an action of the other part is never enabled (`In`), so its fairness asks for nothing.
* `AccountImport` and the parts of `services` claim nothing about progress and have no fairness. Where they speak of
  turns (`NobodyIsPassedOver`, `EverybodyHasATurn`) they count the rounds since an account was served,
  which is a safety property.

Without failures there is nothing to wait for; failures are bounded by `MaxFaults`, so the liveness
results read: once things stop breaking, what is promised happens.

## 6. Proofs

Each proof module of a component extends it, and `IInv` (`Inv` in `AccountImportProofs`) is the inductive
invariant; the first theorem of each of these modules is `InvariantHolds`, that it always holds. `ReadBrokerProofs` and
`PriorityPlanProofs` have a second invariant that is proved from the first (`FreshnessHolds`, `BatchesHold`).
`ActingProofs` and `AnsweringProofs` extend `ActingParts` and `AnsweringParts`: the lemmas are about the steps of a part, the
theorems about every behaviour of the group, and the invariants are in the modules of the parts.

| Module | Invariant | Theorems (beyond those that an invariant holds) |
|---|---|---|
| `ReadBrokerProofs` | `TypeOK`, `PromiseInv`, `QueueInv`, `LoopInv`, `OperationInv`; `FreshInv`: `ShareInv`, `PastInv`, `CacheInv`, `ReadInv`, `FlightInv` | `TypeCorrect`, `NoWaiterIsLost`, `ReadsAreDeduplicated`, `ConnectionsAreNotShared`, `RowsNeverGoBack`, `ManualTasksGoFirst`, `BrokerIsAReadService` |
| `PriorityPlanProofs` | `ControlType`, `LockInv`, `PlanInv`; `BatchInv`: `BatchType`, `RunInv` | `RunsExcludeEachOther`, `LivePlansAreNotReconciled`, `HistoryIsNotRewritten`, `RisksAreReducedFirst`, `AppliedPlansAreInForce` |
| `SchedulesProofs` | `TypeOK`, `RoundsCounted`, `AwaitedRuns`, `DownIsIdle`, `ConfiguredInv` | `TypeCorrect`, `OneRound`, `InputsAreCurrent`, `DisabledStaysOff`, `WatchdogLeavesRoundsAlone` |
| `ApiKeyCutoffProofs` | `TypeOK`, `CutInv`, `HandsOff`, `OffInv` | `TypeCorrect`, `RestoresRespectAdministrators`, `CutoffsCleanUp` |
| `AccountLifecycleProofs` | `TypeOK` and `Rest` | `BookingComesFirst`, `JobsBookOnce`, `SettledJobsAreDone` |
| `AccountImportProofs` | `TypeOK`, `PlanInv`, `MadeInv`, `LateInv`, `ChargedOnce`, `ChargesOnlyNew` | `TypesHold`, `AccountsAreChargedOnce`, `OnlyNewAccountsAreCharged`, `SuccessHasBeenCharged` |
| `ActingProofs` | `LotteryInv` (`ChancesInv`, `PrizesInv`, `MutexInv`), `StoreInv` (`MutationInv`, `PoolInv`), `OperationsInv` (`OneEntryInv`, `BookingInv`), `PurchaseInv` (`BeginInv`, `RunInv`), `RecoveryInv` (`CopyInv`), `IsolationInv` (`LockInv`, `AllowedInv`, `NameInv`, `ForeignInv`), `RoundInv` (`StageInv`, `CountInv`, `OutcomeInv`), `WaitInv` (`OrderInv`, `LoopInv`, `TurnInv`), `SyncInv` (`Agrees`), `ModelSync!TurnInv` (`Comes`) | `LotteryPrizesAreHonest`, `StoreConnectionsAreSound`, `UpstreamRechargesBookedOnce`, `SuppliesAreAccountedFor`, `RoundsTellTheTruth`, `EverybodyTakesTurns` |
| `AnsweringProofs` | `ResponseInv` (`EntryInv`, `JobInv`, `RequestInv`), `ScoreInv` (`KeptInv`, `RowInv`, `FileInv`, `CallInv`), `SnapshotInv` (`BuildInv`, `RequestInv`), `ReloadInv` (`ReadingInv`, `FingerprintInv`), `QuotaInv` (`ReadInv`), `StreamInv` (`EndInv`), `SchedulingInv`, `ImportInv`, `QuotaPageInv`, `CommandInv` (`KeysInv`, `BookedInv`) | `AnswersStayHonest`, `PagesStayHonest`, `CommandsStaySafe` |

The theorems assume nothing but the named assumptions on the constants, except those of
`PriorityPlanProofs`. These assume `~SessionMayBeLost`: finding 1 shows that they fail without it.
`RisksAreReducedFirst` and `AppliedPlansAreInForce` also assume `~RequestsMayBeLate`: a write that an earlier
run gave up on may change a priority under the run that has just read it.
The assumptions on constants say what their values are: counts are natural numbers, what stands for "none" is not among
the values (`ResponsesAssumption`, `ReloadAssumption`, `NoneAssumption`, `PagesAssumption`, `ImportAssumption`, `IsolationAssumption`), the accounts that
are synchronized are numbered and the batch is not empty (`ModelsAssumption`), nothing is not a round (`NothingAssumption`), the accounts that are probed are
numbered and a round plans and repairs some (`RoundsAssumption`), rounds have a caller of their own (`IsolationAssumption`), an operation on an upstream has one of the actions of the code
and an amount only where one is booked (`OperationsAssumption`), an order is for at least one account
(`PurchasesAssumption`), the accounts of a priority plan are finitely many (`PolicyAssumption`), an account has a wallet (`QuotaAssumption`), an answer is a
sequence of tokens (`AnswersAssumption`). `CommandAssumption` is of another kind: it depends on no constant but is a
computation over the finite tables of commands and routes, which TLC makes and the provers cannot: a command, whichever way it is
entered, makes a sequence of calls of which at most one writes, always the same one, and none without `--confirm`
unless the command is one of the two that need none (`WritesAreAsked`).

The arguments, in short:

* *ReadBroker.* A caller can be lost only if its task is pending and nobody will come back to it. `QueueInv`
  says where every unsettled task is (in exactly one queue, or active), `LoopInv` that a loop is running
  whenever there is such a task and the broker is open, `PromiseInv` that what is in flight for a key is
  the promise of a task of that key, and `OperationInv` that the statement under way on the current
  connection belongs to the active task and any other to a retired connection.
* *PriorityPlan.* The lock is held exactly by the run past `Acquire`; hence a pending plan whose run
  lives is the lock holder's, and reconciliation, which only the holder does, finds none of it.
* *Schedules.* `RoundsCounted` ties the in-flight set to the rounds in the API, `AwaitedRuns` ties an
  awaiting execution to such a round; `ConfiguredInv` says that whatever the current `ensureSchedules`
  has passed already agrees with the configuration.
* *ApiKeyCutoff.* `OffInv` names for each account that is off the cutoff, the administrator or the broken
  activity that answers for it; with no cutoff open and no activity failed only the administrator is left.
* *AccountLifecycle.* The hard part is that two workflows write whole copies of one job. `SoleInv` says
  that a settlement run which has no earlier settlement to continue is the only run of its job and the
  job is not booked before it books: two runs of one job can only be continuations of a booked
  settlement, which book nothing (`Gone` and `Covered` are stable); `RunInv` ties the copy of a run to the job's plan and to the ledger:
  a run past its booking has an entry that covers its accounts; `MadeInv` ties `settlement.made` to the
  ledger; `DetectInv`, `PlanInv` and `FreshInv` keep plans fixed once confirmed.
* *AccountImport.* `MadeInv` says in which form the accounts that a job made are accounted for while it
  runs: none before the call; during a reconciliation they belong to its users and were not known to its
  plan; then, as far as they exist, they are in its result; at the end in the ledger. The step that
  matters is `Reconcile`: it goes on only if every user of the job has exactly one account and it is
  aligned, hence an account the job made is the one account of its user, was not known and counts as
  created. `PlanInv` carries what the ledger property needs to the moment of the charge, and that a job
  has no entry before; `LateInv` that only calls which were made can take effect late.
* *Freshness of the broker.* How new the rows of a key are depends on where they are: told to callers, in a settled
  promise that is still shared, in the cache, or in a statement under way. `FreshInv` orders these places.
  Nothing is newer than the database (`PastInv`); a key has one cache entry, not older than its answers
  (`CacheInv`); the awaited statement of a key (`ReadInv`), and its settled promise while that is still in flight
  (`FlightInv`), are not older than answers and entry; and calls share promises of their own key (`ShareInv`). The
  step that matters is `Succeed`: because the key is in flight from the call on, nobody else has read it meanwhile, so its
  entry is only ever replaced by rows read later.
* *The refinement.* `BrokerIsAReadService` maps the initial states and each step. `Query` is the call and, from
  the cache, also its answer; the end of a statement, of a retry, of a timeout or of `Close` settles one promise or
  those of a queue, and the calls that share a promise are answered together; all else stutters. That an answer
  does not go behind what its key was told is `FreshInv` before the step.
* *Batches of a plan.* The order of the changes is strict and total (`Precedes`), so each account has one
  rank and the batches partition the plan in this order (`BatchesAreOrdered`; the rank is counted by the cardinality
  of what precedes it). While a run writes, whatever its plan wants and is not in force is in a batch still to do (`Covers`),
  and no batch raises before a later one lowers (`RisksFirst`); a partial write keeps both, because a change in
  force is no risk any more. When the last batch is verified nothing is left, which is `AppliedMeansInForce`.
* *OperationsStore.* `MutationInv`: a write that may not be replayed has neither taken effect nor been
  left with PostgreSQL before its only attempt ends, and never waits for a replay. `PoolInv`: the pool in use
  is open until the store is closed, a query that wants the pool in use recycled has seen it break, and
  none observes a pool that is still to come, so that a late query cannot retire the new pool.
* *Lottery.* The latest grant is never later than today, hence reconciling takes no chance away, and the
  grants of two readers add up to one. `DueInv` says for each stage of a draw what is
  recorded, paid and overdue: nothing before the record, nothing paid before the answer, and never a credit
  both paid and overdue, whoever deletes the record in between. `MutexInv`: the line holds each draw under way once, and only
  its first has gone on.
* *UpstreamOperations.* `BookingInv`: an attempt of an operation with a recharge can be in no stage past the booking
  without its entry in the ledger, whichever attempt wrote it; `OneEntryInv`: the ledger has one entry of each operation.
* *Purchases and recoveries.* `BeginInv` says what has not begun, `RunInv` what a run has in hand at each stage: its
  order exists, is then completed, and the price it imports with is that of the order, although the job it works for may be
  evicted. The price is within half a fen of the share by a lemma about rounded quotients. In a recovery, `CopyInv` holds of every copy of the job
  file, however old, hence a worker that writes its copy back over the other's does no harm.
* *Isolated probes.* `LockInv`: whoever is past the lock holds it and has a private group of its account in hand, so that the
  others stand still while it works. `AllowedInv` follows a group from the list of the monitor user, which is read and written back, to
  the record: no other caller writes the list in between. `NameInv`: a plain name is given to one group, and a key is only ever in
  a private group of its account. `ForeignInv` is the heart of it: while another account is in a private group, or is about to be
  written back into it, the owner has no ready record and nobody is about to write one; the step that matters is
  `VerifyBinding`, which looks at the members after its own write. A probe finds the record ready, hence nobody else in the group.
* *Rounds of probes.* `CountInv` and `OutcomeInv` relate what a round owes (`owed`, in all its loops) to what it has counted: until a
  failure or an account left out, whatever is owed was well or is `Open`, in the plan or being probed; after a failure
  something is owed that is neither, and it stays so, since a probe closes its account. At the end nothing is open.
* *Synchronizations.* `Agrees`: the row of a round and the call that works on it say the same, account by account, and an account is
  planned or running only while the call has it to do. The row is finished when nothing is to do.
* *Turns of probes.* An account that waits was passed over only for accounts that are behind it now, since each operation
  probes somebody who is not after it, and who is the last then: `TurnInv` bounds the waits of an account by the number of those `Behind` it, and
  by one more while the round in progress has promised to probe it or one before it (`Promised`). The step that matters is `Plan`: the first account that can be
  repaired is planned, because those before it are all beyond repair and fewer than the limit, and for the same reason its turn comes
  while there are repairs left. That a set of accounts can be put in order at all, and that the order has all of them, is an induction over places and the
  pigeonhole principle (`OrdersExist`, `InTurnIsSorted`).
* *Turns of synchronizations.* `TurnInv` of `ModelSync`: the automatic rounds since the turn of an account, a batch each, and the places from the
  cursor to it, going round, are together fewer than the eligible accounts (`Comes`). A round takes a batch from the cursor on, so that whoever is not in it is
  nearer by a batch to its end (`RoundsComeCloser`, `BatchTakesTurns`); while it is under way, its accounts are still to do.
* *Answers.* Responses: what was shown is not newer than the entry, nor the entry than its source
  (`EntryInv`); a key has one refresh, and what it will write is not older than the entry (`JobInv`). Scores:
  what succeeded or was shown is kept where readers look (`KeptInv`), with a store (`RowInv`) and without one (`FileInv`), and what a call waits for is
  later than what it began with (`CallInv`). Snapshots: there is one build at a time, and what it saves is the latest
  capture (`BuildInv`); its sections say what they are by construction from sections that do (`HonestSections`), and what is read is of the
  snapshot that this build will capture, because no other can capture one meanwhile (`Dated`). Reload: the
  fingerprint is that of the configuration in use and of an earlier time, and where it is of now it hides no edit but an
  overtaken one (`FingerprintInv`).
* *Balances.* `ReadInv`: what a round has read is newer than what is kept from the rounds before, and two reads of one time are the
  same. So the newest read of a wallet in this round, where there is one, is the newest of all (`OlderReadsDoNotMatter`), and where there is none, the newest
  kept is (`CarriedIsNewest`).
* *What a probe hears.* `StreamInv`: what was heard is what was sent, token by token, however often an event repeats it
  (`EventIsHeard`: a delta, a whole text or neither). `EndInv`: while the upstream answers, nothing is concluded; once it has finished, everything was
  sent, or it was cut off and that was heard, or it failed and is not called completed, unless it then calls itself done (`doneFailing`).
* *Command line.* `KeysInv` names the keys that were wanted, at most one for each time that a write was confirmed, or that a command
  which needs no confirmation was entered (`Asked`): the key of a call under way
  is among them, the key that was printed for a retry is as soon as a write was asked for, and whatever is written or submitted has one of them and
  is made by the one call of the command that writes. A retry repeats its key, so it wants no other. `BookedInv`: what is completed is
  booked, and what is shown as verified was completed with the amount of the command.
* *Pages.* Requests of the scheduling page are numbered; the latest is for the scope in view, and while it is under way the page does
  not say that it is ready (`RequestInv`). `ImportInv`: choices of files are numbered; while the operator waits, only the latest
  may be unread, and once it is read everything on the page comes from it: the text, the preview, the counts of the dialog and what
  was sent for a preview. `QuotaPageInv`: the button, the sampling and the timer wait for each other (`TurnInv`), and
  the summary of a build that a pass began itself is not older than the pass (`BuildInv`); one that it
  has joined may be, which `ShownIsRecent` leaves out.

The type invariants are proved, not run: a run would repeat what the theorem says for every instance.

Only model-checked:

* all liveness properties (no fairness or ENABLED here);
* the counts of attempts and faults in the `TypeOK` of the priority plans;
* `ComputationsAgree`: what a fold or a recursion computes for every input (sums over ledgers and windows, shares of refunds,
  the ranking) needs induction over data; `CallsFindTheirRoute` in it is a computation over the two tables, which
  has no constants to be general in;
* everything about lost lock sessions and late writes of priorities.

## 7. Findings

1. **A lost lock session lets two priority runs write** (`priority_plan_lost_lock`). The advisory lock
   belongs to a connection that stays idle during the run and is not checked again. It breaks after a run
   has written a batch; the next run gets the lock, marks the live plan as interrupted
   (`operations-store.ts:1240`) and writes its own batch before the first has verified its own.
2. **The watchdog replaces idle probes every 30 seconds** (`schedules_probes`). Only the sampling schedule
   is exempt from replacement, against the comments of `worker.go:192` and `:222`.
3. **Cut keys do not always come back** (`api_key_cutoff_page`). The workflow returns at the first
   activity error without restoring, and activities are attempted once.
4. **A resumed settlement is refused and stays settling** (`account_lifecycle_resume`). `settle()`
   overwrites the state by which the worker would recognise the resumption.

Each is described with its lines in `PROJECT.json`.

## 8. What is not modelled, and why

* Pure computation over query results (most of the economics, usage, valuation, grades, diagnosis): no state, no
  interleaving, decimals rather than integers. What has a rule that could be broken by rounding or by order
  is modelled in integers (`ProcurementCosts`, `CostLedger`, `Purchases`, `PriorityRanking`).
* Presentation: the pages other than the three modelled, formatting of the command line, the build.
* Parsing, sessions, secrets and the syntax of the configuration. Configuration appears where it changes
  behaviour (`Schedules!Boot`, `ConfigReload`, `PriorityRanking`).
* The TypeScript worker (`worker.ts`): production starts the Go worker; the two register the same
  operations.
* Limits of ledger reads (the last 500 or 100 events), and ledger files damaged by hand.
* The Sub2API service itself, Temporal, PostgreSQL and BugTeam: only the effects of the calls that are made to them.
* Order of start and stop of the server, monitors that only report, credentials of upstreams and their tests.

`PROJECT.json` says of every component what is left out of it.

## 9. Plan

Done: the core in six components with proofs, and the other services, read models, tables and pages in the modules
of `Services`, of which eighteen are proved about (`quota` in what it says of balances); the others compute.

What would add most next:

1. Composition of `Purchases` and `PublicRecovery` with `AccountImport`, to which they submit and of which they
   now know only the outcome; of `UpstreamOperations` with `ProbeIsolation`.
2. Grok and API-key accounts in `AccountImport`; pool quality and the runtime monitor beside `QuotaMonitor`.

## 10. Running it

    tlc -workers 2 -config ReadBroker.cfg MCReadBroker
    tlapm ReadBrokerProofs.tla

and likewise for the other modules: a run's module and configuration are in `PROJECT.json`. The `MC...`
modules of one component only name values and symmetries; where the configuration can name them, the run uses the
component's own module. `MCLive` and `MCServices` put several components side by side. The longest runs are `services`
(1.3 million states) and `live`, about two minutes each; the longest proofs are `ActingProofs`, about a
quarter of an hour, and `AnsweringProofs`, then `AccountLifecycleProofs` and `AccountImportProofs`.
