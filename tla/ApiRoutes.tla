------------------------------- MODULE ApiRoutes -------------------------------
(***************************************************************************)
(* What the API serves: the routes of createHandler() (src/src/http.ts) in *)
(* the order in which they are tried, and who executes a command           *)
(* (src/src/contracts.ts, dispatcher.ts, worker-operation.ts).             *)
(*                                                                         *)
(* A path is the sequence of its segments behind /api.  In the pattern of  *)
(* a route "*" stands for any segment and "#" for a number; in a request   *)
(* "id" is a name and "7" a number that the caller put in.                 *)
(***************************************************************************)
EXTENDS Integers, Sequences, SequencesExt

Parameters == {"id", "7"}

\* access: "any" is a session or an API key, "key" an API key only.
\* effect: "none", what a confirmed call does to the business, "submit" or
\* "dispatch" of a command, or a "sample" that only renews read models.
Route(method, path, access, effect, command) ==
  [method |-> method, path |-> path, access |-> access, effect |-> effect, command |-> command]
Get(path) == Route("GET", path, "any", "none", "none")
KeyGet(path) == Route("GET", path, "key", "none", "none")
KeyPost(path) == Route("POST", path, "key", "none", "none")
Does(path) == Route("POST", path, "any", "business", "none")
Submits(path, command) == Route("POST", path, "any", "submit", command)
Dispatches(method, path, access, command) == Route(method, path, access, "dispatch", command)

-----------------------------------------------------------------------------
(* Routes *)

SchedulingRoutes == <<
  Get(<<"upstreams", "options">>),
  Get(<<"v2", "upstream-scheduling", "scopes">>),
  Get(<<"v2", "upstream-scheduling", "snapshot">>),
  Get(<<"v2", "upstream-scheduling", "plan">>),
  Get(<<"v2", "upstream-scheduling", "probe-history">>),
  Get(<<"v2", "upstream-scheduling", "model-sync">>),
  Get(<<"v2", "upstream-scheduling", "model-sync", "plan">>),
  Does(<<"v2", "upstream-scheduling", "model-sync", "run">>) >>

\* A benchmark is created, then submitted; a failed submission is recorded.
UpstreamReads == <<
  Get(<<"upstreams", "jobs", "*">>),
  Get(<<"upstreams">>),
  Get(<<"upstreams", "benchmarks">>),
  Get(<<"upstreams", "benchmarks", "*">>),
  Get(<<"upstreams", "#", "benchmarks">>),
  Submits(<<"upstreams", "#", "benchmark">>, "upstream.benchmark"),
  Get(<<"upstreams", "usage-cache">>),
  Get(<<"upstreams", "quota-monitor-usage">>),
  Get(<<"upstreams", "quota-summary">>),
  Get(<<"upstreams", "quota-monitor-snapshot">>),
  Get(<<"upstreams", "recharge-candidates">>),
  Get(<<"upstreams", "pool-quality">>),
  Get(<<"upstreams", "pool-quality", "errors">>) >>

OAuthRoutes == <<
  Get(<<"oauth", "runtime-summary">>),
  Submits(<<"oauth", "runtime-sample">>, "oauth.runtime.sample"),
  Get(<<"oauth", "runtime-sample", "*">>),
  Get(<<"bugteam", "cost-monitor">>),
  Submits(<<"oauth", "api-key-cutoff">>, "upstream.apikey.cutoff"),
  Get(<<"oauth", "api-key-cutoff", "history">>),
  KeyGet(<<"admin", "external-cutoff", "config">>),
  KeyGet(<<"admin", "external-cutoff", "matches">>),
  Submits(<<"admin", "external-cutoff">>, "upstream.apikey.cutoff"),
  Does(<<"oauth", "api-key-cutoff", "restore">>),
  Get(<<"oauth", "api-key-cutoff", "*">>),
  Does(<<"oauth", "api-key-cutoff", "*", "restore">>),
  Submits(<<"bugteam", "cost-monitor", "sample">>, "bugteam.cost.sample"),
  Get(<<"bugteam", "cost-monitor", "jobs", "*">>) >>

\* The operations of UpstreamManagementService are registered and submitted as
\* upstream.operation, that of the usage among them: it gives the accounts the
\* rates and names that it detects.
UpstreamWrites == <<
  Does(<<"upstreams", "usage-cache", "restore">>),
  Submits(<<"upstreams", "usage">>, "upstream.operation"),
  Does(<<"upstreams", "models-sync">>),
  Submits(<<"upstreams", "quota-monitor", "sample">>, "upstream.quota.sample"),
  Submits(<<"upstreams", "initialize">>, "upstream.operation"),
  Submits(<<"upstreams", "template">>, "upstream.operation"),
  Submits(<<"upstreams", "isolation">>, "upstream.operation"),
  Submits(<<"upstreams">>, "upstream.operation"),
  [Submits(<<"upstreams", "#">>, "upstream.operation") EXCEPT !.method = "PATCH"],
  Submits(<<"upstreams", "#", "recharge">>, "upstream.operation"),
  Submits(<<"upstreams", "recover">>, "upstream.operation") >>

\* Jobs are created by their services, which submit the workflows of their own.
JobRoutes == <<
  Get(<<"account-import", "options">>),
  Get(<<"bugteam", "purchase", "options">>),
  Submits(<<"bugteam", "purchase", "jobs">>, "bugteam.purchase.import"),
  Get(<<"bugteam", "purchase", "jobs", "*">>),
  [Does(<<"account-import", "preview">>) EXCEPT !.effect = "none"],
  Submits(<<"account-import", "jobs">>, "account.import"),
  Get(<<"account-import", "jobs", "*">>),
  Submits(<<"account-lifecycle", "jobs">>, "account.lifecycle.detect"),
  Get(<<"account-lifecycle", "jobs", "*">>),
  Submits(<<"account-lifecycle", "jobs", "*", "settle">>, "account.lifecycle.settle") >>

AccountRoutes == <<
  Get(<<"admin", "gateway", "service-policy">>),
  Get(<<"admin", "scheduling-runtime">>),
  Submits(<<"admin", "gateway", "service-policy">>, "gateway.service-policy.apply"),
  [Does(<<"admin", "accounts", "inspect">>) EXCEPT !.effect = "none"],
  Does(<<"admin", "accounts", "disable-luna">>),
  Does(<<"admin", "accounts", "delete">>) >>

\* These three do nothing unless the body says confirm; a job that is created
\* without confirm is a rehearsal.
ConfirmedByBody == {<<"admin", "gateway", "service-policy">>, <<"admin", "accounts", "disable-luna">>,
  <<"admin", "accounts", "delete">>, <<"upstreams", "usage-cache", "restore">>,
  <<"account-import", "jobs">>, <<"account-lifecycle", "jobs">>, <<"admin", "credit-test">>}

InternalRoutes == <<
  [Does(<<"internal", "sub2api-read">>) EXCEPT !.effect = "none"],
  Get(<<"internal", "upstream-operations", "*">>),
  Does(<<"internal", "upstream-operations", "*", "complete">>),
  [KeyPost(<<"internal", "upstream-usage-cache">>) EXCEPT !.effect = "sample"],
  KeyGet(<<"internal", "account-import-jobs", "*">>),
  KeyGet(<<"internal", "bugteam-purchase-jobs", "*">>),
  [KeyPost(<<"internal", "bugteam-purchase-jobs", "*">>) EXCEPT !.effect = "business"],
  [KeyPost(<<"internal", "account-import-jobs", "*">>) EXCEPT !.effect = "business"],
  KeyGet(<<"internal", "account-lifecycle-jobs", "*">>),
  [KeyPost(<<"internal", "account-lifecycle-jobs", "*">>) EXCEPT !.effect = "business"],
  [KeyPost(<<"internal", "execute-operation">>) EXCEPT !.effect = "direct"],
  [KeyPost(<<"internal", "execute-worker-operation">>) EXCEPT !.effect = "execute"] >>

ScoreRoutes == <<
  Dispatches("GET", <<"status">>, "any", "scores.get"),
  Dispatches("GET", <<"scores">>, "any", "scores.get"),
  Submits(<<"scores", "refresh">>, "scores.refresh"),
  Dispatches("POST", <<"scores", "rank">>, "any", "scores.rank"),
  Get(<<"operations", "idle-probe">>),
  Get(<<"operations", "idle-probe", "summary">>),
  Get(<<"operations", "idle-probe", "coverage">>),
  Get(<<"operations", "idle-probe", "history">>),
  Submits(<<"operations", "idle-probe">>, "account.idle-probe.run"),
  Submits(<<"operations", "idle-probe", "reconcile">>, "account.idle-probe.reconcile") >>

LedgerRoutes == <<
  Dispatches("GET", <<"ranking">>, "any", "ranking.get"),
  Dispatches("GET", <<"lottery">>, "any", "lottery.publicState"),
  Dispatches("POST", <<"lottery", "draw">>, "any", "lottery.publicDraw"),
  Get(<<"operations", "ledger">>),
  Get(<<"operations", "oauth-cost">>),
  Does(<<"operations", "cash">>),
  Does(<<"operations", "cash", "*", "void">>),
  Get(<<"operations", "priority-history">>),
  [Does(<<"operations", "procurement">>) EXCEPT !.effect = "none"],
  Get(<<"operations", "audits">>),
  Get(<<"observability", "costs">>),
  Get(<<"observability", "report">>),
  Get(<<"observability", "reports", "*">>) >>

\* Faulty: the route of one request is tried before those of the summaries.
ErrorRoutesReordered == <<
  KeyGet(<<"admin", "read-status">>),
  KeyGet(<<"admin", "errors", "*">>),
  KeyGet(<<"admin", "errors", "aggregate">>),
  KeyGet(<<"admin", "errors", "diagnose">>),
  KeyGet(<<"admin", "errors", "cooldowns">>),
  KeyGet(<<"admin", "errors">>) >>

ErrorRoutes == <<
  KeyGet(<<"admin", "read-status">>),
  KeyGet(<<"admin", "errors", "aggregate">>),
  KeyGet(<<"admin", "errors", "diagnose">>),
  KeyGet(<<"admin", "errors", "cooldowns">>),
  KeyGet(<<"admin", "errors">>),
  KeyGet(<<"admin", "errors", "*">>) >>

EconomicsRoutes == <<
  KeyPost(<<"admin", "users", "impact">>),
  KeyPost(<<"admin", "accounts", "economics">>),
  KeyPost(<<"admin", "accounts", "import-economics">>),
  KeyPost(<<"admin", "accounts", "oauth-economics">>),
  KeyPost(<<"admin", "payments", "alipay-revenue">>),
  KeyGet(<<"admin", "users", "balance-liability">>),
  KeyPost(<<"admin", "profit", "daily-facts">>),
  KeyPost(<<"admin", "profit", "daily">>) >>

\* Only a command that samples is taken from the body.
AdminRoutes == <<
  Dispatches("GET", <<"admin", "status">>, "key", "lottery.status"),
  Dispatches("GET", <<"admin", "backend-check">>, "key", "backend.check"),
  Dispatches("POST", <<"admin", "draw">>, "key", "lottery.draw"),
  Dispatches("POST", <<"admin", "reset">>, "key", "lottery.reset"),
  Dispatches("GET", <<"admin", "records">>, "key", "records.list"),
  Dispatches("DELETE", <<"admin", "records", "*">>, "key", "records.delete"),
  [Submits(<<"admin", "workflows">>, "body") EXCEPT !.access = "key"],
  KeyGet(<<"admin", "workflows", "*">>),
  Dispatches("POST", <<"admin", "credit-test">>, "key", "credit.test") >>

Routes ==
  SchedulingRoutes \o UpstreamReads \o OAuthRoutes \o UpstreamWrites \o JobRoutes \o AccountRoutes
    \o InternalRoutes \o ScoreRoutes \o LedgerRoutes \o ErrorRoutes \o EconomicsRoutes \o AdminRoutes

Matches(route, method, path) ==
  /\ route.method = method /\ Len(route.path) = Len(path)
  /\ \A i \in DOMAIN path :
       \/ route.path[i] \in {path[i], "*"}
       \/ route.path[i] = "#" /\ path[i] = "7"

NotFound == Route("-", <<>>, "any", "notFound", "none")

\* The first route that matches.
Resolve(method, path) ==
  LET found == SelectInSeq(Routes, LAMBDA r : Matches(r, method, path))
  IN IF found = 0 THEN NotFound ELSE Routes[found]

\* isApiResponseCacheable(): neither the words of live paths nor those of read
\* models that the store keeps.
Cacheable(method, path) ==
  LET kept == {<<"admin", "gateway", "service-policy">>, <<"admin", "read-status">>,
               <<"admin", "scheduling-runtime">>, <<"oauth", "runtime-summary">>,
               <<"bugteam", "cost-monitor">>, <<"operations", "priority-history">>}
      keptBelow == {<<"observability">>, <<"upstreams">>, <<"admin", "errors">>,
                    <<"operations", "idle-probe">>, <<"v2", "upstream-scheduling">>}
  IN /\ method = "GET"
     /\ \A i \in DOMAIN path : path[i] \notin {"jobs", "workflows", "benchmarks", "scores"}
     /\ path[Len(path)] \notin {"status", "health"}
     /\ path \notin kept
     /\ \A p \in keptBelow : ~ IsPrefix(p, path)

-----------------------------------------------------------------------------
(* Commands *)

\* Commands that the worker executes, with those of the lottery that change it.
WorkerCommands == {"gateway.service-policy.apply", "upstream.operation", "upstream.quota.sample",
  "upstream.usage.sample", "pool.quality.sample", "bugteam.cost.sample", "upstream.apikey.cutoff",
  "bugteam.purchase.import", "oauth.runtime.sample", "upstream.benchmark", "account.import",
  "account.lifecycle.detect", "account.lifecycle.settle", "account.idle-probe.run",
  "account.idle-probe.reconcile", "priority.automation.v2.run", "upstream.model-sync.v2.run"}
DirectCommands == {"backend.check", "scores.get", "scores.refresh", "scores.rank", "ranking.get",
  "lottery.publicState", "lottery.publicDraw", "lottery.status", "lottery.draw", "lottery.reset",
  "records.list", "records.delete", "credit.test"}
Commands == WorkerCommands \cup DirectCommands

\* usesWorkflow(); a credit test only when it is executed.
UsesWorkflow(command, executes) ==
  \/ command \in WorkerCommands
  \/ command \in {"scores.refresh", "lottery.publicDraw", "lottery.draw", "lottery.reset", "records.delete"}
  \/ command = "credit.test" /\ executes

\* createWorkerOperationExecutor() knows its commands and passes the rest to
\* dispatchDirect(), which refuses those of the worker.
ExecutedByWorker ==
  {"gateway.service-policy.apply", "scores.refresh", "upstream.usage.sample", "pool.quality.sample",
   "bugteam.cost.sample", "upstream.apikey.cutoff", "bugteam.purchase.import", "upstream.quota.sample",
   "oauth.runtime.sample", "upstream.benchmark", "account.idle-probe.run", "account.idle-probe.reconcile",
   "priority.automation.v2.run", "upstream.model-sync.v2.run", "account.import",
   "account.lifecycle.detect", "account.lifecycle.settle", "upstream.operation"}
WorkerExecutes(command) == command \in ExecutedByWorker \cup DirectCommands

Samples(command) == command \in {"scores.get", "scores.rank", "scores.refresh", "ranking.get",
  "lottery.publicState", "lottery.status", "backend.check", "records.list", "oauth.runtime.sample",
  "pool.quality.sample", "bugteam.cost.sample", "upstream.quota.sample", "upstream.usage.sample"}

\* submit() refuses what uses no workflow, and the worker what it does not know.
Refuses(effect, command, executes) ==
  \/ effect = "submit" /\ ~ UsesWorkflow(command, executes)
  \/ effect = "direct" /\ command \notin DirectCommands
  \/ effect \in {"submit", "execute"} /\ ~ WorkerExecutes(command)

\* What serving a command does: dispatch() executes it or has it executed by a
\* workflow.
Serve(effect, command, executes) ==
  IF Refuses(effect, command, executes) THEN "refused"
  ELSE IF \/ effect \in {"none", "sample"}
          \/ effect # "business" /\ Samples(command)
          \/ command = "credit.test" /\ ~ executes
  THEN "sample" ELSE "business"
=============================================================================
