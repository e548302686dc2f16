------------------------------ MODULE CommandLine ------------------------------
(***************************************************************************)
(* The command line (skills/api2business/scripts/src/cli.ts), the HTTP     *)
(* client it calls the API with (src/src/admin-http-client.ts) and the     *)
(* verification of a recharge (upstream-recharge.ts), over the routes of   *)
(* ApiRoutes.  An operator enters one command several times: first without *)
(* --confirm, with an option forgotten, again after a lost answer.         *)
(*                                                                         *)
(* Calls that are sent in parallel are a sequence here: they read.         *)
(***************************************************************************)
EXTENDS ApiRoutes, FiniteSets

CONSTANTS
  MaxProcesses,   \* times the operator enters the command
  MaxCliFaults    \* answers lost, and changes of the wallet by others

Http(method, path) == [method |-> method, path |-> path]
Reads(path) == Http("GET", path)
Posts(path) == Http("POST", path)

-----------------------------------------------------------------------------
(* AdminHttpClient: what each of its methods requests *)

SchedulingCalls ==
  LET v2 == <<"v2", "upstream-scheduling">>
      probe == <<"operations", "idle-probe">> IN
  [upstreamSchedulingV2Scopes |-> Reads(v2 \o <<"scopes">>),
   upstreamSchedulingV2Snapshot |-> Reads(v2 \o <<"snapshot">>),
   upstreamSchedulingV2Plan |-> Reads(v2 \o <<"plan">>),
   upstreamSchedulingV2PriorityRun |-> Posts(<<"internal", "execute-worker-operation">>),
   upstreamSchedulingV2ModelSyncPlan |-> Reads(v2 \o <<"model-sync", "plan">>),
   upstreamSchedulingV2ModelSyncRun |-> Posts(v2 \o <<"model-sync", "run">>),
   upstreamSchedulingV2ModelSyncHistory |-> Reads(v2 \o <<"model-sync">>),
   poolQuality |-> Reads(<<"upstreams", "pool-quality">>),
   rankScores |-> Posts(<<"scores", "rank">>),
   idleProbePlan |-> Reads(probe),
   idleProbeHistory |-> Reads(probe \o <<"history">>),
   idleProbeCoverage |-> Reads(probe \o <<"coverage">>),
   idleProbeRun |-> Posts(probe),
   idleProbeReconcile |-> Posts(probe \o <<"reconcile">>),
   priorityHistory |-> Reads(<<"operations", "priority-history">>)]

AdminCalls ==
  [gatewayServicePolicy |-> Reads(<<"admin", "gateway", "service-policy">>),
   gatewayServicePolicyConfirmed |-> Posts(<<"admin", "gateway", "service-policy">>),
   status |-> Reads(<<"admin", "status">>),
   backendCheck |-> Reads(<<"admin", "backend-check">>),
   draw |-> Posts(<<"admin", "draw">>),
   reset |-> Posts(<<"admin", "reset">>),
   records |-> Reads(<<"admin", "records">>),
   deleteRecord |-> Http("DELETE", <<"admin", "records", "id">>),
   creditTest |-> Posts(<<"admin", "credit-test">>),
   serviceStatus |-> Reads(<<"status">>),
   scores |-> Reads(<<"scores">>),
   ranking |-> Reads(<<"ranking">>),
   lottery |-> Reads(<<"lottery">>),
   workflowSubmit |-> Posts(<<"admin", "workflows">>),
   workflowStatus |-> Reads(<<"admin", "workflows", "id">>)]

UpstreamCalls ==
  [upstreams |-> Reads(<<"upstreams">>),
   upstreamCreate |-> Posts(<<"upstreams">>),
   upstreamUpdate |-> Http("PATCH", <<"upstreams", "7">>),
   upstreamRecharge |-> Posts(<<"upstreams", "7", "recharge">>),
   upstreamRecover |-> Posts(<<"upstreams", "recover">>),
   upstreamJob |-> Reads(<<"upstreams", "jobs", "id">>),
   upstreamBenchmarks |-> Reads(<<"upstreams", "benchmarks">>),
   upstreamBenchmark |-> Posts(<<"upstreams", "7", "benchmark">>),
   upstreamBenchmarkDetail |-> Reads(<<"upstreams", "benchmarks", "id">>),
   upstreamBenchmarkHistory |-> Reads(<<"upstreams", "7", "benchmarks">>),
   upstreamUsage |-> Posts(<<"upstreams", "usage">>),
   upstreamModelsSync |-> Posts(<<"upstreams", "models-sync">>),
   upstreamUsageCache |-> Posts(<<"internal", "upstream-usage-cache">>),
   upstreamUsageCacheRead |-> Reads(<<"upstreams", "usage-cache">>),
   upstreamUsageCacheRestore |-> Posts(<<"upstreams", "usage-cache", "restore">>),
   quotaMonitorSnapshot |-> Reads(<<"upstreams", "quota-monitor-snapshot">>),
   quotaMonitorUsage |-> Reads(<<"upstreams", "quota-monitor-usage">>),
   upstreamQuotaSummary |-> Reads(<<"upstreams", "quota-summary">>),
   upstreamRechargeCandidates |-> Reads(<<"upstreams", "recharge-candidates">>),
   upstreamTemplate |-> Posts(<<"upstreams", "template">>),
   upstreamInitialize |-> Posts(<<"upstreams", "initialize">>),
   upstreamIsolation |-> Posts(<<"upstreams", "isolation">>),
   upstreamOperation |-> Reads(<<"internal", "upstream-operations", "id">>),
   completeUpstreamOperation |-> Posts(<<"internal", "upstream-operations", "id", "complete">>)]

AccountCalls ==
  LET purchases == <<"bugteam", "purchase">> IN
  [oauthRuntimeSummary |-> Reads(<<"oauth", "runtime-summary">>),
   accountImport |-> Posts(<<"account-import", "jobs">>),
   accountImportStatus |-> Reads(<<"account-import", "jobs", "id">>),
   accountImportWorkerJob |-> Reads(<<"internal", "account-import-jobs", "id">>),
   updateAccountImportWorkerJob |-> Posts(<<"internal", "account-import-jobs", "id">>),
   bugTeamPurchaseOptions |-> Reads(purchases \o <<"options">>),
   bugTeamCostSummary |-> Reads(<<"bugteam", "cost-monitor">>),
   bugTeamCostSample |-> Posts(<<"bugteam", "cost-monitor", "sample">>),
   bugTeamPurchaseImport |-> Posts(purchases \o <<"jobs">>),
   bugTeamPurchaseImportStatus |-> Reads(purchases \o <<"jobs", "id">>),
   bugTeamPurchaseWorkerJob |-> Reads(<<"internal", "bugteam-purchase-jobs", "id">>),
   updateBugTeamPurchaseWorkerJob |-> Posts(<<"internal", "bugteam-purchase-jobs", "id">>),
   accountLifecycleDetect |-> Posts(<<"account-lifecycle", "jobs">>),
   accountLifecycleStatus |-> Reads(<<"account-lifecycle", "jobs", "id">>),
   accountLifecycleWorkerJob |-> Reads(<<"internal", "account-lifecycle-jobs", "id">>),
   updateAccountLifecycleWorkerJob |-> Posts(<<"internal", "account-lifecycle-jobs", "id">>),
   accountLifecycleSettle |-> Posts(<<"account-lifecycle", "jobs", "id", "settle">>),
   inspectAccounts |-> Posts(<<"admin", "accounts", "inspect">>),
   disableLunaForAccounts |-> Posts(<<"admin", "accounts", "disable-luna">>),
   deleteAccounts |-> Posts(<<"admin", "accounts", "delete">>)]

ReportCalls ==
  [accountBatchEconomics |-> Posts(<<"admin", "accounts", "economics">>),
   accountImportEconomics |-> Posts(<<"admin", "accounts", "import-economics">>),
   oauthPoolEconomics |-> Posts(<<"admin", "accounts", "oauth-economics">>),
   alipayRevenue |-> Posts(<<"admin", "payments", "alipay-revenue">>),
   addCash |-> Posts(<<"operations", "cash">>),
   userBalanceLiability |-> Reads(<<"admin", "users", "balance-liability">>),
   dailyProfitFacts |-> Posts(<<"admin", "profit", "daily-facts">>),
   dailyProfit |-> Posts(<<"admin", "profit", "daily">>),
   ledger |-> Reads(<<"operations", "ledger">>),
   observationReport |-> Reads(<<"observability", "report">>),
   observationCosts |-> Reads(<<"observability", "costs">>),
   observationGet |-> Reads(<<"observability", "reports", "id">>),
   readStatus |-> Reads(<<"admin", "read-status">>),
   schedulingRuntime |-> Reads(<<"admin", "scheduling-runtime">>),
   errorAggregate |-> Reads(<<"admin", "errors", "aggregate">>),
   errorDiagnose |-> Reads(<<"admin", "errors", "diagnose">>),
   errorList |-> Reads(<<"admin", "errors">>),
   errorRequest |-> Reads(<<"admin", "errors", "id">>),
   externalCutoffMatches |-> Reads(<<"admin", "external-cutoff", "matches">>),
   cooldownDiagnosis |-> Reads(<<"admin", "errors", "cooldowns">>),
   userImpact |-> Posts(<<"admin", "users", "impact">>),
   executeOperation |-> Posts(<<"internal", "execute-operation">>),
   sub2ApiRead |-> Posts(<<"internal", "sub2api-read">>)]

Client == SchedulingCalls @@ AdminCalls @@ UpstreamCalls @@ AccountCalls @@ ReportCalls

\* How a caller waits for a job.
Polls == {"workflowStatus", "upstreamJob", "upstreamBenchmarkDetail", "accountImportStatus",
          "bugTeamPurchaseImportStatus", "accountLifecycleStatus"}

-----------------------------------------------------------------------------
(* The commands *)

\* needs: the options without which the command fails.  asks: who asks for the
\* confirmation, the command line with a preview, the API with a rehearsal, or
\* nobody.  key: what makes a repeated write recognisable.
Line(words, needs, asks, key, calls) ==
  [words |-> words, needs |-> needs, asks |-> asks, key |-> key, calls |-> calls]
Shows(words, needs, calls) == Line(words, needs, "nobody", "none", calls)
Previews(words, needs, calls) == Line(words, needs, "preview", "fresh", calls)
Rehearses(words, needs, calls) == Line(words, needs, "rehearsal", "fresh", calls)

\* These two ask nobody and write: the detected rates become the names and rates
\* of the accounts, and a probed account gets a group and a key to be probed with.
\* The probe is made in Sub2API directly.
UpstreamUsage == Line(<<"upstreams", "usage">>, {}, "nobody", "fresh", <<"upstreamUsage">>)
MathProbe == Line(<<"accounts", "math-probe">>, {"scope", "accounts"}, "nobody", "fresh", <<"probe">>)
Unasked == {UpstreamUsage, MathProbe}

UpstreamLines == {
  UpstreamUsage,
  Shows(<<"upstreams", "list">>, {}, <<"upstreams">>),
  Previews(<<"upstreams", "models", "sync">>, {"accounts"}, <<"upstreamModelsSync">>),
  Shows(<<"upstreams", "usage-cache">>, {}, <<"upstreamUsageCacheRead">>),
  Rehearses(<<"upstreams", "usage-cache", "restore">>, {"id", "base-url", "remaining-usd"},
            <<"upstreamUsageCacheRestore">>),
  Shows(<<"upstreams", "quota-monitor", "snapshot">>, {}, <<"quotaMonitorSnapshot">>),
  Shows(<<"upstreams", "quota-monitor", "measure">>, {},
        <<"upstreams", "upstreamUsageCacheRead", "quotaMonitorUsage", "upstreamQuotaSummary">>),
  Shows(<<"upstreams", "quota-summary">>, {}, <<"upstreamQuotaSummary">>),
  Shows(<<"upstreams", "recharge-candidates">>, {}, <<"upstreamRechargeCandidates">>),
  Shows(<<"upstreams", "benchmark", "list">>, {}, <<"upstreamBenchmarks">>),
  Previews(<<"upstreams", "benchmark">>, {"id"}, <<"upstreamBenchmark">>),
  Shows(<<"upstreams", "benchmark-status">>, {"id"}, <<"upstreamBenchmarkDetail">>),
  Shows(<<"upstreams", "benchmark-history">>, {"id"}, <<"upstreamBenchmarkHistory">>),
  Previews(<<"upstreams", "template">>, {}, <<"upstreamTemplate">>),
  Previews(<<"upstreams", "initialize">>, {"accounts"}, <<"upstreamInitialize">>),
  Previews(<<"upstreams", "isolation">>, {"accounts"}, <<"upstreamIsolation">>),
  Shows(<<"upstreams", "status">>, {"id"}, <<"upstreamJob">>),
  Previews(<<"upstreams", "create">>, {"platform", "base-url", "suffix", "groups", "api-key-stdin"},
           <<"upstreamCreate">>),
  Previews(<<"upstreams", "update">>, {"id", "change"}, <<"upstreamUpdate">>),
  Previews(<<"upstreams", "recover">>, {"accounts"}, <<"upstreamRecover">>) }

\* The wallet is read to find the account that is charged; its answer is
\* verified with the workflow and a second reading of the wallet.
Recharge == Line(<<"upstreams", "recharge">>, {"base-url", "recharge-cny"}, "preview", "printed",
                 <<"upstreams", "upstreamRecharge", "workflowStatus", "upstreams">>)
RechargeStatus == Shows(<<"upstreams", "recharge-status">>, {"id"}, <<"workflowStatus", "upstreams">>)

LedgerLines == {
  Shows(<<"payments", "alipay-revenue">>, {}, <<"alipayRevenue">>),
  Previews(<<"cash", "add">>, {"day", "direction", "category", "amount-cny", "description"}, <<"addCash">>),
  Shows(<<"cash", "ledger">>, {}, <<"ledger">>),
  Shows(<<"users", "balance-liability">>, {}, <<"userBalanceLiability">>),
  Shows(<<"users", "impact">>, {"start", "end"}, <<"userImpact">>),
  Shows(<<"profit", "daily-facts">>, {"day"}, <<"dailyProfitFacts">>),
  Shows(<<"profit", "daily">>, {}, <<"dailyProfit">>),
  Shows(<<"accounts", "economics">>, {"accounts", "cost-cny"}, <<"accountBatchEconomics">>),
  Shows(<<"accounts", "import-economics">>, {"day"}, <<"accountImportEconomics">>),
  Shows(<<"accounts", "oauth-economics">>, {}, <<"oauthPoolEconomics">>) }

\* A retirement plan refuses --confirm; its confirmation looks at the plan first.
AccountLines == {
  MathProbe,
  Shows(<<"accounts", "oauth-runtime">>, {}, <<"oauthRuntimeSummary">>),
  Shows(<<"accounts", "oauth-runtime-sample">>, {}, <<"workflowSubmit">>),
  Shows(<<"accounts", "idle-probe", "plan">>, {}, <<"idleProbePlan">>),
  Shows(<<"accounts", "idle-probe", "history">>, {}, <<"idleProbeHistory">>),
  Shows(<<"accounts", "idle-probe", "coverage">>, {}, <<"idleProbeCoverage">>),
  Previews(<<"accounts", "idle-probe", "reconcile">>, {}, <<"idleProbeReconcile">>),
  Previews(<<"accounts", "idle-probe", "run">>, {}, <<"idleProbeRun">>),
  Rehearses(<<"accounts", "delete">>, {"accounts"}, <<"deleteAccounts">>),
  Rehearses(<<"accounts", "import">>, {"file", "unit-cost-cny"}, <<"accountImport">>),
  Rehearses(<<"accounts", "lifecycle", "detect">>, {"day", "plan-type"}, <<"accountLifecycleDetect">>),
  Line(<<"accounts", "lifecycle", "retire", "plan">>, {}, "refuses", "fresh", <<"accountLifecycleDetect">>),
  Shows(<<"accounts", "lifecycle", "retire", "status">>, {"id"}, <<"accountLifecycleStatus">>),
  Previews(<<"accounts", "lifecycle", "retire", "confirm">>, {"id"},
           <<"accountLifecycleStatus", "accountLifecycleSettle">>),
  Shows(<<"accounts", "status">>, {"id"}, <<"accountImportStatus">>),
  Shows(<<"accounts", "inspect">>, {"accounts"}, <<"inspectAccounts">>),
  Rehearses(<<"accounts", "models", "disable-luna">>, {"accounts"}, <<"disableLunaForAccounts">>),
  Rehearses(<<"gateway", "service-policy">>, {}, <<"gatewayServicePolicy">>) }

SchedulingLines ==
  LET v2 == <<"upstream-scheduling-v2">> IN {
  Shows(<<"priority", "history">>, {}, <<"priorityHistory">>),
  Shows(v2 \o <<"scopes">>, {}, <<"upstreamSchedulingV2Scopes">>),
  Shows(v2 \o <<"snapshot">>, {}, <<"upstreamSchedulingV2Snapshot">>),
  Shows(v2 \o <<"plan">>, {}, <<"upstreamSchedulingV2Plan">>),
  Previews(v2 \o <<"priority-run">>, {"scope"}, <<"upstreamSchedulingV2PriorityRun">>),
  Shows(v2 \o <<"model-sync", "plan">>, {}, <<"upstreamSchedulingV2ModelSyncPlan">>),
  Shows(v2 \o <<"model-sync", "history">>, {}, <<"upstreamSchedulingV2ModelSyncHistory">>),
  Previews(v2 \o <<"model-sync", "run">>, {}, <<"upstreamSchedulingV2ModelSyncRun">>) }

ScoreLines == {
  Shows(<<"scores", "get">>, {}, <<"scores">>),
  Shows(<<"scores", "pool-quality">>, {}, <<"poolQuality">>),
  Shows(<<"scores", "pool-quality-refresh">>, {}, <<"workflowSubmit">>),
  Shows(<<"scores", "refresh">>, {}, <<"workflowSubmit">>),
  Shows(<<"scores", "rank">>, {}, <<"rankScores">>),
  Shows(<<"reads", "status">>, {}, <<"readStatus">>),
  Shows(<<"reads", "runtime">>, {"group", "platform"}, <<"schedulingRuntime">>),
  Shows(<<"reads", "query">>, {"file"}, <<"sub2ApiRead">>),
  Shows(<<"errors", "aggregate">>, {}, <<"errorAggregate">>),
  Shows(<<"errors", "diagnose">>, {}, <<"errorDiagnose">>),
  Shows(<<"errors", "cooldowns">>, {}, <<"cooldownDiagnosis">>),
  Shows(<<"errors", "inspect">>, {"request-id"}, <<"errorDiagnose", "errorRequest">>),
  Shows(<<"errors", "list">>, {}, <<"errorList">>),
  Shows(<<"errors", "external-cutoff-match">>, {}, <<"externalCutoffMatches">>),
  Shows(<<"errors", "get">>, {"request-id"}, <<"errorRequest">>),
  Shows(<<"observability", "report">>, {}, <<"observationReport">>),
  Shows(<<"observability", "costs">>, {}, <<"observationCosts">>),
  Shows(<<"observability", "get">>, {"id"}, <<"observationGet">>),
  Shows(<<"observability", "check">>, {}, <<"readStatus", "upstreamQuotaSummary", "upstreamRechargeCandidates">>) }

ServiceLines == {
  Shows(<<"backend", "check">>, {}, <<"backendCheck">>),
  Shows(<<"workflow", "status">>, {"id"}, <<"workflowStatus">>),
  Shows(<<"lottery", "status">>, {}, <<"status">>),
  Previews(<<"lottery", "draw">>, {}, <<"draw">>),
  Previews(<<"lottery", "reset">>, {}, <<"reset">>),
  Shows(<<"records", "list">>, {}, <<"records">>),
  Previews(<<"records", "delete">>, {"id"}, <<"deleteRecord">>),
  Rehearses(<<"credit", "test">>, {}, <<"creditTest">>),
  Shows(<<"api", "smoke">>, {}, <<"serviceStatus", "scores", "ranking", "lottery", "workflowSubmit">>) }

\* The purchases through the API, and those made with the vendor directly: an
\* order can be repeated with the key that its preview printed, what concerns one
\* order or one recovery repeats its own key.
BugTeamLines ==
  {Shows(<<"bugteam", "cost-monitor", "get">>, {}, <<"bugTeamCostSummary">>),
   Shows(<<"bugteam", "cost-monitor", "sample">>, {}, <<"bugTeamCostSample">>),
   Shows(<<"bugteam", "purchase-import", "options">>, {}, <<"bugTeamPurchaseOptions">>),
   Shows(<<"bugteam", "purchase-import", "status">>, {"id"}, <<"bugTeamPurchaseImportStatus">>),
   Previews(<<"bugteam", "purchase-import", "create">>, {"quantity"}, <<"bugTeamPurchaseImport">>),
   Shows(<<"bugteam", "balance">>, {}, <<"vendor">>),
   Shows(<<"bugteam", "inventory">>, {"product", "quantity"}, <<"vendor">>),
   Shows(<<"bugteam", "pickup", "order-status">>, {"id"}, <<"vendor">>),
   Shows(<<"bugteam", "pickup", "download">>, {"id", "output", "format"}, <<"vendor">>),
   Shows(<<"bugteam", "recoveries", "list">>, {}, <<"vendor">>),
   Line(<<"bugteam", "pickup", "order-create">>, {"product", "quantity"}, "preview", "printed", <<"buy">>),
   Line(<<"bugteam", "pickup", "take">>, {"id"}, "preview", "own", <<"buy">>),
   Line(<<"bugteam", "pickup", "push">>, {"id", "hub-id"}, "preview", "own", <<"buy">>),
   Line(<<"bugteam", "recoveries", "claim">>, {"id", "output", "ticket-stdin"}, "preview", "own", <<"buy">>),
   Previews(<<"bugteam", "redeem">>, {"code-stdin"}, <<"buy">>)}

Lines == UpstreamLines \cup {Recharge, RechargeStatus} \cup LedgerLines \cup AccountLines
           \cup SchedulingLines \cup ScoreLines \cup ServiceLines \cup BugTeamLines

\* runCli(): what asks the API, and what asks the vendor or Sub2API directly.
Direct(line) == line.calls[1] \in {"vendor", "buy", "probe"}
NeedsApi(line) ==
  \/ line.words[1] \in {"gateway", "upstream-scheduling-v2", "observability", "reads", "errors"}
  \/ line.words \in {<<"scores", "rank">>, <<"users", "impact">>, <<"users", "balance-liability">>,
       <<"profit", "daily-facts">>, <<"profit", "daily">>, <<"accounts", "economics">>,
       <<"accounts", "import-economics">>, <<"accounts", "oauth-economics">>, <<"accounts", "inspect">>,
       <<"upstreams", "recharge-candidates">>, <<"upstreams", "recharge-status">>,
       <<"payments", "alipay-revenue">>}
  \/ line.words[1] = "accounts" /\ line.words[2] = "lifecycle"

\* embedded(): what the default target can do without the API, as a command of
\* the dispatcher or submitted to Temporal.
Embedded(words) ==
  CASE words = <<"backend", "check">> -> "backend.check"
    [] words = <<"scores", "get">> -> "scores.get"
    [] words = <<"scores", "refresh">> -> "scores.refresh"
    [] words = <<"scores", "pool-quality-refresh">> -> "pool.quality.sample"
    [] words = <<"lottery", "status">> -> "lottery.status"
    [] words = <<"lottery", "draw">> -> "lottery.draw"
    [] words = <<"lottery", "reset">> -> "lottery.reset"
    [] words = <<"records", "list">> -> "records.list"
    [] words = <<"records", "delete">> -> "records.delete"
    [] words = <<"credit", "test">> -> "credit.test"
    [] words = <<"workflow", "status">> -> "workflow"
    [] OTHER -> "unknown"

\* The command that a line sends in the body of a request.
Sent(line) ==
  CASE line.words[1] \in {"scores", "api"} ->
         IF line.words[2] = "pool-quality-refresh" THEN "pool.quality.sample" ELSE "scores.refresh"
    [] line.words[1] = "accounts" -> "oauth.runtime.sample"
    [] OTHER -> "priority.automation.v2.run"

\* What a call does to the business.
Effect(line, call, target, confirm) ==
  IF Direct(line) THEN IF call = "vendor" THEN "sample" ELSE "business"
  ELSE IF target = "embedded"
  THEN IF Embedded(line.words) = "workflow" THEN "sample" ELSE Serve("dispatch", Embedded(line.words), confirm)
  ELSE LET route == Resolve(Client[call].method, Client[call].path)
           command == IF route.command = "body" \/ route.effect = "execute" THEN Sent(line) ELSE route.command
       IN IF route.path \in ConfirmedByBody /\ ~ confirm THEN "sample" ELSE Serve(route.effect, command, confirm)

\* A second amount only for a recharge, a retry only where a key can be repeated.
Options(line) ==
  [confirm : BOOLEAN, target : {"api", "embedded", "http"}, missing : line.needs \cup {"nothing"},
   retry : IF line.key \in {"own", "printed"} THEN BOOLEAN ELSE {FALSE},
   amount : IF line = Recharge THEN {1, 2} ELSE {1}]

Refused(line, o) ==
  \/ o.missing \in line.needs
  \/ line.asks = "refuses" /\ o.confirm
  \/ NeedsApi(line) /\ o.target # "api"
  \/ ~ Direct(line) /\ o.target = "http"
  \/ ~ Direct(line) /\ o.target = "embedded" /\ Embedded(line.words) = "unknown"

PreviewsHere(line, o) == line.asks = "preview" /\ ~ o.confirm /\ line # Recharge

\* The calls that a command makes; a recharge reads the wallet even for its preview.
Sends(line, o) ==
  IF Refused(line, o) \/ PreviewsHere(line, o) THEN <<>>
  ELSE IF o.target = "embedded" /\ ~ Direct(line) THEN <<line.calls[1]>>
  ELSE IF line = Recharge /\ ~ o.confirm THEN <<"upstreams">>
  ELSE IF line.words[1] = "gateway" /\ o.confirm THEN <<"gatewayServicePolicyConfirmed">>
  ELSE line.calls

\* Faulty: a key that is given is ignored.
KeyAlwaysNew(line, o, n, known) == IF line.key = "own" THEN 0 ELSE n

\* --idempotency-key, or a new one for each process.
Key(line, o, n, known) ==
  CASE line.key = "own" -> 0
    [] line.key = "printed" /\ o.retry -> known
    [] OTHER -> n

-----------------------------------------------------------------------------
VARIABLES
  order,      \* the command that the operator enters
  entered,    \* how often
  options,    \* what was entered: --confirm, the target, what was forgotten, ...
  queue,      \* the calls still to make; empty when the prompt is back
  noted,      \* the key that the operator was told of the last write, or of
              \* its preview before any was made; 0 for none
  intents,    \* how many writes the operator confirmed
  applied,    \* writes that took effect: key and call
  topUps,     \* workflows of recharges, by key
  wallet,     \* as it was, "changed", or without the charged account
  shown, cliFaults

cliVars == <<order, entered, options, queue, noted, intents, applied, topUps, wallet, shown, cliFaults>>

NoOptions == [confirm |-> FALSE, target |-> "api", missing |-> "nothing", retry |-> FALSE, amount |-> 1]

Init ==
  /\ order \in Lines
  /\ entered = 0 /\ queue = <<>> /\ noted = 0 /\ intents = 0 /\ applied = {}
  /\ options = NoOptions
  /\ topUps = <<>> /\ wallet = "same" /\ shown = "nothing" /\ cliFaults = 0

\* parseArgs(), runCli() up to the first call.
Enter(o) ==
  /\ queue = <<>> /\ entered < MaxProcesses
  /\ o.retry /\ order.key = "printed" => noted # 0
  /\ entered' = entered + 1
  /\ options' = o
  /\ queue' = Sends(order, o)
  /\ shown' = IF Refused(order, o) THEN "error" ELSE IF PreviewsHere(order, o) THEN "preview" ELSE "nothing"
  /\ noted' = IF order.key # "printed" \/ Refused(order, o) \/ o.retry THEN noted
              ELSE IF o.confirm THEN 0
              ELSE IF PreviewsHere(order, o) /\ intents = 0 THEN Key(order, o, entered + 1, noted) ELSE noted
  /\ intents' = IF o.confirm /\ (~ o.retry \/ intents = 0) THEN intents + 1 ELSE intents
  /\ UNCHANGED <<order, applied, topUps, wallet, cliFaults>>

ThisKey == Key(order, options, entered, noted)

\* The API accepts a recharge as a workflow, one for each key; everything else
\* that writes has taken effect.
Reaches(call) ==
  IF call = "upstreamRecharge"
  THEN /\ topUps' = [key \in DOMAIN topUps \cup {ThisKey} |->
                       IF key \in DOMAIN topUps THEN topUps[key]
                       ELSE [state |-> "running", amount |-> options.amount]]
       /\ UNCHANGED applied
  ELSE /\ applied' = IF Effect(order, call, options.target, options.confirm) = "business"
                     THEN applied \cup {<<ThisKey, call>>} ELSE applied
       /\ UNCHANGED topUps

\* Faulty: the amount of the workflow is not compared with the amount asked for.
AgreesOnKey(key, amount) == key \in DOMAIN topUps /\ topUps[key].state = "completed"

\* The checks of the accounting that the workflow reports.
Agrees(key, amount) == /\ key \in DOMAIN topUps /\ topUps[key].state = "completed"
                       /\ topUps[key].amount = amount

\* verifyRechargeWorkflow(): the state of the workflow, then the wallet as it is
\* now against what the workflow and the request say.
Verified ==
  IF wallet = "gone" THEN "missing_anchor"
  ELSE IF wallet = "changed" \/ ~ Agrees(ThisKey, options.amount) THEN "snapshot_mismatch"
  ELSE "verified"

\* A completed workflow is checked on; recharge-status asks for one that the
\* operator names, and so only learns what it says.
Answered(call) ==
  LET last == Len(queue) = 1
      state == IF ThisKey \in DOMAIN topUps THEN topUps[ThisKey].state ELSE "unknown"
      stops == call = "workflowStatus" /\ order = Recharge /\ state # "completed"
  IN
  /\ queue' = IF stops THEN <<>> ELSE Tail(queue)
  /\ shown' = IF stops THEN IF state = "failed" THEN "workflow_failed" ELSE "pending"
              ELSE IF ~ last THEN shown
              ELSE IF order # Recharge THEN "done"
              ELSE IF options.confirm THEN Verified ELSE "preview"
  /\ noted' = IF order = Recharge /\ (stops \/ last) /\ (options.confirm \/ intents = 0)
              THEN ThisKey ELSE noted

\* A call that the API answers.
Call ==
  /\ queue # <<>>
  /\ Reaches(Head(queue)) /\ Answered(Head(queue))
  /\ UNCHANGED <<order, entered, options, intents, wallet, cliFaults>>

\* No answer: the request was lost, or its effect was not.  A recharge prints
\* its key; once it was submitted only its verification is unavailable.
NoAnswer ==
  /\ queue # <<>> /\ cliFaults < MaxCliFaults
  /\ cliFaults' = cliFaults + 1
  /\ Reaches(Head(queue)) \/ UNCHANGED <<applied, topUps>>
  /\ queue' = <<>>
  /\ shown' = IF order = Recharge /\ Len(queue) < 3 /\ options.confirm THEN "unavailable" ELSE "error"
  /\ noted' = IF order = Recharge /\ options.confirm /\ Len(queue) < 4 THEN ThisKey ELSE noted
  /\ UNCHANGED <<order, entered, options, intents, wallet>>

\* A settlement is not asked for while its plan is not ready.
NotReady ==
  /\ Len(queue) = 2 /\ queue[2] = "accountLifecycleSettle"
  /\ queue' = <<>> /\ shown' = "error"
  /\ UNCHANGED <<order, entered, options, noted, intents, applied, topUps, wallet, cliFaults>>

\* The worker books a recharge under its key, or fails.
Work(key) ==
  /\ topUps[key].state = "running"
  /\ \/ /\ topUps' = [topUps EXCEPT ![key].state = "completed"]
        /\ applied' = applied \cup {<<key, "upstreamRecharge">>}
        /\ UNCHANGED cliFaults
     \/ /\ cliFaults < MaxCliFaults /\ cliFaults' = cliFaults + 1
        /\ topUps' = [topUps EXCEPT ![key].state = "failed"]
        /\ UNCHANGED applied
  /\ UNCHANGED <<order, entered, options, queue, noted, intents, wallet, shown>>

\* Others recharge the wallet, or delete the account that is charged.
WalletChanges ==
  /\ order = Recharge /\ wallet = "same" /\ cliFaults < MaxCliFaults
  /\ cliFaults' = cliFaults + 1
  /\ wallet' \in {"changed", "gone"}
  /\ UNCHANGED <<order, entered, options, queue, noted, intents, applied, topUps, shown>>

Next ==
  \/ \E o \in Options(order) : Enter(o)
  \/ Call \/ NoAnswer \/ NotReady \/ WalletChanges
  \/ \E key \in DOMAIN topUps : Work(key)

Spec == Init /\ [][Next]_cliVars

-----------------------------------------------------------------------------
(* Properties *)

\* What takes effect: a recharge when it is booked, everything else at once.
Writes(line, call, o) == call = "upstreamRecharge" \/ Effect(line, call, o.target, o.confirm) = "business"

\* A command writes with one call, whichever way it is entered.
Writer(line) ==
  CHOOSE writer \in ToSet(line.calls) \cup DOMAIN Client :
    \A o \in Options(line) : \A call \in ToSet(Sends(line, o)) : Writes(line, call, o) => call = writer

\* Who entered this asked for a write: with --confirm, or with one of the two
\* commands that write without it.
Asks(line, o) == o.confirm \/ line \in Unasked

\* How many writes were asked for: each confirmed one, and each entry of those two.
Asked == IF order \in Unasked THEN entered ELSE intents

\* Of the table of commands: a call of a command that was not confirmed writes for
\* `upstreams usage` and `accounts math-probe` only, and of each command it is
\* always the same call that writes.
WritesAreAsked ==
  \A line \in Lines : \A o \in Options(line) :
    /\ Sends(line, o) \in Seq(STRING)
    /\ \A call \in ToSet(Sends(line, o)) : Writes(line, call, o) => Asks(line, o) /\ call = Writer(line)

TypeInv ==
  /\ order \in Lines /\ options \in Options(order)
  /\ queue \in Seq(ToSet(Sends(order, options)))
  /\ entered \in Nat /\ intents \in Nat /\ noted \in 0 .. entered
  /\ order.key # "printed" => noted = 0
  /\ topUps \in [DOMAIN topUps -> [state : {"running", "completed", "failed"}, amount : {1, 2}]]

\* What is written has keys that were wanted, no more keys than writes were; the
\* key that repeats a write is among them as soon as a write was confirmed.
KeysInv ==
  \E wanted \in SUBSET (0 .. entered) :
    /\ Cardinality(wanted) <= Asked
    /\ Asks(order, options) /\ queue # <<>> => ThisKey \in wanted
    /\ intents > 0 /\ (order.key = "own" \/ noted # 0) => noted \in wanted
    /\ DOMAIN topUps \subseteq wanted
    /\ applied \subseteq wanted \X {Writer(order)}

\* What is completed is booked, and what is verified was completed.
BookedInv ==
  /\ \A key \in DOMAIN topUps :
       /\ Writer(order) = "upstreamRecharge"
       /\ topUps[key].state = "completed" => <<key, "upstreamRecharge">> \in applied
  /\ shown = "verified" => queue = <<>> /\ Agrees(ThisKey, options.amount)

CommandInv == TypeInv /\ KeysInv /\ BookedInv

\* Nothing happens to the business that the operator did not confirm, be it by a
\* preview that the command line makes or a rehearsal that the API makes, and a
\* process writes once; a write whose key is repeated after a lost answer does
\* not happen again.  `upstreams usage` and `accounts math-probe` write without
\* being confirmed, at most once each time that they are entered.
EffectsAreAsked == Cardinality(applied) <= Asked

\* A recharge shown as verified was booked, with the amount of this command.
VerifiedIsBooked ==
  shown = "verified" =>
    /\ <<ThisKey, "upstreamRecharge">> \in applied
    /\ topUps[ThisKey].amount = options.amount

\* The call under way reaches the route that was written for it: no word of its
\* path is taken for an id, no id for a word, and what a job is waited for with is
\* never answered from the cache.
CallsFindTheirRoute ==
  \A call \in {queue[i] : i \in DOMAIN queue \cap {1}} \cap DOMAIN Client :
    LET path == Client[call].path
        route == Resolve(Client[call].method, path)
    IN /\ route # NotFound
       /\ \A i \in DOMAIN path : path[i] \in Parameters <=> route.path[i] \in {"*", "#"}
       /\ call \in Polls => ~ Cacheable(Client[call].method, path)
=============================================================================
