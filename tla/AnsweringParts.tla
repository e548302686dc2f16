----------------------------- MODULE AnsweringParts -----------------------------
(***************************************************************************)
(* The parts that answer and those that ask: read models, caches, the      *)
(* configuration in use, balances of upstreams, what a probe hears, the    *)
(* pages of the browser and the command line.                              *)
(* Their constants are those of their modules, where they are explained.   *)
(***************************************************************************)
EXTENDS Parts

CONSTANTS
  \* scores, responses, snapshot, reload
  ScoreCalls,
  Clients, Keys, MaxVersion,
  Viewers, Sections, Usage, MaxBuilds,
  Yaml, Templates,
  \* quota, stream
  Metered, Wallets, WalletOf, WindowRounds, MaxRounds, MaxOutput,
  Answers, Expected, HttpStatuses,
  \* the pages
  Scopes, MaxPages, MaxRequests,
  Sources, Zips, MaxActions,
  MaxTime, MaxPasses, Ttl,
  \* command
  MaxProcesses

ASSUME ResponsesAssumption == Off \notin Clients
ASSUME ReloadAssumption == Yaml \notin Templates
ASSUME QuotaAssumption == WalletOf \in [Metered -> Wallets]
\* An answer is a sequence of tokens.
ASSUME AnswersAssumption == \A answer \in Answers : answer \in Seq(STRING)
ASSUME PagesAssumption == Ttl \in Nat

Scores == INSTANCE ScoreReadModel WITH
  Calls <- ScoreCalls, MaxScoreFaults <- MaxFaults["scores"], persistent <- v1, row <- v2, file <- v3, memory <- v4,
  inFlight <- v5, collections <- v6, resolved <- v7, call <- v8, shown <- v9, scoreFaults <- v10

Responses == INSTANCE ResponseCache WITH
  Requests <- Clients, NoOne <- Off, MaxCacheFaults <- MaxFaults["responses"],
  request <- v1, live <- v2, entry <- v3, inflight <- v4, job <- v5, shownBody <- v6,
  cacheFaults <- v7

Snapshot == INSTANCE SchedulingSnapshot WITH
  Requests <- Viewers, MaxSnapshotFaults <- MaxFaults["snapshot"], memory <- v1, stored <- v2,
  builds <- v3, inFlight <- v4, captures <- v5, asked <- v6, newest <- v7, snapshotFaults <- v8

Reload == INSTANCE ConfigReload WITH
  MaxEdits <- MaxFaults["reload"], files <- v1, config <- v2,
  rules <- v3, fingerprint <- v4, reading <- v5, edits <- v6, overtaken <- v7

Quota == INSTANCE QuotaMonitor WITH
  Accounts <- Metered, MaxQuotaFaults <- MaxFaults["quota"], present <- v1, counter <- v2, produced <- v3,
  balance <- v4, spent <- v5, results <- v6, cache <- v7, rounds <- v8, clock <- v9,
  quotaFaults <- v10

Stream == INSTANCE ProbeStream WITH
  Statuses <- HttpStatuses, protocol <- v1, meant <- v2,
  said <- v3, upstream <- v4, doneFailing <- v5, heard <- v6, status <- v7, verdict <- v8

Scheduling == INSTANCE SchedulingPage WITH
  NoScope <- Off,
  activeScope <- v1, scopeRequestId <- v2, requests <- v3, probeRequests <- v4, snapshot <- v5,
  probe <- v6, dataState <- v7, button <- v8, refreshTimer <- v9, interval <- v10, sent <- v11

Import == INSTANCE ImportPage WITH
  Nothing <- Off,
  importInputFormat <- v1, importContent <- v2, text <- v3, readOnly <- v4, importPreview <- v5,
  previewSequence <- v6, loads <- v7, asked <- v8, submitDisabled <- v9, dialog <- v10,
  importSubmitting <- v11, submitted <- v12, overtaken <- v13, actions <- v14

\* The value that stands for nothing is neither a source nor a content.
ASSUME ImportAssumption == Off \notin Sources \cup Import!Contents \cup Import!Bodies

Page == INSTANCE QuotaPage WITH
  Nothing <- Off, now <- v1, config <- v2, memory <- v3,
  persisted <- v4, builds <- v5, inFlight <- v6, passes <- v7, count <- v8, loading <- v9,
  timers <- v10, held <- v11, shown <- v12

Command == INSTANCE CommandLine WITH
  MaxCliFaults <- MaxFaults["command"], order <- v1, entered <- v2, options <- v3, queue <- v4,
  noted <- v5, intents <- v6, applied <- v7, topUps <- v8, wallet <- v9, shown <- v10,
  cliFaults <- v11

\* What the tables of commands and routes say of writes depends on no constant: it
\* is computed.
ASSUME CommandAssumption == Command!WritesAreAsked

-----------------------------------------------------------------------------
AnsweringInit ==
  \/ part = "scores" /\ Scores!Init /\ Unused(10)
  \/ part = "responses" /\ Responses!Init /\ Unused(7)
  \/ part = "snapshot" /\ Snapshot!Init /\ Unused(8)
  \/ part = "reload" /\ Reload!Init /\ Unused(7)
  \/ part = "quota" /\ Quota!Init /\ Unused(10)
  \/ part = "stream" /\ Stream!Init /\ Unused(8)
  \/ part = "scheduling page" /\ Scheduling!Init /\ Unused(11)
  \/ part = "import page" /\ Import!Init /\ Unused(14)
  \/ part = "quota page" /\ Page!Init /\ Unused(12)
  \/ part = "command" /\ Command!Init /\ Unused(11)

AnsweringNext ==
  /\ UNCHANGED part
  /\ \/ part = "scores" /\ Scores!Next /\ Still(10)
     \/ part = "responses" /\ Responses!Next /\ Still(7)
     \/ part = "snapshot" /\ Snapshot!Next /\ Still(8)
     \/ part = "reload" /\ Reload!Next /\ Still(7)
     \/ part = "quota" /\ Quota!Next /\ Still(10)
     \/ part = "stream" /\ Stream!Next /\ Still(8)
     \/ part = "scheduling page" /\ Scheduling!Next /\ Still(11)
     \/ part = "import page" /\ Import!Next /\ Still(14)
     \/ part = "quota page" /\ Page!Next /\ Still(12)
     \/ part = "command" /\ Command!Next /\ Still(11)

AnsweringSpec == AnsweringInit /\ [][AnsweringNext]_vars

-----------------------------------------------------------------------------
(* Properties: those of the part that the behaviour examines *)

\* Scores, cached answers, snapshots, balances and the configuration are as fresh as
\* they say, and of an answer it hears the service says what it is.
AnswersAreHonest ==
  /\ part = "scores" => Scores!ScoresAreFresh
  /\ part = "responses" => Responses!AnswersNeverGoBack
  /\ part = "snapshot" => Snapshot!SnapshotsAreHonest
  /\ part = "reload" => Reload!EditsAreNoticed
  /\ part = "quota" => Quota!BalancesAreNewest
  /\ part = "stream" => Stream!QualityMeansTheSum

\* The pages show what they say and submit what was confirmed.
PagesAreHonest ==
  /\ part = "scheduling page" => Scheduling!ShowsTheScopeInView /\ Scheduling!RefreshGoesOn
  /\ part = "import page" => Import!ImportsWhatWasConfirmed /\ Import!OneImportAtATime
  /\ part = "quota page" => Page!ShownIsRecent /\ Page!OneTimer /\ Page!PassesShowInOrder

\* The command line writes what was confirmed, once, and without a confirmation only
\* what `upstreams usage` and `accounts math-probe` write, once for each entry; it says
\* of a recharge that it is verified only if it is.
CommandsAreSafe ==
  part = "command" => Command!EffectsAreAsked /\ Command!VerifiedIsBooked
=================================================================================
