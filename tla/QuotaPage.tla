------------------------------- MODULE QuotaPage -------------------------------
(***************************************************************************)
(* The quota page of the browser (quotaMonitorPage() in src/static/app.js) *)
(* over the quota summary that the API keeps in memory and in PostgreSQL   *)
(* (upstreamQuotaSummary() in src/src/operations-service.ts).              *)
(*                                                                         *)
(* A pass reads the accounts, then usage and summary together, and shows   *)
(* them at once.  Passes are made when the page opens, by the button, by a *)
(* timer, and after a sampling that was asked for.  A summary is known by  *)
(* the time of its capture and the wallets that were configured.           *)
(***************************************************************************)
EXTENDS Integers, FiniteSets

CONSTANTS
  MaxTime,    \* bound: time
  MaxPasses,  \* bound: passes and reads by others
  Ttl,        \* readModelCacheSeconds
  Nothing     \* no summary

VARIABLES
  now,
  config,     \* the excluded wallets: FALSE before and TRUE after a reload
  memory,     \* quotaSummaryCache
  persisted,  \* the snapshot in PostgreSQL
  builds,     \* builds of a summary under way
  inFlight,   \* quotaSummaryInFlight: the build that readers join
  passes,     \* passes of the page and reads by others under way
  count,      \* passes so far
  loading,    \* quotaMonitorLoading
  timers,     \* timers that are set
  held,       \* quotaMonitorAutoTimer: the timer set last
  shown       \* what the page shows, and the pass that read it

summaryVars == <<memory, persisted, builds, inFlight>>
pageVars == <<loading, timers, held, shown>>
vars == <<now, config, count, passes, summaryVars, pageVars>>

\* The pass made when the page opens is under way, or over.
Init ==
  /\ now = 0 /\ config = FALSE
  /\ memory = Nothing /\ persisted \in {Nothing, [at |-> 0, config |-> FALSE]}
  /\ builds = {} /\ inFlight = 0
  /\ count \in 0 .. 1
  /\ passes = {[id |-> 1, by |-> "boot", auto |-> FALSE, start |-> 0, config |-> FALSE, stage |-> "accounts",
                build |-> 0, joined |-> FALSE, summary |-> Nothing] : i \in 1 .. count}
  /\ loading = FALSE /\ timers = {1} /\ held = 1
  /\ shown = [summary |-> Nothing, pass |-> Nothing, whole |-> FALSE]

Pass(by, auto, stage) ==
  [id |-> count + 1, by |-> by, auto |-> auto, start |-> now, config |-> FALSE, stage |-> stage,
   build |-> 0, joined |-> FALSE, summary |-> Nothing]
\* Others go away with their answer.
Stays(pass) == pass.by # "other" \/ pass.stage # "answered"
Becomes(pass, next) == passes' = (passes \ {pass}) \cup {p \in {next} : Stays(p)}
Answered(failed, summary) ==
  {p \in {IF pass.stage = "waits" /\ pass.build \in failed
          THEN [pass EXCEPT !.stage = "answered", !.summary = summary, !.build = 0] ELSE pass : pass \in passes} : Stays(p)}

-----------------------------------------------------------------------------
(* The summary in the API *)

\* Faulty: a summary is used until the next one is asked for by force.
NeverOld(summary, wallets) == summary # Nothing /\ summary.config = wallets

Usable(summary, wallets) ==
  summary # Nothing /\ summary.config = wallets /\ now - summary.at <= Ttl

\* A usable summary in memory, else the build under way, else PostgreSQL is asked.
AskSummary(pass) ==
  /\ pass.stage = "ask"
  /\ \/ Usable(memory, config)
        /\ Becomes(pass, [pass EXCEPT !.config = config, !.stage = "answered", !.summary = memory])
     \/ ~Usable(memory, config) /\ inFlight # 0
        /\ Becomes(pass, [pass EXCEPT !.config = config, !.stage = "waits", !.build = inFlight, !.joined = TRUE])
     \/ ~Usable(memory, config) /\ inFlight = 0
        /\ Becomes(pass, [pass EXCEPT !.config = config, !.stage = "persisted"])
  /\ UNCHANGED <<now, config, count, summaryVars, pageVars>>

\* What PostgreSQL holds replaces what is in memory; a build starts if it cannot be used.
PersistedSummary(pass) ==
  /\ pass.stage = "persisted"
  /\ memory' = IF persisted = Nothing THEN memory ELSE persisted
  /\ IF Usable(persisted, pass.config)
     THEN /\ Becomes(pass, [pass EXCEPT !.stage = "answered", !.summary = persisted])
          /\ UNCHANGED <<builds, inFlight>>
     ELSE /\ Becomes(pass, [pass EXCEPT !.stage = "waits", !.build = pass.id])
          /\ builds' = builds \cup {[id |-> pass.id, config |-> config, summary |-> Nothing]}
          /\ inFlight' = pass.id
  /\ UNCHANGED <<now, config, count, persisted, pageVars>>

\* The summary is computed and kept in memory.
Build(build) ==
  /\ build.summary = Nothing
  /\ memory' = [at |-> now, config |-> build.config]
  /\ builds' = (builds \ {build}) \cup {[build EXCEPT !.summary = memory']}
  /\ UNCHANGED <<now, config, count, passes, persisted, inFlight, pageVars>>

\* It is persisted, unless that fails, and answered to all who wait for it.
Persist(build, ok) ==
  /\ build.summary # Nothing
  /\ persisted' = IF ok THEN build.summary ELSE persisted
  /\ builds' = builds \ {build}
  /\ inFlight' = IF inFlight = build.id THEN 0 ELSE inFlight
  /\ passes' = Answered({build.id}, build.summary)
  /\ UNCHANGED <<now, config, count, memory, pageVars>>

\* A build fails for all who wait for it; a restart of the API fails every build.
BuildsFail(failed, restart) ==
  /\ builds' = builds \ failed
  /\ inFlight' = IF restart \/ \E build \in failed : build.id = inFlight THEN 0 ELSE inFlight
  /\ memory' = IF restart THEN Nothing ELSE memory
  /\ passes' = Answered({build.id : build \in failed}, Nothing)
  /\ UNCHANGED <<now, config, count, persisted, pageVars>>

-----------------------------------------------------------------------------
(* The page *)

\* Faulty: the button, the sampling and the timer do not wait for each other.
Always == TRUE

IsFree == ~loading

Start(pass) == passes' = passes \cup {pass} /\ count' = count + 1 /\ count < MaxPasses

\* runQuotaRefresh() and runQuotaSample(), which first waits for the job.
Refresh(stage) ==
  /\ IsFree /\ loading' = TRUE
  /\ Start(Pass("user", FALSE, stage))
  /\ UNCHANGED <<now, config, summaryVars, timers, held, shown>>

\* Faulty: the timer that was set before stays set.
AddTimer == timers' = timers \cup {3 - held} /\ held' = 3 - held

\* scheduleAutoRefresh()
ScheduleAutoRefresh == timers' = (timers \ {held}) \cup {3 - held} /\ held' = 3 - held

\* The timer fires: it refreshes, unless a refresh or a sampling is under way, and is set again.
TimerFires ==
  \E timer \in timers :
    IF IsFree
    THEN /\ loading' = TRUE /\ timers' = timers \ {timer}
         /\ Start(Pass("user", TRUE, "accounts"))
         /\ UNCHANGED <<now, config, summaryVars, held, shown>>
    ELSE /\ timers' = (timers \ {timer, held}) \cup {3 - held} /\ held' = 3 - held
         /\ UNCHANGED <<now, config, count, passes, summaryVars, loading, shown>>

\* Another interval is selected.
SelectInterval ==
  /\ ScheduleAutoRefresh
  /\ UNCHANGED <<now, config, count, passes, summaryVars, loading, shown>>

\* A pass is over; the one that a timer made sets the timer again.
Ends(pass) ==
  /\ passes' = passes \ {pass}
  /\ loading' = (pass.by = "boot" /\ loading)
  /\ IF pass.auto THEN ScheduleAutoRefresh ELSE UNCHANGED <<timers, held>>

\* waitUpstreamJob() ends well, or the sampling ends without a pass.
Sampled(pass, ok) ==
  /\ pass.stage = "job"
  /\ IF ok THEN Becomes(pass, [pass EXCEPT !.start = now, !.stage = "accounts"]) /\ UNCHANGED <<loading, timers, held>>
           ELSE Ends(pass)
  /\ UNCHANGED <<now, config, count, summaryVars, shown>>

\* Without the accounts nothing is read and the page stays as it is.
Accounts(pass, ok) ==
  /\ pass.stage = "accounts"
  /\ IF ok THEN Becomes(pass, [pass EXCEPT !.stage = "ask"]) /\ UNCHANGED <<loading, timers, held>>
           ELSE Ends(pass)
  /\ UNCHANGED <<now, config, count, summaryVars, shown>>

\* All reads have ended: without a summary the last one is used again.
Show(pass) ==
  /\ pass.stage = "answered" /\ pass.by # "other"
  /\ shown' = [summary |-> IF pass.summary = Nothing THEN shown.summary ELSE pass.summary,
               pass |-> [pass EXCEPT !.stage = "answered", !.build = 0], whole |-> pass.summary # Nothing]
  /\ Ends(pass)
  /\ UNCHANGED <<now, config, count, summaryVars>>

-----------------------------------------------------------------------------
(* The rest *)

\* Somebody else reads the summary.
Other ==
  /\ Start(Pass("other", FALSE, "ask"))
  /\ UNCHANGED <<now, config, summaryVars, pageVars>>

Tick == now < MaxTime /\ now' = now + 1 /\ UNCHANGED <<config, count, passes, summaryVars, pageVars>>

Reload == ~config /\ config' = TRUE /\ UNCHANGED <<now, count, passes, summaryVars, pageVars>>

Next ==
  \/ \E pass \in passes :
       \/ AskSummary(pass) \/ PersistedSummary(pass) \/ Show(pass)
       \/ \E ok \in BOOLEAN : Sampled(pass, ok) \/ Accounts(pass, ok)
  \/ \E build \in builds : Build(build) \/ BuildsFail({build}, FALSE) \/ \E ok \in BOOLEAN : Persist(build, ok)
  \/ BuildsFail(builds, TRUE)
  \/ \E stage \in {"accounts", "job"} : Refresh(stage)
  \/ TimerFires \/ SelectInterval \/ Other \/ Tick \/ Reload

-----------------------------------------------------------------------------
(* Properties *)

\* What a pass has read in full, and did not take from a build begun before, was
\* captured at most the time to live before the pass began, however PostgreSQL
\* overtook the memory; and after a reload it leaves the configured wallets out.
ShownIsRecent ==
  shown.whole /\ ~shown.pass.joined =>
    /\ shown.summary.at + Ttl >= shown.pass.start
    /\ shown.pass.config => shown.summary.config

\* There is one timer, or the refresh that it made is under way: refreshes neither
\* stop nor multiply, whatever the operator does meanwhile.
OneTimer ==
  Cardinality(timers) + Cardinality({pass \in passes : pass.auto}) \in 1 .. 2 /\ Cardinality(timers) <= 1

\* What the page shows was never read by a pass begun after one that is still under
\* way, except by the one made when the page opens, which nothing guards: an older
\* pass does not replace what a newer one has shown.
PassesShowInOrder ==
  shown.pass # Nothing => \A pass \in passes : pass.by = "user" => pass.id > shown.pass.id

-----------------------------------------------------------------------------
(* The inductive invariant behind the properties *)

Summaries == [at : Nat, config : BOOLEAN]
PassValues ==
  [id : Nat, by : {"boot", "user", "other"}, auto : BOOLEAN, start : Nat, config : BOOLEAN,
   stage : {"job", "accounts", "ask", "persisted", "waits", "answered"},
   build : Nat, joined : BOOLEAN, summary : Summaries \cup {Nothing}]

TypeInv ==
  /\ now \in Nat /\ config \in BOOLEAN /\ count \in Nat /\ loading \in BOOLEAN
  /\ memory \in Summaries \cup {Nothing} /\ persisted \in Summaries \cup {Nothing}
  /\ builds \subseteq [id : Nat, config : BOOLEAN, summary : Summaries \cup {Nothing}]
  /\ inFlight \in Nat
  /\ passes \subseteq PassValues
  /\ held \in {1, 2} /\ timers \subseteq {held}
  /\ shown \in [summary : Summaries \cup {Nothing}, pass : PassValues \cup {Nothing}, whole : BOOLEAN]

\* Passes are numbered, and a build has the number of the pass that began it.
NumberInv ==
  /\ \A pass \in passes : pass.id \in 1 .. count
  /\ \A build \in builds : build.id <= count
  /\ \A pass, other \in passes : pass.id = other.id => pass = other
  /\ shown.pass # Nothing => shown.pass.id <= count

\* The button, the sampling and the timer wait for each other; the readers of the
\* summary go their own way.
TurnInv ==
  /\ \A pass \in passes :
       /\ pass.by = "user" => loading
       /\ pass.auto => pass.by = "user"
       /\ pass.by = "boot" => pass.id = 1
       /\ pass.by = "other" => pass.stage \notin {"job", "accounts"}
  /\ \A pass, other \in passes : pass.by = "user" /\ other.by = "user" => pass = other
  /\ timers # {} \/ \E pass \in passes : pass.auto

\* A summary is recent for the pass, and leaves out the wallets it is to leave out.
IsRecent(summary, pass) ==
  summary.at + Ttl >= pass.start /\ (pass.config => summary.config)

\* A build is as recent as the pass that began it.
BuildInv(pass) ==
  /\ pass.start <= now /\ (pass.config => config)
  /\ pass.stage \in {"job", "accounts", "ask", "persisted"} => \A build \in builds : build.id # pass.id
  /\ pass.stage = "waits" /\ ~pass.joined =>
       /\ pass.build = pass.id
       /\ \A build \in builds : build.id = pass.id =>
            /\ pass.config => build.config
            /\ build.summary # Nothing => build.summary.config = build.config /\ build.summary.at >= pass.start
  /\ pass.stage = "answered" /\ ~pass.joined /\ pass.summary # Nothing => IsRecent(pass.summary, pass)

QuotaPageInv ==
  /\ TypeInv /\ NumberInv /\ TurnInv
  /\ \A pass \in passes : BuildInv(pass)
  /\ ShownIsRecent /\ PassesShowInOrder
=============================================================================
