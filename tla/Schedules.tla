------------------------------- MODULE Schedules -------------------------------
(***************************************************************************)
(* The periodic work of the production worker.  Every schedule is one      *)
(* Temporal workflow execution under a fixed workflow id that loops: call  *)
(* the API for one round, sleep, repeat.  The Go worker creates, replaces  *)
(* and terminates these executions in ensureSchedules, once when it starts *)
(* and then from a watchdog every 30 seconds.  A round runs in the API     *)
(* process, which outlives both the activity that asked for it and the     *)
(* execution that waits for it; idle probes guard against a second round   *)
(* of the same scope with a set of running scopes.                         *)
(*                                                                         *)
(* An execution is "scheduled" (its next step is to call the API),         *)
(* "running" (it waits for a round), "sleeping", or "stopped".  A cadence  *)
(* stands for the workflow's whole input: interval, round timeout, limits. *)
(***************************************************************************)
EXTENDS Naturals, FiniteSets

CONSTANTS
  Score,        \* score schedules: the workflow id contains the interval
  Quota,        \* the sampling schedule
  IdleProbe,    \* one idle probe schedule per scope
  Plain,        \* BugTeam cost, priority automation and model sync schedules
  Configs,      \* the configurations the worker may be started with
  MaxFaults     \* bound: failures of the worker, the API and Temporal

Schedules == Score \cup Quota \cup IdleProbe \cup Plain

ASSUME KindsAreDisjoint ==
  /\ Score \cap (Quota \cup IdleProbe \cup Plain) = {}
  /\ Quota \cap (IdleProbe \cup Plain) = {}
  /\ IdleProbe \cap Plain = {}

ASSUME ConfigsAssumption ==
  \A c \in Configs : c.enabled \subseteq Schedules

ASSUME MaxFaultsAssumption == MaxFaults \in Nat

Cadences == {c.cadence : c \in Configs}

VARIABLES
  worker,    \* "down", "starting" (first ensureSchedules), "watching"
  config,    \* the configuration of the current (or last) worker process
  todo,      \* schedules the ensureSchedules call in progress has yet to visit
  state,     \* state of each workflow execution
  cadence,   \* the input each execution was started with
  busy,      \* runningScopes of the idle probe service
  rounds,    \* idle probe rounds being executed by the API, per scope
  awaited,   \* scopes whose round in the API is the one their execution awaits
  faults     \* failures so far

temporal == <<state, cadence>>
api      == <<busy, rounds>>
vars     == <<worker, config, todo, temporal, api, awaited, faults>>

Init ==
  /\ worker = "down"
  /\ config \in Configs
  /\ todo = {}
  /\ state = [s \in Schedules |-> "stopped"]
  /\ cadence = [s \in Schedules |-> config.cadence]
  /\ busy = {}
  /\ rounds = [p \in IdleProbe |-> 0]
  /\ awaited = {}
  /\ faults = 0

Fault == faults < MaxFaults /\ faults' = faults + 1

-----------------------------------------------------------------------------
(* ensureSchedules *)

\* The order in which ensureSchedules visits the schedules: the disabled ones
\* of a kind are stopped before the enabled ones are started.
Rank(s) ==
  LET off == IF s \in config.enabled THEN 1 ELSE 0
  IN  CASE s \in Score     -> off
        [] s \in Quota     -> 2 + off
        [] s \in IdleProbe -> 4 + off
        [] OTHER           -> 6 + off

IsNext(s) == s \in todo /\ \A t \in todo : Rank(s) <= Rank(t)

\* Mutants of Replaces: the watchdog replaces the sampling schedule too; no
\* call replaces it.
ReplacesAlways(s) == s \in IdleProbe \cup Quota
ReplacesProbes(s) == s \in IdleProbe

\* Whether ensureSchedules starts s with the conflict policy that terminates
\* a running execution.  Idle probes always do.
Replaces(s) == s \in IdleProbe \/ (s \in Quota /\ worker = "starting")

\* Mutant: the watchdog does not restore what is missing.
StartsAtStartup(s) == Replaces(s) \/ (state[s] = "stopped" /\ worker = "starting")
Starts(s) == Replaces(s) \/ state[s] = "stopped"

\* Mutant: disabled monitors and automations are left running.
TerminatesProbes(s) == s \in IdleProbe

\* Schedules that ensureSchedules terminates when they are disabled.
Terminates(s) == s \in IdleProbe \cup Plain

StartFresh(s) ==
  /\ state' = [state EXCEPT ![s] = "scheduled"]
  /\ cadence' = [cadence EXCEPT ![s] = config.cadence]
  /\ awaited' = awaited \ {s}

\* The call's last schedule is done: the watchdog takes over.
Visited(s) ==
  /\ todo' = todo \ {s}
  /\ worker' = IF todo' = {} THEN "watching" ELSE worker

EnsureStart(s) ==
  /\ IsNext(s)
  /\ s \in config.enabled
  /\ IF Starts(s)
       THEN StartFresh(s)
       ELSE UNCHANGED <<temporal, awaited>>
  /\ Visited(s)
  /\ UNCHANGED <<config, api, faults>>

EnsureStop(s) ==
  /\ IsNext(s)
  /\ s \notin config.enabled
  /\ IF Terminates(s)
       THEN /\ state' = [state EXCEPT ![s] = "stopped"]
            /\ awaited' = awaited \ {s}
            /\ UNCHANGED cadence
       ELSE UNCHANGED <<temporal, awaited>>
  /\ Visited(s)
  /\ UNCHANGED <<config, api, faults>>

\* A Temporal call fails: the worker's start fails, the watchdog gives up
\* until its next tick.
EnsureFails ==
  /\ todo # {}
  /\ Fault
  /\ todo' = {}
  /\ worker' = IF worker = "starting" THEN "down" ELSE worker
  /\ awaited' = IF worker = "starting" THEN {} ELSE awaited
  /\ UNCHANGED <<config, temporal, api>>

-----------------------------------------------------------------------------
(* The worker process *)

Boot ==
  /\ worker = "down"
  /\ worker' = "starting"
  /\ config' \in Configs
  /\ todo' = Schedules
  /\ UNCHANGED <<temporal, api, awaited, faults>>

\* The watchdog's ticker.
Tick ==
  /\ worker = "watching"
  /\ todo = {}
  /\ todo' = Schedules
  /\ UNCHANGED <<worker, config, temporal, api, awaited, faults>>

\* The worker stops or dies: what its activities would answer is lost.
WorkerExits ==
  /\ worker # "down"
  /\ Fault
  /\ worker' = "down"
  /\ todo' = {}
  /\ awaited' = {}
  /\ UNCHANGED <<config, temporal, api>>

\* An execution disappears under a running worker.
Lost(s) ==
  /\ state[s] # "stopped"
  /\ Fault
  /\ state' = [state EXCEPT ![s] = "stopped"]
  /\ awaited' = awaited \ {s}
  /\ UNCHANGED <<worker, config, todo, cadence, api>>

-----------------------------------------------------------------------------
(* The schedule workflows and the rounds they ask for *)

To(s, from, to) == state[s] = from /\ state' = [state EXCEPT ![s] = to]

StartRound(s) ==
  /\ s \notin IdleProbe
  /\ worker # "down"
  /\ To(s, "scheduled", "running")
  /\ UNCHANGED <<worker, config, todo, cadence, api, awaited, faults>>

\* The round answers, fails or exceeds its ScheduleToCloseTimeout: the
\* workflow ignores the result.
EndRound(s) ==
  /\ s \notin IdleProbe
  /\ worker # "down"
  /\ To(s, "running", "sleeping")
  /\ UNCHANGED <<worker, config, todo, cadence, api, awaited, faults>>

\* The timer fires; after the last iteration the workflow continues as new
\* with the same input.
Wake(s) ==
  /\ worker # "down"
  /\ To(s, "sleeping", "scheduled")
  /\ UNCHANGED <<worker, config, todo, cadence, api, awaited, faults>>

EnterProbe(p) ==
  /\ busy' = busy \cup {p}
  /\ rounds' = [rounds EXCEPT ![p] = @ + 1]

StartProbe(p) ==
  /\ worker # "down"
  /\ p \notin busy
  /\ To(p, "scheduled", "running")
  /\ EnterProbe(p)
  /\ awaited' = awaited \cup {p}
  /\ UNCHANGED <<worker, config, todo, cadence, faults>>

\* Mutant: the answer of a skipped round takes the scope out of the set.
SkipProbeFreeing(p) ==
  /\ worker # "down"
  /\ p \in busy
  /\ To(p, "scheduled", "sleeping")
  /\ busy' = busy \ {p}
  /\ UNCHANGED <<worker, config, todo, cadence, rounds, awaited, faults>>

\* The scope is in flight: the API answers at once that it skipped the round.
SkipProbe(p) ==
  /\ worker # "down"
  /\ p \in busy
  /\ To(p, "scheduled", "sleeping")
  /\ UNCHANGED <<worker, config, todo, cadence, api, awaited, faults>>

\* An operator asks for a round of the scope by hand.
ManualProbe(p) ==
  /\ worker # "down"
  /\ p \notin busy
  /\ EnterProbe(p)
  /\ UNCHANGED <<worker, config, todo, temporal, awaited, faults>>

\* Mutant: only a round somebody still waits for takes its scope out of the set.
EndProbeKeepingScope(p) ==
  /\ rounds[p] > 0
  /\ rounds' = [rounds EXCEPT ![p] = @ - 1]
  /\ IF p \in awaited
       THEN busy' = busy \ {p} /\ state' = [state EXCEPT ![p] = "sleeping"]
       ELSE UNCHANGED <<busy, state>>
  /\ awaited' = awaited \ {p}
  /\ UNCHANGED <<worker, config, todo, cadence, faults>>

\* The round's body ends, with a result or an error, awaited or not.
EndProbe(p) ==
  /\ rounds[p] > 0
  /\ rounds' = [rounds EXCEPT ![p] = @ - 1]
  /\ busy' = busy \ {p}
  /\ state' = IF p \in awaited THEN [state EXCEPT ![p] = "sleeping"] ELSE state
  /\ awaited' = awaited \ {p}
  /\ UNCHANGED <<worker, config, todo, cadence, faults>>

\* The activity exceeds its timeout; the body goes on in the API.
ProbeTimesOut(p) ==
  /\ worker # "down"
  /\ To(p, "running", "sleeping")
  /\ awaited' = awaited \ {p}
  /\ UNCHANGED <<worker, config, todo, cadence, api, faults>>

\* The API process restarts: its rounds are gone, the activities fail.
ApiRestarts ==
  /\ Fault
  /\ busy' = {}
  /\ rounds' = [p \in IdleProbe |-> 0]
  /\ state' = [s \in Schedules |-> IF s \in awaited THEN "sleeping" ELSE state[s]]
  /\ awaited' = {}
  /\ UNCHANGED <<worker, config, todo, cadence>>

-----------------------------------------------------------------------------
EnsureStep == \E s \in Schedules : EnsureStart(s) \/ EnsureStop(s)
Loop(s)    == StartRound(s) \/ EndRound(s) \/ Wake(s)
Probe(p)   == StartProbe(p) \/ SkipProbe(p) \/ EndProbe(p) \/ ProbeTimesOut(p)

Next ==
  \/ EnsureStep \/ EnsureFails \/ Boot \/ Tick \/ WorkerExits \/ ApiRestarts
  \/ \E s \in Schedules : Lost(s) \/ Loop(s)
  \/ \E p \in IdleProbe : Probe(p) \/ ManualProbe(p)

Spec == Init /\ [][Next]_vars

(***************************************************************************)
(* A supervisor restarts the worker, the ticker fires, ensureSchedules and *)
(* the workflows make progress, a probe round ends (each request in it has *)
(* a timeout), and Temporal times out an activity that does not answer.    *)
(***************************************************************************)
Fairness ==
  /\ WF_vars(Boot) /\ WF_vars(EnsureStep) /\ WF_vars(Tick)
  /\ \A s \in Schedules : WF_vars(StartRound(s)) /\ WF_vars(EndRound(s)) /\ WF_vars(Wake(s))
  /\ \A p \in IdleProbe :
       /\ WF_vars(StartProbe(p)) /\ WF_vars(SkipProbe(p))
       /\ WF_vars(EndProbe(p)) /\ WF_vars(ProbeTimesOut(p))

FairSpec == Spec /\ Fairness

-----------------------------------------------------------------------------
(* Properties *)

\* The type invariant: every variable of the worker, the Temporal executions
\* and the API's probe service keeps its type.
TypeOK ==
  /\ worker \in {"down", "starting", "watching"}
  /\ config \in Configs
  /\ todo \subseteq Schedules
  /\ state \in [Schedules -> {"stopped", "scheduled", "running", "sleeping"}]
  /\ cadence \in [Schedules -> Cadences]
  /\ busy \subseteq IdleProbe
  /\ rounds \in [IdleProbe -> Nat]
  /\ awaited \subseteq IdleProbe
  /\ faults \in 0 .. MaxFaults

\* The API never runs two idle probe rounds of one scope at the same time,
\* though replaced and timed-out executions leave rounds behind and operators
\* start rounds by hand (runningScopes in IdleAccountProbeService.run).
OneRoundPerScope == \A p \in IdleProbe : rounds[p] <= 1

\* Once a worker has started, sampling and idle probe executions run with the
\* inputs of the worker's configuration, whatever an earlier worker with
\* another configuration left behind (the conflict policy in ensureSchedules).
CadenceIsCurrent ==
  worker = "watching" =>
    \A s \in Quota \cup IdleProbe :
      s \in config.enabled /\ state[s] # "stopped" => cadence[s] = config.cadence

\* Once a worker has started, no execution of a scope or monitor that its
\* configuration disables is left (terminateIfRunning in ensureSchedules).
DisabledIsOff ==
  worker = "watching" =>
    \A s \in IdleProbe \cup Plain : s \notin config.enabled => state[s] = "stopped"

\* What the watchdog must not do: replace an execution with a round in flight.
LeftAlone(S) ==
  \A s \in S : worker = "watching" /\ state[s] = "running" => state'[s] # "scheduled"

\* Sampling, score, priority, cost and model sync rounds survive the watchdog
\* (ensureSchedules with replaceQuota = false).
SamplingKeepsRunning == [][LeftAlone(Schedules \ IdleProbe)]_vars

\* The same of idle probe rounds, which ensureSchedules replaces on every call
\* although its comment speaks of startup.
ProbingKeepsRunning == [][LeftAlone(IdleProbe)]_vars

\* After the last failure the executions are what the configuration says:
\* enabled ones exist, disabled scopes have none (watchSchedules).
RestoredInTheEnd ==
  <>[](\A s \in Schedules : IF s \in config.enabled THEN state[s] # "stopped"
                            ELSE Terminates(s) => state[s] = "stopped")

\* An enabled scope is probed again and again: neither the in-flight guard
\* nor the replacement of the execution by every tick starves it.
ProbesKeepComing ==
  \A p \in IdleProbe :
    <>[](p \in config.enabled) => []<>(p \in busy) /\ []<>(p \notin busy)
=============================================================================
