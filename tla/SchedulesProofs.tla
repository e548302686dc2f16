--------------------------- MODULE SchedulesProofs ---------------------------
(* TLAPS proofs about Schedules, for any schedules, configurations and      *)
(* number of failures.                                                      *)
EXTENDS Schedules, TLAPS

\* A scope is in the running set exactly while its one round executes.
RoundsCounted == \A p \in IdleProbe : rounds[p] = IF p \in busy THEN 1 ELSE 0

\* An awaited round has an execution that waits for it.
AwaitedRuns == \A p \in awaited : state[p] = "running"

\* Only a worker that runs is in the middle of ensureSchedules.
DownIsIdle == worker = "down" => todo = {}

\* Visited by ensureSchedules since the worker started; the watchdog never
\* takes that back.
Ensured(s) == worker = "watching" \/ (worker = "starting" /\ s \notin todo)

AsConfigured(s) ==
  /\ s \in Quota \cup IdleProbe /\ s \in config.enabled /\ state[s] # "stopped"
       => cadence[s] = config.cadence
  /\ s \in IdleProbe \cup Plain /\ s \notin config.enabled => state[s] = "stopped"

ConfiguredInv == \A s \in Schedules : Ensured(s) => AsConfigured(s)

IInv == TypeOK /\ RoundsCounted /\ AwaitedRuns /\ DownIsIdle /\ ConfiguredInv

\* Initially nothing runs.
LEMMA InitInv == Init => IInv
  BY MaxFaultsAssumption
  DEF Init, IInv, TypeOK, RoundsCounted, AwaitedRuns, DownIsIdle, ConfiguredInv,
      Ensured, AsConfigured, Cadences, Schedules

\* The steps of ensureSchedules: the visited schedule is as configured after
\* the step, the others were before it.
LEMMA EnsureStartStep ==
  ASSUME IInv, NEW s \in Schedules, EnsureStart(s)
  PROVE  IInv'
<1> USE DEF IInv, EnsureStart, Visited, IsNext
<1>1. TypeOK'
  BY DEF TypeOK, StartFresh, Cadences, temporal, api
<1>2. RoundsCounted'
  BY DEF RoundsCounted, api
<1>3. AwaitedRuns'
  BY DEF AwaitedRuns, TypeOK, StartFresh, temporal, Schedules
<1>4. DownIsIdle'
  BY DEF DownIsIdle, TypeOK
<1>5. ASSUME NEW t \in Schedules, t # s, Ensured(t)' PROVE AsConfigured(t)'
  <2>1. Ensured(t)
    BY <1>5 DEF Ensured, TypeOK, DownIsIdle
  <2>2. state'[t] = state[t] /\ cadence'[t] = cadence[t] /\ config' = config
    BY <1>5 DEF TypeOK, StartFresh, temporal
  <2> QED BY <2>1, <2>2 DEF ConfiguredInv, AsConfigured
<1>6. AsConfigured(s)'
  <2>1. s \in config.enabled /\ config' = config
    OBVIOUS
  <2>2. CASE Starts(s)
    BY <2>1, <2>2 DEF StartFresh, AsConfigured, TypeOK
  <2>3. CASE ~Starts(s) /\ s \in Quota
    <3>1. worker = "watching"
      BY <2>3 DEF Starts, Replaces, TypeOK, DownIsIdle
    <3>2. AsConfigured(s)
      BY <3>1 DEF ConfiguredInv, Ensured
    <3> QED BY <2>1, <2>3, <3>2 DEF AsConfigured, temporal
  <2>4. CASE ~Starts(s) /\ s \notin Quota
    <3>1. s \notin Quota \cup IdleProbe
      BY <2>4 DEF Starts, Replaces
    <3> QED BY <2>1, <3>1 DEF AsConfigured
  <2> QED BY <2>2, <2>3, <2>4
<1>7. ConfiguredInv'
  BY <1>5, <1>6 DEF ConfiguredInv, Ensured
<1> QED BY <1>1, <1>2, <1>3, <1>4, <1>7

LEMMA EnsureStopStep ==
  ASSUME IInv, NEW s \in Schedules, EnsureStop(s)
  PROVE  IInv'
<1> USE DEF IInv, EnsureStop, Visited, IsNext
<1>1. TypeOK'
  BY DEF TypeOK, temporal, api
<1>2. RoundsCounted'
  BY DEF RoundsCounted, api
<1>3. AwaitedRuns'
  BY DEF AwaitedRuns, TypeOK, temporal, Schedules
<1>4. DownIsIdle'
  BY DEF DownIsIdle, TypeOK
<1>5. ASSUME NEW t \in Schedules, t # s, Ensured(t)' PROVE AsConfigured(t)'
  <2>1. Ensured(t)
    BY <1>5 DEF Ensured, TypeOK, DownIsIdle
  <2>2. state'[t] = state[t] /\ cadence'[t] = cadence[t] /\ config' = config
    BY <1>5 DEF TypeOK, temporal
  <2> QED BY <2>1, <2>2 DEF ConfiguredInv, AsConfigured
<1>6. AsConfigured(s)'
  BY DEF AsConfigured, Terminates, TypeOK
<1>7. ConfiguredInv'
  BY <1>5, <1>6 DEF ConfiguredInv, Ensured
<1> QED BY <1>1, <1>2, <1>3, <1>4, <1>7

\* The steps of the worker process: none touches an execution but Lost.
LEMMA WorkerStep ==
  ASSUME IInv, EnsureFails \/ Boot \/ Tick \/ WorkerExits
  PROVE  IInv'
<1> USE DEF IInv, EnsureFails, Boot, Tick, WorkerExits, Fault, temporal, api
<1>1. TypeOK'
  BY MaxFaultsAssumption DEF TypeOK
<1>2. RoundsCounted' /\ AwaitedRuns' /\ DownIsIdle'
  BY DEF RoundsCounted, AwaitedRuns, DownIsIdle
<1>3. ConfiguredInv'
  BY DEF ConfiguredInv, Ensured, AsConfigured, TypeOK
<1> QED BY <1>1, <1>2, <1>3

\* An execution that moves on, stops or is stopped, while its input stays.
LEMMA ConfiguredKept ==
  ASSUME IInv, UNCHANGED <<worker, config, todo, cadence>>,
         \A s \in Schedules : state[s] = "stopped" => state'[s] = "stopped"
  PROVE  ConfiguredInv'
BY DEF IInv, ConfiguredInv, Ensured, AsConfigured, TypeOK

LEMMA LostStep ==
  ASSUME IInv, NEW s \in Schedules, Lost(s)
  PROVE  IInv'
<1> USE DEF IInv, Lost, Fault, api
<1>1. TypeOK'
  BY MaxFaultsAssumption DEF TypeOK
<1>2. RoundsCounted' /\ DownIsIdle'
  BY DEF RoundsCounted, DownIsIdle
<1>3. AwaitedRuns'
  BY DEF AwaitedRuns, TypeOK, Schedules
<1>4. ConfiguredInv'
  BY ConfiguredKept DEF TypeOK
<1> QED BY <1>1, <1>2, <1>3, <1>4

LEMMA LoopStep ==
  ASSUME IInv, NEW s \in Schedules, Loop(s)
  PROVE  IInv'
<1> USE DEF IInv, Loop, StartRound, EndRound, Wake, To, api
<1>1. TypeOK'
  BY DEF TypeOK
<1>2. RoundsCounted' /\ DownIsIdle'
  BY DEF RoundsCounted, DownIsIdle
<1>3. AwaitedRuns'
  BY DEF AwaitedRuns, TypeOK, Schedules
<1>4. ConfiguredInv'
  BY ConfiguredKept DEF TypeOK
<1> QED BY <1>1, <1>2, <1>3, <1>4

LEMMA ProbeStep ==
  ASSUME IInv, NEW p \in IdleProbe, Probe(p) \/ ManualProbe(p)
  PROVE  IInv'
<1> USE DEF IInv, To, EnterProbe, api, temporal
<1>1. CASE StartProbe(p)
  <2>1. TypeOK'
    <3>1. rounds' \in [IdleProbe -> Nat]
      BY <1>1 DEF TypeOK, StartProbe
    <3> QED BY <1>1, <3>1 DEF TypeOK, StartProbe
  <2>2. RoundsCounted' /\ AwaitedRuns' /\ DownIsIdle'
    BY <1>1 DEF RoundsCounted, AwaitedRuns, DownIsIdle, StartProbe, TypeOK, Schedules
  <2>3. ConfiguredInv'
    BY <1>1, ConfiguredKept DEF TypeOK, StartProbe
  <2> QED BY <2>1, <2>2, <2>3
<1>2. CASE SkipProbe(p)
  <2>1. TypeOK'
    BY <1>2 DEF TypeOK, SkipProbe
  <2>2. RoundsCounted' /\ AwaitedRuns' /\ DownIsIdle'
    BY <1>2 DEF RoundsCounted, AwaitedRuns, DownIsIdle, SkipProbe, TypeOK, Schedules
  <2>3. ConfiguredInv'
    BY <1>2, ConfiguredKept DEF TypeOK, SkipProbe
  <2> QED BY <2>1, <2>2, <2>3
<1>3. CASE EndProbe(p)
  <2>1. rounds[p] = 1 /\ p \in busy
    BY <1>3 DEF RoundsCounted, EndProbe
  <2>2. TypeOK'
    <3>1. rounds' \in [IdleProbe -> Nat]
      BY <1>3, <2>1 DEF TypeOK, EndProbe
    <3> QED BY <1>3, <3>1 DEF TypeOK, EndProbe
  <2>3. RoundsCounted' /\ AwaitedRuns' /\ DownIsIdle'
    BY <1>3, <2>1 DEF RoundsCounted, AwaitedRuns, DownIsIdle, EndProbe, TypeOK, Schedules
  <2>4. ConfiguredInv'
    BY <1>3, ConfiguredKept DEF TypeOK, EndProbe, AwaitedRuns
  <2> QED BY <2>2, <2>3, <2>4
<1>4. CASE ProbeTimesOut(p)
  <2>1. TypeOK'
    BY <1>4 DEF TypeOK, ProbeTimesOut
  <2>2. RoundsCounted' /\ AwaitedRuns' /\ DownIsIdle'
    BY <1>4 DEF RoundsCounted, AwaitedRuns, DownIsIdle, ProbeTimesOut, TypeOK, Schedules
  <2>3. ConfiguredInv'
    BY <1>4, ConfiguredKept DEF TypeOK, ProbeTimesOut
  <2> QED BY <2>1, <2>2, <2>3
<1>5. CASE ManualProbe(p)
  <2>1. TypeOK'
    BY <1>5 DEF TypeOK, ManualProbe
  <2>2. RoundsCounted' /\ AwaitedRuns' /\ DownIsIdle'
    BY <1>5 DEF RoundsCounted, AwaitedRuns, DownIsIdle, ManualProbe, TypeOK
  <2>3. ConfiguredInv'
    BY <1>5, ConfiguredKept DEF ManualProbe
  <2> QED BY <2>1, <2>2, <2>3
<1> QED BY <1>1, <1>2, <1>3, <1>4, <1>5 DEF Probe

LEMMA ApiRestartStep ==
  ASSUME IInv, ApiRestarts
  PROVE  IInv'
<1> USE DEF IInv, ApiRestarts, Fault
<1>1. TypeOK'
  BY MaxFaultsAssumption DEF TypeOK
<1>2. RoundsCounted' /\ AwaitedRuns' /\ DownIsIdle'
  BY DEF RoundsCounted, AwaitedRuns, DownIsIdle
<1>3. ConfiguredInv'
  BY ConfiguredKept DEF AwaitedRuns
<1> QED BY <1>1, <1>2, <1>3

LEMMA NextInv == IInv /\ [Next]_vars => IInv'
<1> SUFFICES ASSUME IInv, [Next]_vars PROVE IInv'
  OBVIOUS
<1>1. CASE EnsureStep
  BY <1>1, EnsureStartStep, EnsureStopStep DEF EnsureStep
<1>2. CASE EnsureFails \/ Boot \/ Tick \/ WorkerExits
  BY <1>2, WorkerStep
<1>3. CASE ApiRestarts
  BY <1>3, ApiRestartStep
<1>4. ASSUME NEW s \in Schedules, Lost(s) \/ Loop(s) PROVE IInv'
  BY <1>4, LostStep, LoopStep
<1>5. ASSUME NEW p \in IdleProbe, Probe(p) \/ ManualProbe(p) PROVE IInv'
  BY <1>5, ProbeStep
<1>6. CASE UNCHANGED vars
  BY <1>6 DEF vars, temporal, api, IInv, TypeOK, RoundsCounted, AwaitedRuns,
              DownIsIdle, ConfiguredInv, Ensured, AsConfigured
<1> QED BY <1>1, <1>2, <1>3, <1>4, <1>5, <1>6 DEF Next

\* The inductive invariant: the running set counts the rounds, awaited rounds
\* have a waiting execution, and what ensureSchedules has visited since the
\* worker started is as the configuration says.
THEOREM InvariantHolds == Spec => []IInv
<1>1. Init => IInv
  BY InitInv
<1>2. IInv /\ [Next]_vars => IInv'
  BY NextInv
<1> QED BY <1>1, <1>2, PTL DEF Spec

\* The variables keep their types.
THEOREM TypeCorrect == Spec => []TypeOK
<1>1. IInv => TypeOK
  BY DEF IInv
<1> QED BY <1>1, InvariantHolds, PTL

\* The API never runs two idle probe rounds of one scope at once.
THEOREM OneRound == Spec => []OneRoundPerScope
<1>1. IInv => OneRoundPerScope
  BY DEF IInv, RoundsCounted, OneRoundPerScope
<1> QED BY <1>1, InvariantHolds, PTL

\* After a start, sampling and idle probes run with the worker's inputs.
THEOREM InputsAreCurrent == Spec => []CadenceIsCurrent
<1>1. IInv => CadenceIsCurrent
  BY DEF IInv, ConfiguredInv, Ensured, AsConfigured, CadenceIsCurrent, Schedules
<1> QED BY <1>1, InvariantHolds, PTL

\* After a start, nothing runs for a disabled scope or monitor.
THEOREM DisabledStaysOff == Spec => []DisabledIsOff
<1>1. IInv => DisabledIsOff
  BY DEF IInv, ConfiguredInv, Ensured, AsConfigured, DisabledIsOff, Schedules
<1> QED BY <1>1, InvariantHolds, PTL

\* The watchdog never interrupts a round other than an idle probe's.
THEOREM WatchdogLeavesRoundsAlone == Spec => SamplingKeepsRunning
<1>1. TypeOK /\ [Next]_vars => [LeftAlone(Schedules \ IdleProbe)]_vars
  <2> SUFFICES ASSUME TypeOK, Next, NEW s \in Schedules, s \notin IdleProbe,
                      worker = "watching", state[s] = "running"
               PROVE  state'[s] # "scheduled"
    BY DEF LeftAlone
  <2>1. CASE EnsureStep
    BY <2>1 DEF EnsureStep, EnsureStart, EnsureStop, Starts, Replaces, StartFresh, TypeOK, temporal
  <2>2. CASE EnsureFails \/ Boot \/ Tick \/ WorkerExits
    BY <2>2 DEF EnsureFails, Boot, Tick, WorkerExits, temporal
  <2>3. CASE ApiRestarts
    BY <2>3 DEF ApiRestarts
  <2>4. ASSUME NEW t \in Schedules, Lost(t) \/ Loop(t) PROVE state'[s] # "scheduled"
    BY <2>4 DEF Lost, Loop, StartRound, EndRound, Wake, To, TypeOK
  <2>5. ASSUME NEW p \in IdleProbe, Probe(p) \/ ManualProbe(p) PROVE state'[s] # "scheduled"
    BY <2>5 DEF Probe, StartProbe, SkipProbe, EndProbe, ProbeTimesOut, ManualProbe,
                To, temporal, TypeOK
  <2> QED BY <2>1, <2>2, <2>3, <2>4, <2>5 DEF Next
<1> QED BY <1>1, TypeCorrect, PTL DEF Spec, SamplingKeepsRunning
=============================================================================
