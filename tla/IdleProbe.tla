------------------------------- MODULE IdleProbe -------------------------------
(***************************************************************************)
(* The rounds of the idle probe of one scope: IdleAccountProbeService      *)
(* (src/src/idle-account-probe.ts), what OperationsService records of them *)
(* (src/src/operations-service.ts) and the table of rounds                 *)
(* (src/src/operations-store.ts).                                          *)
(*                                                                         *)
(* A round plans the accounts that had no activity for the longest time,   *)
(* repairs the isolation of some and probes those that are ready.  The     *)
(* isolation itself is the subject of ProbeIsolation; here it works,       *)
(* fails, or never works for an account.                                   *)
(***************************************************************************)
EXTENDS Integers, FiniteSets, Sequences, SequencesExt

CONSTANTS
  Accounts,        \* 1 .. n: the API key accounts of the scope
  CandidateLimit,  \* accounts that a round plans
  RepairLimit,     \* provisionCandidateLimit
  MaxLoops,        \* bound: rounds of one operation
  MaxEvents        \* bound: changes from outside, failing steps and restarts

VARIABLES
  active,      \* accounts that are active and schedulable
  busy,        \* accounts with enough samples, recent usage and recent errors
  bound,       \* accounts with an isolation record and its group
  unbindable,  \* accounts whose isolation always fails
  order,       \* the place of each account, the longest without activity first
  round,       \* the round in progress
  repairs,     \* reconcile(): accounts still to repair
  lastRound,   \* api2business_idle_probe_rounds: the row of the latest operation
  waits,       \* automatic operations since an account's latest activity or trouble
  events       \* changes and failures so far

probeVars == <<active, busy, bound, unbindable, order, round, repairs, lastRound, waits, events>>
scope == <<active, busy, unbindable>>

MaxWait == Cardinality(Accounts) + 1

NoRecord == [status |-> "none"]
NoRun == [stage |-> "none"]

Init ==
  /\ active \in SUBSET Accounts /\ busy \in {{}, {1}}
  /\ bound \in SUBSET Accounts
  /\ unbindable \in {{}, {1}} /\ unbindable \cap bound = {}
  /\ order = [a \in Accounts |-> a]
  /\ round = NoRun /\ repairs = <<>>
  /\ lastRound = NoRecord
  /\ waits = [a \in Accounts |-> 0]
  /\ events = 0

Event == events < MaxEvents /\ events' = events + 1

\* The waits are counted, as far as they matter, while nothing disturbs the rounds.
Undisturbed == waits' = [a \in Accounts |-> 0]

\* A record of usage or of an error is an activity of its account.
Active(account) ==
  /\ order' = [a \in Accounts |->
                 IF a = account THEN Cardinality(Accounts)
                 ELSE order[a] - (IF order[a] > order[account] THEN 1 ELSE 0)]
  /\ waits' = [waits EXCEPT ![account] = 0]

\* LIMIT: the first accounts of some.
First(accounts, n) ==
  {a \in accounts : Cardinality({b \in accounts : order[b] < order[a]}) < n}

\* The accounts one after the other.
InTurn(accounts) ==
  CHOOSE q \in SetToSeqs(accounts) : \A i, j \in DOMAIN q : i < j => order[q[i]] < order[q[j]]

Wanted == active \ busy

\* Faulty: the accounts are planned by id.
PlannedById(explicit, scoped) ==
  IF explicit # {} THEN {a \in Accounts : a \in explicit /\ (scoped => a \in active)}
  ELSE {a \in Wanted : Cardinality({b \in Wanted : b < a}) < CandidateLimit}

\* idleProbeCandidatesSql: accounts named by the caller need no reason to be
\* probed, and without a scope they need not even be active.
Planned(explicit, scoped) ==
  IF explicit # {} THEN {a \in Accounts : a \in explicit /\ (scoped => a \in active)}
  ELSE First(Wanted, CandidateLimit)

-----------------------------------------------------------------------------
(* What is recorded *)

\* runIdleProbe() of OperationsService.  An account whose repair failed is unready.
RoundStatus(succeeded, failed, unready) ==
  IF unready = {} /\ failed = 0 THEN "succeeded"
  ELSE IF succeeded > 0 THEN "partial" ELSE "failed"

\* addIdleProbeRound(): one row for each operation.
AddRound(row) == lastRound' = row

Nothing(status) ==
  [status |-> status, attempted |-> 0, unready |-> FALSE, all |-> FALSE, some |-> FALSE]

-----------------------------------------------------------------------------
(* run() *)

\* A round asked for while another one runs is skipped, and says so.  The budget of
\* repairs is the operation's, not the round's.
Run(explicit, scoped, loops) ==
  /\ IF round # NoRun THEN AddRound(Nothing("skipped")) /\ UNCHANGED round
     ELSE /\ round' = [explicit |-> explicit, scoped |-> scoped, left |-> loops, loop |-> 0,
                       stage |-> "plan", plan |-> {}, member |-> {}, todo |-> <<>>, probing |-> {},
                       budget |-> RepairLimit, repaired |-> {}, unready |-> {},
                       succeeded |-> 0, failed |-> 0, owed |-> {}, well |-> {}]
          /\ lastRound' = NoRecord
  /\ UNCHANGED <<scope, bound, order, repairs, waits, events>>

Plan ==
  /\ round # NoRun /\ round.stage = "plan"
  /\ LET planned == Planned(round.explicit, round.scoped) IN
     /\ round' = [round EXCEPT !.stage = "repair", !.loop = @ + 1, !.left = @ - 1,
                               !.plan = planned, !.member = bound,
                               !.todo = InTurn(planned \cap active),
                               !.owed = @ \cup {<<round.loop + 1, a>> : a \in planned \cap active}]
     /\ waits' = IF round.explicit # {} \/ round.loop > 0 THEN waits
                 ELSE [a \in Accounts |-> IF a \in Wanted /\ waits[a] < MaxWait THEN waits[a] + 1
                                                                               ELSE waits[a]]
  /\ UNCHANGED <<scope, bound, order, repairs, lastRound, events>>

\* The plan cannot be read: the round is recorded as failed, without counts.
PlanFails ==
  /\ round # NoRun /\ round.stage = "plan"
  /\ Event /\ Undisturbed
  /\ AddRound(Nothing("failed"))
  /\ round' = NoRun
  /\ UNCHANGED <<scope, bound, order, repairs>>

\* An account is ready when it has a record and was planned with its group.
Ready(a) == a \in bound /\ a \in round.member

\* One account without isolation is repaired, or has to wait for the next round.
Repair ==
  /\ round # NoRun /\ round.stage = "repair" /\ round.todo # <<>>
  /\ LET a == Head(round.todo)
         next == [round EXCEPT !.todo = Tail(@)]
     IN \/ /\ Ready(a)
           /\ round' = next
           /\ UNCHANGED <<bound, waits, events>>
        \/ /\ ~Ready(a) /\ round.budget = 0
           /\ round' = [next EXCEPT !.unready = @ \cup {a}]
           /\ UNCHANGED <<bound, waits, events>>
        \/ /\ ~Ready(a) /\ round.budget > 0 /\ a \notin unbindable
           /\ bound' = bound \cup {a}
           /\ round' = [next EXCEPT !.budget = @ - 1, !.repaired = @ \cup {a}]
           /\ UNCHANGED <<waits, events>>
        \/ /\ ~Ready(a) /\ round.budget > 0
           /\ round' = [next EXCEPT !.budget = @ - 1, !.unready = @ \cup {a}]
           /\ IF a \in unbindable THEN UNCHANGED <<waits, events>> ELSE Event /\ Undisturbed
           /\ UNCHANGED bound
  /\ UNCHANGED <<scope, order, repairs, lastRound>>

\* Faulty: an account that stays without isolation is forgotten.
StartsUnready(r) == {}

\* Planned accounts that were not repaired and are not ready.
Unready(r) == {a \in r.plan \ r.repaired : ~(a \in bound /\ a \in r.member)}

\* Active accounts of the plan that are ready.
Reached == {a \in round.plan : <<round.loop, a>> \in round.owed /\ (a \in round.repaired \/ Ready(a))}

Start ==
  /\ round # NoRun /\ round.stage = "repair" /\ round.todo = <<>>
  /\ round' = [round EXCEPT !.stage = "probe", !.probing = Reached, !.unready = @ \cup Unready(round),
                           !.plan = {}, !.member = {}]
  /\ UNCHANGED <<scope, bound, order, repairs, lastRound, waits, events>>

\* Faulty: a right answer is enough.
AnswerIsEnough(logged, answered) == answered

\* A probe succeeds when its answer is right and the ordinary log recorded it.
Well(logged, answered) == logged /\ answered

\* The probes run side by side.  One that leaves no log is no activity; an error
\* (no isolation any more, no connection) has neither an answer nor a log.
Probe(a, logged, answered) ==
  /\ round # NoRun /\ round.stage = "probe" /\ a \in round.probing
  /\ LET this == <<round.loop, a>>
         well == Well(logged, answered)
     IN  round' = [round EXCEPT !.probing = @ \ {a},
                                !.well = IF logged /\ answered THEN @ \cup {this} ELSE @,
                                !.succeeded = @ + (IF well THEN 1 ELSE 0),
                                !.failed = @ + (IF well THEN 0 ELSE 1)]
  /\ IF logged THEN Active(a) /\ UNCHANGED events
               ELSE Event /\ Undisturbed /\ UNCHANGED order
  /\ UNCHANGED <<scope, bound, repairs, lastRound>>

\* The next round of the operation, unless the time of the round is used up.
Again ==
  /\ round # NoRun /\ round.stage = "probe" /\ round.probing = {} /\ round.left > 0
  /\ round' = [round EXCEPT !.stage = "plan"]
  /\ UNCHANGED <<scope, bound, order, repairs, lastRound, waits, events>>

Finish ==
  /\ round # NoRun /\ round.stage = "probe" /\ round.probing = {}
  /\ AddRound([status |-> RoundStatus(round.succeeded, round.failed, round.unready),
               attempted |-> round.succeeded + round.failed, unready |-> round.unready # {},
               all |-> round.well = round.owed, some |-> round.well # {}])
  /\ round' = NoRun
  /\ UNCHANGED <<scope, bound, order, repairs, waits, events>>

-----------------------------------------------------------------------------
(* reconcile(), and what happens outside *)

\* The first planned accounts without isolation are repaired one by one.
Reconcile ==
  /\ repairs = <<>> /\ Event
  /\ LET open == Planned({}, TRUE) \ bound IN
     /\ open # {}
     /\ repairs' = InTurn(First(open, RepairLimit))
  /\ UNCHANGED <<active, busy, bound, unbindable, order, round, lastRound, waits>>

ReconcileOne ==
  /\ repairs # <<>>
  /\ repairs' = Tail(repairs)
  /\ IF Head(repairs) \in unbindable THEN UNCHANGED bound ELSE bound' = bound \cup {Head(repairs)}
  /\ UNCHANGED <<scope, order, round, lastRound, waits, events>>

\* Users' requests; accounts paused or resumed; groups of an account replaced.
Traffic(a) ==
  /\ Event /\ Active(a)
  /\ busy' \in {busy \cup {a}, busy \ {a}}
  /\ UNCHANGED <<active, bound, unbindable, round, repairs, lastRound>>

Edit(a) ==
  /\ Event /\ Undisturbed
  /\ \/ active' \in {active \cup {a}, active \ {a}} /\ active' # active /\ UNCHANGED bound
     \/ a \in bound /\ bound' = bound \ {a} /\ UNCHANGED active
  /\ UNCHANGED <<busy, unbindable, order, round, repairs, lastRound>>

\* The process ends: nothing of the round is recorded.
Restart ==
  /\ Event /\ Undisturbed
  /\ round' = NoRun /\ repairs' = <<>>
  /\ UNCHANGED <<scope, bound, order, lastRound>>

Next ==
  \/ Run({}, TRUE, 1)
  \/ \E scoped \in BOOLEAN, loops \in 1 .. MaxLoops : Run({1, 2}, scoped, loops)
  \/ Plan \/ PlanFails \/ Repair \/ Start \/ Again \/ Finish
  \/ \E a \in Accounts, logged, answered \in BOOLEAN : Probe(a, logged, answered)
  \/ Reconcile \/ ReconcileOne
  \/ \E a \in Accounts : Traffic(a) \/ Edit(a)
  \/ Restart

-----------------------------------------------------------------------------
(* Properties *)

\* upstream-scheduling.md: a round is recorded as succeeded only when no active
\* account it planned was left out and each has an ordinary record and a right
\* answer; a partial round has some such account, a failed one none.
RoundsTellTheirProbes ==
  lastRound # NoRecord =>
    /\ lastRound.status = "succeeded" => lastRound.all
    /\ lastRound.status = "partial" => lastRound.some /\ (~lastRound.all \/ lastRound.unready)
    /\ lastRound.status = "failed" => ~lastRound.some

\* A round has room for more than the accounts that are beyond repair.
Repairable == Cardinality(unbindable) < RepairLimit /\ Cardinality(unbindable) < CandidateLimit

\* Rounds reach everybody: while nothing fails and nobody changes the scope, an
\* account that needs a probe is planned, repaired and probed by as many operations
\* as there are accounts, unless the isolation of so many others is beyond repair
\* that a round has no room for it.
NobodyIsPassedOver ==
  Repairable => \A a \in Accounts \ unbindable : waits[a] <= Cardinality(Accounts)

-----------------------------------------------------------------------------
(* The inductive invariant behind what rounds tell *)

\* Accounts of the current loop that are still to be probed.
Open == {pair \in round.owed : pair[1] = round.loop /\ pair[2] \in round.plan \cup round.probing}

IsRound(r) ==
  r = [explicit |-> r.explicit, scoped |-> r.scoped, left |-> r.left, loop |-> r.loop, stage |-> r.stage,
       plan |-> r.plan, member |-> r.member, todo |-> r.todo, probing |-> r.probing, budget |-> r.budget,
       repaired |-> r.repaired, unready |-> r.unready, succeeded |-> r.succeeded, failed |-> r.failed,
       owed |-> r.owed, well |-> r.well]

StageInv ==
  /\ IsRound(round) /\ round.stage \in {"plan", "repair", "probe"}
  /\ round.stage = "plan" => round.plan = {} /\ round.probing = {}
  /\ round.stage = "repair" => round.probing = {}
  /\ round.stage = "probe" => round.plan = {} /\ \A a \in round.probing : <<round.loop, a>> \in round.owed

CountInv ==
  /\ round.loop \in Nat /\ round.succeeded \in Nat /\ round.failed \in Nat
  /\ \A pair \in round.owed : pair = <<pair[1], pair[2]>> /\ pair[1] \in Nat /\ pair[1] <= round.loop
  /\ round.well \subseteq round.owed \ Open
  /\ round.succeeded = 0 <=> round.well = {}

\* Unless an account was left out or has failed, all were probed well that are not
\* still to be probed; a failure is never made good.
OutcomeInv ==
  /\ round.unready = {} /\ round.failed = 0 => round.owed \subseteq round.well \cup Open
  /\ round.failed > 0 => ~(round.owed \subseteq round.well \cup Open)

RoundInv == (round # NoRun => StageInv /\ CountInv /\ OutcomeInv) /\ RoundsTellTheirProbes

(* The inductive invariant behind turns *)

\* The round is to probe the account or one before it: it has been repaired, or the
\* repairs that are left do for it.
Promised(a) ==
  /\ round # NoRun
  /\ \/ round.stage = "probe" /\ \E b \in round.probing : order[b] <= order[a]
     \/ /\ round.stage = "repair"
        /\ \/ \E b \in Reached : order[b] <= order[a]
           \/ \E i \in DOMAIN round.todo :
                round.todo[i] \notin unbindable /\ order[round.todo[i]] <= order[a] /\ i <= round.budget

Behind(a) == Cardinality(Accounts) - order[a]

OrderInv ==
  /\ active \subseteq Accounts /\ IsFiniteSet(unbindable)
  /\ order \in [Accounts -> 1 .. Cardinality(Accounts)]
  /\ \A a, b \in Accounts : order[a] = order[b] => a = b
  /\ waits \in [Accounts -> Nat]

LoopInv ==
  /\ round.plan \subseteq Accounts /\ round.probing \subseteq Accounts /\ round.budget \in Nat
  /\ round.loop = 0 => round.stage = "plan" /\ round.budget = RepairLimit
  /\ round.stage = "repair" =>
       /\ round.todo \in Seq(Accounts)
       /\ \A i \in DOMAIN round.todo : round.todo[i] \in round.plan /\ <<round.loop, round.todo[i]>> \in round.owed

\* Whoever waits was passed over for those who are behind now, and at most for the one
\* to be probed next.
InTime(a) == waits[a] <= Behind(a) \/ (waits[a] = Behind(a) + 1 /\ Promised(a))

TurnInv == Repairable => \A a \in Accounts \ unbindable : InTime(a)

WaitInv == OrderInv /\ (round # NoRun => LoopInv) /\ TurnInv
=============================================================================
