--------------------------- MODULE PriorityRanking ---------------------------
(***************************************************************************)
(* How a scheduling round turns evidence into priorities                   *)
(* (buildAccountPriorityPlan() of src/src/account-priority-plan.ts and the *)
(* filter of operations-service.ts); PriorityPlan has how a plan is        *)
(* written.  The accounts of a profile are ranked by quality against cost. *)
(* The best of them spread over the range of priorities, keeping as many   *)
(* priorities as they can; the others get the last one.  A smaller         *)
(* priority is used first.                                                 *)
(*                                                                         *)
(* Of an account: its quality, which stands for the weighted reliability,  *)
(* latency, evidence and balance, Unscored when it was never called; how   *)
(* often it was called; its cost, 0 when unknown; whether its score has    *)
(* the required confidence; whether it is available, as is required.  An   *)
(* account called less often than TargetAttempts is explored: it gets a    *)
(* bonus that shrinks with every call, whatever its quality.               *)
(***************************************************************************)
EXTENDS Integers, Sequences, FiniteSets, FiniteSetsExt, SequencesExt, TLC

CONSTANTS
  Accounts,                     \* numbers, as their ids
  Rows,                         \* what may be known of an account
  Unscored,
  TargetAttempts,               \* explorationTargetAttempts
  MinPriority, MaxPriority,     \* minimumPriority, maximumPriority
  TopK,                         \* normalizationTopK, from 2
  ForceNormalized,              \* forceNormalizedTopK
  MinUniformity,                \* minimumPriorityUniformity, in percent
  QualityWeight, CostWeight, ExplorationWeight,
  Prior,                        \* explorationQualityPrior
  Fixed,                        \* fixedPriorities: accounts to priorities
  Reserve,                      \* reservePolicies: accounts to their weight, in halves, and priority
  WritesEnabled                 \* of the profile

VARIABLES
  evidence,    \* a row for each account
  priority,
  scores,      \* of the eligible accounts, as collected
  phase        \* "observed", "collected" for a plan, "applied" or "again" for one after that

rankingVars == <<evidence, priority, scores, phase>>

Span == MaxPriority - MinPriority

\* readPriorityPlanPolicy() and the first checks of buildPriorityProfile()
PolicyAccepted ==
  /\ MinPriority >= 1 /\ MaxPriority >= MinPriority /\ TopK >= 2
  /\ MinUniformity \in 0 .. 100 /\ Prior \in 0 .. 100
  /\ {QualityWeight, CostWeight, ExplorationWeight} \subseteq 0 .. 100
  /\ QualityWeight > 0 /\ TargetAttempts >= 1
  /\ DOMAIN Fixed \cap DOMAIN Reserve = {}
  /\ \A a \in DOMAIN Reserve : Reserve[a].weight \in 0 .. 2 /\ Reserve[a].priority >= 1

\* Math.round() of p / q
Rounded(p, q) == (2 * p + q) \div (2 * q)

-----------------------------------------------------------------------------
(* buildPriorityProfile(): the ranking *)

\* An account that has no score yet is a candidate if exploring has a weight.
Candidates ==
  {a \in Accounts \ DOMAIN Fixed :
     /\ evidence[a].available
     /\ \/ evidence[a].quality # Unscored
        \/ ExplorationWeight > 0 /\ evidence[a].attempts < TargetAttempts}

\* dimensionScore()
Quality(a) == IF evidence[a].quality = Unscored THEN Prior ELSE evidence[a].quality

\* The calls that an account is short of
Lacking(a) == Max({0, TargetAttempts - evidence[a].attempts})

KnownCosts == {a \in Candidates : evidence[a].cost > 0}

TotalCost[n \in Nat] ==
  IF n = 0 THEN 0 ELSE TotalCost[n - 1] + (IF n \in KnownCosts THEN evidence[n].cost ELSE 0)

\* An unknown cost is the average of the known ones; costs are multiplied by their number.
ResolvedCost(a) ==
  IF evidence[a].cost > 0 THEN evidence[a].cost * Cardinality(KnownCosts)
  ELSE TotalCost[Max(Accounts)]

Eligible == IF KnownCosts = {} THEN {} ELSE Candidates

\* The range of costs is that of the trusted accounts when they have one.
CostEvidence ==
  LET trusted == {ResolvedCost(a) : a \in {b \in Eligible : evidence[b].confident}}
  IN IF Cardinality(trusted) > 1 THEN trusted ELSE {ResolvedCost(a) : a \in Eligible}

Lowest == Min(CostEvidence)
Highest == Max(CostEvidence)

\* linearCostPenalty(), of 100, times the range
CostPenalty(a) ==
  LET lowest == Lowest
      highest == Highest
      cost == ResolvedCost(a)
  IN 100 * (CASE cost < lowest -> 0 [] cost > highest -> highest - lowest [] OTHER -> cost - lowest)

\* Faulty: an account called more often than the target is punished for it.
Unbounded(a) ==
  TargetAttempts * Quality(a) * QualityWeight
    + 100 * (TargetAttempts - evidence[a].attempts) * ExplorationWeight

\* Quality and the bonus of exploring, times TargetAttempts
Merit(a) == TargetAttempts * Quality(a) * QualityWeight + 100 * Lacking(a) * ExplorationWeight

\* baseEconomicScore(), times the total weight, TargetAttempts and the range of costs
EconomicScore(a) ==
  Merit(a) * Max({1, Highest - Lowest}) - TargetAttempts * CostPenalty(a) * CostWeight

RanksAhead(a, b) == scores[a] > scores[b] \/ (scores[a] = scores[b] /\ a < b)

Ranked ==
  [i \in 1 .. Cardinality(DOMAIN scores) |->
     CHOOSE a \in DOMAIN scores : Cardinality({b \in DOMAIN scores : RanksAhead(b, a)}) = i - 1]

-----------------------------------------------------------------------------
(* buildStableRankPriorities(): before has the priorities of the ranked accounts *)

TopCount(before) == Min({Len(before), TopK})

Normalized(i) == MinPriority + Rounded((Min({i, TopK}) - 1) * Span, TopK - 1)

\* A rank can keep a priority that leaves room for those before and after it.
Keepable(before, i) ==
  before[i] \in MinPriority + i - 1 .. MaxPriority - (TopCount(before) - i)

\* Faulty: in order is enough.
InOrder(before, j, i) == before[i] > before[j]

HasRoom(before, j, i) == before[i] - before[j] >= i - j

NoChain == [ranks |-> {}, sum |-> 0]

Longer(c, d) ==
  \/ Cardinality(c.ranks) > Cardinality(d.ranks)
  \/ Cardinality(c.ranks) = Cardinality(d.ranks) /\ c.sum > d.sum

\* The longest, of those the one with the larger priorities, of those the first
BestChain(chains) ==
  IF chains = {} THEN NoChain
  ELSE CHOOSE c \in chains : \A d \in chains \ {c} :
         Longer(c, d) \/ (~ Longer(d, c) /\ Max(c.ranks) < Max(d.ranks))

\* The ranks whose priorities are kept, found from the best chains that end in each of them
Anchors(before) ==
  LET kept == {i \in 1 .. TopCount(before) : Keepable(before, i)}
      chain[i \in kept] ==
        LET best == BestChain({chain[j] : j \in {k \in kept : k < i /\ HasRoom(before, k, i)}})
        IN [ranks |-> best.ranks \cup {i}, sum |-> best.sum + before[i]]
  IN BestChain({chain[i] : i \in kept}).ranks

\* The ranks between two anchors spread over the room between them.
Stable(before) ==
  LET anchors == Anchors(before)
      Spread(i) ==
        LET left == Max({0} \cup {j \in anchors : j < i})
            right == Min({TopCount(before) + 1} \cup {j \in anchors : j > i})
            from == IF left = 0 THEN MinPriority - 1 ELSE before[left]
            to == IF right = TopCount(before) + 1 THEN MaxPriority + 1 ELSE before[right]
        IN from + Rounded((i - left) * (to - from), right - left)
  IN [i \in 1 .. Len(before) |->
        IF i \in anchors THEN before[i]
        ELSE IF i > TopCount(before) \/ anchors = {} THEN Normalized(i) ELSE Spread(i)]

StrictlyOrdered(top) == \A i \in 1 .. Min({Len(top), TopK}) - 1 : top[i] < top[i + 1]

\* Priorities that crowd, or leave an end of the range empty, are spread again.
Drifted(top) ==
  LET step == -((-Span) \div (TopK - 1))
      last == TopCount(top)
      gaps == {top[i + 1] - top[i] : i \in 1 .. last - 1}
  IN /\ 2 * last >= TopK
     /\ \/ top[1] > MinPriority + 2 * step
        \/ top[last] < Normalized(last) - 2 * step
        \/ top[last] - top[1] < Max({last - 1, Rounded((Normalized(last) - Normalized(1)) * 6, 10)})
        \/ gaps # {} /\ 100 * Min(gaps) < MinUniformity * Max(gaps)

Rebalances(stable) == ForceNormalized \/ ~ StrictlyOrdered(stable) \/ Drifted(stable)

StableRank(before) ==
  LET stable == Stable(before)
  IN IF Rebalances(stable) THEN [i \in DOMAIN before |-> Normalized(i)] ELSE stable

-----------------------------------------------------------------------------
(* The plan *)

\* An account whose quota is to be saved moves towards its reserve priority, never ahead.
Reserved(a, calculated) ==
  IF a \notin DOMAIN Reserve \/ Reserve[a].weight = 0 THEN calculated
  ELSE Min({MaxPriority,
            Max({calculated,
                 Rounded(2 * calculated + Reserve[a].weight * (Reserve[a].priority - calculated), 2)})})

FixedChanges == [a \in Accounts \cap DOMAIN Fixed |-> Fixed[a]]

\* The accounts without a rank have the last priority.
TailChanges == [a \in Accounts \ (DOMAIN Fixed \cup DOMAIN scores) |-> MaxPriority]

Desired(before) ==
  LET ranked == Ranked
      ranks == StableRank([i \in DOMAIN ranked |-> before[ranked[i]]])
      dynamicChanges == [a \in DOMAIN scores |-> Reserved(a, ranks[CHOOSE i \in DOMAIN ranked : ranked[i] = a])]
  IN FixedChanges @@ dynamicChanges @@ TailChanges

\* A profile that may not be written has a plan without changes.
Plan(before) == IF WritesEnabled THEN Desired(before) ELSE before

Init ==
  /\ evidence \in [Accounts -> Rows]
  /\ priority \in [Accounts -> MinPriority .. MaxPriority]
  /\ scores = <<>>
  /\ phase = "observed"

Collect ==
  /\ PolicyAccepted
  /\ phase \in {"observed", "applied"}
  /\ phase' = IF phase = "observed" THEN "collected" ELSE "again"
  /\ scores' = [a \in Eligible |-> EconomicScore(a)]
  /\ UNCHANGED <<evidence, priority>>

\* A plan written as a whole
Apply ==
  /\ phase = "collected" /\ phase' = "applied"
  /\ priority' = Plan(priority)
  /\ UNCHANGED <<evidence, scores>>

Next == Collect \/ Apply

-----------------------------------------------------------------------------
(* Properties *)

\* The most ranks whose priorities leave room for the others, whichever way they are found
MostKept(before) ==
  Max({Cardinality(kept) : kept \in
         {s \in SUBSET (1 .. TopCount(before)) :
            /\ \A i \in s : Keepable(before, i)
            /\ \A i, j \in s : j < i => before[i] - before[j] >= i - j}})

\* At least as good in all that a plan looks at, quality, cost and the calls that it is
\* short of, and better in quality or first by its id
Dominates(a, b) ==
  /\ Quality(a) >= Quality(b) /\ ResolvedCost(a) <= ResolvedCost(b) /\ Lacking(a) >= Lacking(b)
  /\ Quality(a) > Quality(b) \/ a < b

\* A plan keeps to the ranking: whatever the priorities were, an account that is at least
\* as good in quality and cost never comes after a worse one, unless that one was called
\* less often and so is explored first; the best of them have priorities of their own, in
\* the range; and as many of them as possible keep the one they have.  Planned again, it
\* changes nothing.
PlanFollowsTheRanking ==
  phase \in {"collected", "again"} /\ WritesEnabled =>
    LET ranked == Ranked
        before == [i \in DOMAIN ranked |-> priority[ranked[i]]]
        stable == Stable(before)
        desired == Desired(priority)
    IN /\ \A a \in Accounts \ DOMAIN Fixed : desired[a] \in MinPriority .. MaxPriority
       /\ \A a, b \in DOMAIN scores \ DOMAIN Reserve : Dominates(a, b) => desired[a] <= desired[b]
       /\ Span >= TopK - 1 => StrictlyOrdered(StableRank(before)) /\ StrictlyOrdered(stable)
       /\ ranked # <<>> /\ ~ Rebalances(stable) =>
            Cardinality({i \in 1 .. TopCount(before) : stable[i] = before[i]}) >= MostKept(before)
       /\ phase = "again" /\ DOMAIN Reserve = {} => desired = priority
=============================================================================
