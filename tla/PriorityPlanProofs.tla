------------------------- MODULE PriorityPlanProofs -------------------------
(* TLAPS proofs about the lock and the plan table of PriorityPlan, for any *)
(* number of runners, plans, accounts and faults.                          *)
EXTENDS PriorityPlan, TLAPS, FiniteSetTheorems

\* The phases in which a run has a plan that is not finished.
HasOpenPlan(r) ==
    pc[r] \in {"finishing", "confirming", "preflight", "writing", "verifying", "recheck"}

ControlType ==
    /\ pc \in [Runners -> {"idle", "waiting", "scoring", "finishing", "confirming",
                           "preflight", "writing", "verifying", "recheck", "unlocking"}]
    /\ planOf \in [Runners -> Plans \cup {NoPlan}]
    /\ verdict \in [Runners -> {"applied", "failed"}]
    /\ status \in [Plans -> {"none", "pending", "applied", "failed"}]

\* An executing run owns the lock; the plan it works on is still pending, and a
\* run that does not execute has no plan.
LockInv == \A r \in Runners : Executing(r) => lock = r
PlanInv ==
    \A r \in Runners :
        /\ HasOpenPlan(r) => planOf[r] \in Plans /\ status[planOf[r]] = "pending"
        /\ ~Executing(r) => planOf[r] = NoPlan

IInv == ControlType /\ LockInv /\ PlanInv

\* Inside a run only the phase changes; these are the steps that leave the lock,
\* the plan of the run and the table alone.
LEMMA PhaseStep ==
    ASSUME IInv, NEW r \in Runners, Executing(r),
           NEW phase \in {"preflight", "writing", "verifying", "recheck", "finishing", "unlocking"},
           pc' = [pc EXCEPT ![r] = phase],
           HasOpenPlan(r) \/ phase = "unlocking",
           verdict' \in [Runners -> {"applied", "failed"}],
           UNCHANGED <<lock, planOf, status>>
    PROVE  IInv'
<1>1. ControlType'
  BY DEF IInv, ControlType
<1>2. LockInv'
  BY DEF IInv, ControlType, LockInv, Executing
<1>3. PlanInv'
  BY DEF IInv, ControlType, PlanInv, Executing, HasOpenPlan
<1> QED BY <1>1, <1>2, <1>3 DEF IInv

\* A new plan: its row was not pending and belongs to no run.
LEMMA CreateStep ==
    ASSUME IInv, NEW r \in Runners, pc[r] = "scoring", NEW desired,
           NEW next \in {"finishing", "confirming"}, NEW result \in {"applied", "failed"},
           CreatePlan(r, desired, next, result), UNCHANGED lock
    PROVE  IInv'
<1>1. PICK p \in Plans :
          /\ status' = [status EXCEPT ![p] = "pending"]
          /\ planOf' = [planOf EXCEPT ![r] = p]
          /\ verdict' = [verdict EXCEPT ![r] = result]
          /\ pc' = [pc EXCEPT ![r] = next]
  BY DEF CreatePlan
<1>2. ControlType'
  BY <1>1 DEF IInv, ControlType
<1>3. LockInv'
  BY <1>1 DEF IInv, ControlType, LockInv, Executing
<1>4. PlanInv'
  BY <1>1 DEF IInv, ControlType, PlanInv, Executing, HasOpenPlan
<1> QED BY <1>2, <1>3, <1>4 DEF IInv

\* The run ends and gives its lock back, or its session and lock are gone.
LEMMA EndStep ==
    ASSUME IInv, NEW r \in Runners, EndRun(r), UNCHANGED status,
           lock' = IF lock = r THEN NoRunner ELSE lock
    PROVE  IInv'
<1>1. ControlType'
  BY DEF IInv, ControlType, EndRun
<1>2. LockInv'
  BY DEF IInv, ControlType, LockInv, Executing, EndRun
<1>3. PlanInv'
  BY DEF IInv, ControlType, PlanInv, Executing, HasOpenPlan, EndRun
<1> QED BY <1>1, <1>2, <1>3 DEF IInv

\* No run executes while the lock is free, so reconciling hurts nobody.
LEMMA AcquireStep ==
    ASSUME IInv, NEW r \in Runners, Acquire(r) \/ AcquireFails(r)
    PROVE  IInv'
<1>0. \A q \in Runners : ~Executing(q)
  BY NoneAssumption DEF IInv, LockInv, Acquire, AcquireFails, MayLock
<1>1. ControlType'
  BY DEF IInv, ControlType, Acquire, AcquireFails, tableVars
<1>2. LockInv'
  BY <1>0 DEF IInv, ControlType, LockInv, Executing, Acquire, AcquireFails
<1>3. PlanInv'
  BY <1>0 DEF IInv, ControlType, PlanInv, Executing, HasOpenPlan, Acquire, AcquireFails
<1> QED BY <1>1, <1>2, <1>3 DEF IInv

\* finishPlan: no other run works on the same plan.
LEMMA FinishStep ==
    ASSUME IInv, NEW r \in Runners, FinishPlan(r)
    PROVE  IInv'
<1>0. \A q \in Runners : q # r => ~Executing(q)
  BY DEF IInv, LockInv, FinishPlan, Executing
<1>1. ControlType'
  BY DEF IInv, ControlType, FinishPlan
<1>2. LockInv'
  BY DEF IInv, ControlType, LockInv, Executing, FinishPlan
<1>3. PlanInv'
  BY <1>0 DEF IInv, ControlType, PlanInv, Executing, HasOpenPlan, FinishPlan
<1> QED BY <1>1, <1>2, <1>3 DEF IInv

LEMMA BatchStep ==
    ASSUME IInv, NEW r \in Runners, Preflight(r) \/ Write(r) \/ Verify(r) \/ Recheck(r)
    PROVE  IInv'
<1>0. Executing(r) /\ HasOpenPlan(r) /\ verdict \in [Runners -> {"applied", "failed"}]
  BY DEF Preflight, Write, Verify, Recheck, Executing, HasOpenPlan, IInv, ControlType
<1>1. CASE BatchDone(r)
  <2>1. PICK phase \in {"preflight", "finishing"} : pc' = [pc EXCEPT ![r] = phase]
    BY <1>1 DEF BatchDone
  <2>2. /\ UNCHANGED <<lock, planOf, status>>
        /\ verdict' \in [Runners -> {"applied", "failed"}]
    BY <1>0, <1>1 DEF BatchDone, tableVars
  <2> QED BY <1>0, <2>1, <2>2, PhaseStep
<1>2. CASE /\ UNCHANGED <<lock, planOf, status>>
           /\ \E phase \in {"writing", "verifying", "recheck", "finishing"} :
                  pc' = [pc EXCEPT ![r] = phase]
           /\ verdict' = verdict \/ verdict' = [verdict EXCEPT ![r] = "failed"]
  <2>1. verdict' \in [Runners -> {"applied", "failed"}]
    BY <1>0, <1>2
  <2> QED BY <1>0, <1>2, <2>1, PhaseStep
<1>3. BatchDone(r) \/ /\ UNCHANGED <<lock, planOf, status>>
                      /\ \E phase \in {"writing", "verifying", "recheck", "finishing"} :
                             pc' = [pc EXCEPT ![r] = phase]
                      /\ verdict' = verdict \/ verdict' = [verdict EXCEPT ![r] = "failed"]
  BY DEF Preflight, Write, Verify, Recheck, tableVars
<1> QED BY <1>1, <1>2, <1>3

LEMMA InvStep ==
    ASSUME ~SessionMayBeLost, IInv, [Next]_vars
    PROVE  IInv'
<1>1. ASSUME NEW r \in Runners, Start(r) PROVE IInv'
  BY <1>1 DEF IInv, ControlType, LockInv, PlanInv, Executing, HasOpenPlan, Start, tableVars
<1>2. ASSUME NEW r \in Runners, Acquire(r) \/ AcquireFails(r) PROVE IInv'
  BY <1>2, AcquireStep
<1>3. ASSUME NEW r \in Runners, Unlock(r) PROVE IInv'
  BY <1>3, EndStep DEF Unlock, FreeLock, tableVars
<1>4. ASSUME NEW r \in Runners, ScoreUnusable(r) \/ NothingToChange(r) \/ ScoreUsable(r)
      PROVE  IInv'
  BY <1>4, CreateStep DEF ScoreUnusable, NothingToChange, ScoreUsable
<1>5. ASSUME NEW r \in Runners, Confirm(r) PROVE IInv'
  BY <1>5, PhaseStep DEF Confirm, Executing, HasOpenPlan, IInv, ControlType, tableVars
<1>6. ASSUME NEW r \in Runners, ConfirmRefused(r) \/ RunThrows(r) PROVE IInv'
  <2>1. Executing(r) /\ pc' = [pc EXCEPT ![r] = "unlocking"]
    BY <1>6 DEF ConfirmRefused, RunThrows, Executing
  <2>2. UNCHANGED <<lock, planOf, status, verdict>>
    BY <1>6 DEF ConfirmRefused, RunThrows, tableVars
  <2> QED BY <2>1, <2>2, PhaseStep DEF IInv, ControlType
<1>7. ASSUME NEW r \in Runners, Preflight(r) \/ Write(r) \/ Verify(r) \/ Recheck(r)
      PROVE  IInv'
  BY <1>7, BatchStep
<1>8. ASSUME NEW r \in Runners, FinishPlan(r) PROVE IInv'
  BY <1>8, FinishStep
<1>9. ASSUME NEW r \in Runners, LoseSession(r) PROVE IInv'
  BY <1>9 DEF LoseSession
<1>10. ASSUME NEW r \in Runners, Crash(r) PROVE IInv'
  BY <1>10, EndStep DEF Crash, tableVars
<1>11. CASE UNCHANGED vars \/ \E w \in late : LateWrite(w)
  <2>1. UNCHANGED <<lock, pc, planOf, verdict, status>>
    BY <1>11 DEF LateWrite, vars, tableVars
  <2> QED BY <2>1 DEF IInv, ControlType, LockInv, PlanInv, Executing, HasOpenPlan
<1> QED BY <1>1, <1>2, <1>3, <1>4, <1>5, <1>6, <1>7, <1>8, <1>9, <1>10, <1>11 DEF Next, Step

LEMMA InitInv == Init => IInv
BY NoneAssumption DEF Init, IInv, ControlType, LockInv, PlanInv, Executing, HasOpenPlan

-----------------------------------------------------------------------------
(* The theorems.  All of them assume that the session which holds the      *)
(* advisory lock lives as long as its run.                                 *)

\* The inductive invariant.
THEOREM InvariantHolds == ASSUME ~SessionMayBeLost PROVE Spec => []IInv
<1>1. IInv /\ [Next]_vars => IInv'
  BY InvStep
<1> QED BY InitInv, <1>1, PTL DEF Spec

\* Runs exclude each other, through crashes, failing reads and failed runs.
THEOREM RunsExcludeEachOther == ASSUME ~SessionMayBeLost PROVE Spec => []ExecutingOwnsLock
<1>1. IInv => ExecutingOwnsLock
  BY DEF IInv, LockInv, ExecutingOwnsLock
<1> QED BY InvariantHolds, <1>1, PTL

\* Who changes the status of a plan: the run that gets the lock, the run that
\* creates a plan in a row of its own, and the run that finishes its plan.
LEMMA StatusChange ==
    ASSUME ~SessionMayBeLost, IInv, [Next]_vars, status' # status
    PROVE  \/ /\ \A q \in Runners : ~Executing(q)
              /\ \A p \in Plans : status'[p] = IF status[p] = "pending" THEN "failed" ELSE status[p]
           \/ \E p \in Plans : /\ status[p] # "pending"
                               /\ status' = [status EXCEPT ![p] = "pending"]
           \/ \E r \in Runners : /\ pc[r] = "finishing" /\ pc'[r] = "unlocking"
                                 /\ \A q \in Runners : q # r => ~Executing(q)
                                 /\ status[planOf[r]] = "pending" /\ planOf[r] \in Plans
                                 /\ status' = [status EXCEPT ![planOf[r]] = verdict[r]]
<1>1. ASSUME NEW r \in Runners, Acquire(r)
      PROVE  /\ \A q \in Runners : ~Executing(q)
             /\ \A p \in Plans : status'[p] = IF status[p] = "pending" THEN "failed" ELSE status[p]
  BY <1>1, NoneAssumption DEF IInv, LockInv, Acquire, MayLock
<1>2. ASSUME NEW r \in Runners, ScoreUnusable(r) \/ NothingToChange(r) \/ ScoreUsable(r)
      PROVE  \E p \in Plans : status[p] # "pending" /\ status' = [status EXCEPT ![p] = "pending"]
  BY <1>2 DEF ScoreUnusable, NothingToChange, ScoreUsable, CreatePlan
<1>3. ASSUME NEW r \in Runners, FinishPlan(r)
      PROVE  /\ pc[r] = "finishing" /\ pc'[r] = "unlocking"
             /\ \A q \in Runners : q # r => ~Executing(q)
             /\ status[planOf[r]] = "pending" /\ planOf[r] \in Plans
             /\ status' = [status EXCEPT ![planOf[r]] = verdict[r]]
  BY <1>3 DEF IInv, ControlType, LockInv, PlanInv, FinishPlan, Executing, HasOpenPlan
<1>4. CASE UNCHANGED status
  BY <1>4
<1>5. ASSUME NEW r \in Runners,
             \/ Start(r) \/ AcquireFails(r) \/ Unlock(r) \/ Confirm(r) \/ ConfirmRefused(r)
             \/ RunThrows(r) \/ Preflight(r) \/ Write(r) \/ Verify(r) \/ Recheck(r)
             \/ LoseSession(r) \/ Crash(r)
      PROVE  UNCHANGED status
  BY <1>5 DEF Start, AcquireFails, Unlock, Confirm, ConfirmRefused, RunThrows, Preflight,
              Write, Verify, Recheck, BatchDone, LoseSession, Crash, tableVars
<1>6. CASE UNCHANGED vars \/ \E w \in late : LateWrite(w)
  BY <1>6 DEF LateWrite, vars, tableVars
<1> QED BY <1>1, <1>2, <1>3, <1>5, <1>6 DEF Next, Step

\* Reconciliation never fails the plan of a live run.
THEOREM LivePlansAreNotReconciled == ASSUME ~SessionMayBeLost PROVE Spec => SettledByItsRun
<1> DEFINE Settled ==
      \A p \in Plans, r \in Runners :
          /\ status[p] = "pending" /\ status'[p] # "pending"
          /\ planOf[r] = p /\ Executing(r) /\ pc[r] # "unlocking"
          => pc[r] = "finishing" /\ pc'[r] = "unlocking"
<1>1. IInv /\ [Next]_vars => [Settled]_vars
  <2> SUFFICES ASSUME IInv, [Next]_vars, NEW p \in Plans, NEW r \in Runners,
                      status[p] = "pending", status'[p] # "pending",
                      planOf[r] = p, Executing(r), pc[r] # "unlocking"
               PROVE  pc[r] = "finishing" /\ pc'[r] = "unlocking"
    OBVIOUS
  <2> QED BY StatusChange DEF IInv, ControlType
<1>2. [][Settled]_vars <=> SettledByItsRun
  BY DEF SettledByItsRun
<1> HIDE DEF Settled
<1> QED BY InvariantHolds, <1>1, <1>2, PTL DEF Spec

\* A finished plan keeps its status in the history.
THEOREM HistoryIsNotRewritten == ASSUME ~SessionMayBeLost PROVE Spec => FinalStatusStays
<1> DEFINE Stays ==
      \A p \in Plans :
          /\ status[p] = "applied" => status'[p] # "failed"
          /\ status[p] = "failed" => status'[p] # "applied"
<1>1. IInv /\ [Next]_vars => [Stays]_vars
  <2> SUFFICES ASSUME IInv, [Next]_vars, NEW p \in Plans
               PROVE  /\ status[p] = "applied" => status'[p] # "failed"
                      /\ status[p] = "failed" => status'[p] # "applied"
    OBVIOUS
  <2>1. CASE status' = status
    BY <2>1
  <2>2. CASE status' # status
    BY <2>2, StatusChange DEF IInv, ControlType
  <2> QED BY <2>1, <2>2
<1>2. [][Stays]_vars <=> FinalStatusStays
  BY DEF FinalStatusStays
<1> HIDE DEF Stays
<1> QED BY InvariantHolds, <1>1, <1>2, PTL DEF Spec

-----------------------------------------------------------------------------
(* The batches.  From here on no request takes effect after its client gave *)
(* it up either.                                                            *)

\* Quotients: a smaller quotient is that of a smaller number, and the last of n
\* things in groups of d is in the last group.
LEMMA LowerQuotient ==
    ASSUME NEW m \in Nat, NEW n \in Nat, NEW d \in Nat \ {0}, m \div d < n \div d
    PROVE  m < n
BY SMTT(30)

LEMMA LastGroup ==
    ASSUME NEW m \in Nat, NEW n \in Nat, NEW d \in Nat \ {0}, m < n
    PROVE  /\ m \div d \in Nat /\ (n + d - 1) \div d \in Nat
           /\ m \div d < (n + d - 1) \div d
BY SMTT(30)

LEMMA TargetFacts ==
    ASSUME NEW desired \in Targets
    PROVE  /\ DOMAIN desired \subseteq Accounts /\ IsFiniteSet(DOMAIN desired)
           /\ \A a \in DOMAIN desired : a \in Nat /\ desired[a] \in Priorities
<1>1. PICK S \in SUBSET Accounts : desired \in [S -> Priorities]
  BY DEF Targets
<1> QED BY <1>1, PolicyAssumption, FS_Subset

\* The order of the changes is strict: nothing precedes itself or what precedes it.
LEMMA PrecedesIsStrict ==
    ASSUME NEW before \in [Accounts -> Priorities], NEW desired \in Targets,
           NEW a \in DOMAIN desired, NEW b \in DOMAIN desired, NEW c \in DOMAIN desired
    PROVE  /\ ~Precedes(before, desired, a, a)
           /\ Precedes(before, desired, a, b) /\ Precedes(before, desired, b, c)
              => Precedes(before, desired, a, c)
<1>1. \A x \in DOMAIN desired : x \in Nat /\ desired[x] \in Nat /\ before[x] \in Nat
  BY TargetFacts, PolicyAssumption DEF Priorities
<1>2. \A x \in DOMAIN desired : Delta(before, desired, x) \in Nat
  BY <1>1 DEF Delta
<1> QED BY <1>1, <1>2 DEF Precedes

LEMMA RanksAreNumbers ==
    ASSUME NEW before, NEW desired \in Targets, NEW a \in DOMAIN desired
    PROVE  /\ IsFiniteSet({b \in DOMAIN desired : Precedes(before, desired, b, a)})
           /\ Rank(before, desired, a) \in Nat
<1>1. IsFiniteSet({b \in DOMAIN desired : Precedes(before, desired, b, a)})
  BY TargetFacts, FS_Subset
<1> QED BY <1>1, FS_CardinalityType DEF Rank

\* What precedes a change has a smaller rank, and all ranks are below the number
\* of changes.
LEMMA RanksFollowTheOrder ==
    ASSUME NEW before \in [Accounts -> Priorities], NEW desired \in Targets,
           NEW a \in DOMAIN desired, NEW b \in DOMAIN desired,
           Precedes(before, desired, a, b)
    PROVE  Rank(before, desired, a) < Rank(before, desired, b)
<1> DEFINE Earlier(x) == {y \in DOMAIN desired : Precedes(before, desired, y, x)}
<1>1. Earlier(a) \subseteq Earlier(b) /\ a \in Earlier(b) /\ a \notin Earlier(a)
  BY PrecedesIsStrict
<1>2. IsFiniteSet(Earlier(b)) /\ IsFiniteSet(Earlier(a))
  BY RanksAreNumbers
<1>3. Cardinality(Earlier(a)) < Cardinality(Earlier(b))
  <2> HIDE DEF Earlier
  <2> QED BY <1>1, <1>2, FS_Subset, FS_CardinalityType
<1> QED BY <1>3 DEF Rank

LEMMA RanksAreBounded ==
    ASSUME NEW before \in [Accounts -> Priorities], NEW desired \in Targets,
           NEW a \in DOMAIN desired
    PROVE  /\ Cardinality(DOMAIN desired) \in Nat
           /\ Rank(before, desired, a) < Cardinality(DOMAIN desired)
<1> DEFINE earlier == {y \in DOMAIN desired : Precedes(before, desired, y, a)}
<1>1. earlier \subseteq DOMAIN desired /\ a \notin earlier
  BY PrecedesIsStrict
<1>2. IsFiniteSet(DOMAIN desired) /\ IsFiniteSet(earlier)
  BY TargetFacts, RanksAreNumbers
<1>3. /\ Cardinality(DOMAIN desired) \in Nat
      /\ Cardinality(earlier) < Cardinality(DOMAIN desired)
  <2> HIDE DEF earlier
  <2> QED BY <1>1, <1>2, FS_Subset, FS_CardinalityType
<1> QED BY <1>3 DEF Rank

\* The batches of a run, for the priorities it wants and those that are in force.
Within(batches, desired)  == \A i \in 1..Len(batches) : batches[i] \subseteq DOMAIN desired
Covers(batches, desired, held) ==
    \A a \in DOMAIN desired :
        held[a] = desired[a] \/ \E i \in 1..Len(batches) : a \in batches[i]
RisksFirst(batches, desired, held) ==
    \A i, j \in 1..Len(batches) : i < j =>
        \A a \in batches[i], b \in batches[j] : ~(desired[a] < held[a] /\ desired[b] > held[b])

\* What the split into batches promises: every change is in a batch, and none that
\* takes traffic away is behind one that brings some.
LEMMA BatchesAreOrdered ==
    ASSUME NEW before \in [Accounts -> Priorities], NEW desired \in Targets,
           DOMAIN desired # {}
    PROVE  LET batches == Batches(before, desired)
           IN  /\ batches \in Seq(SUBSET Accounts) /\ batches # <<>>
               /\ Within(batches, desired)
               /\ Covers(batches, desired, before)
               /\ RisksFirst(batches, desired, before)
<1> DEFINE size    == Cardinality(DOMAIN desired)
           count   == (size + BatchSize - 1) \div BatchSize
           part(i) == {a \in DOMAIN desired : Rank(before, desired, a) \div BatchSize = i - 1}
           batches == Batches(before, desired)
<1>0. BatchSize \in Nat \ {0}
  BY PolicyAssumption
<1>1. \A a \in DOMAIN desired :
        /\ Rank(before, desired, a) \in Nat
        /\ Rank(before, desired, a) \div BatchSize \in Nat /\ count \in Nat
        /\ Rank(before, desired, a) \div BatchSize < count
  <2> SUFFICES ASSUME NEW a \in DOMAIN desired
               PROVE  /\ Rank(before, desired, a) \in Nat
                      /\ Rank(before, desired, a) \div BatchSize \in Nat /\ count \in Nat
                      /\ Rank(before, desired, a) \div BatchSize < count
    OBVIOUS
  <2>1. Rank(before, desired, a) \in Nat /\ size \in Nat /\ Rank(before, desired, a) < size
    BY RanksAreNumbers, RanksAreBounded
  <2> HIDE DEF size
  <2> QED BY <2>1, <1>0, LastGroup
<1>2. PICK some \in DOMAIN desired : TRUE
  OBVIOUS
<1>3. count \in Nat /\ count > 0
  <2> HIDE DEF count
  <2> QED BY <1>1, <1>2
<1>4. batches = [i \in 1..count |-> part(i)]
  BY DEF Batches
<1> HIDE DEF batches, count
<1>5. \A i \in 1..count : part(i) \in SUBSET Accounts
  BY TargetFacts
<1>6. /\ batches \in Seq(SUBSET Accounts) /\ Len(batches) = count /\ DOMAIN batches = 1..count
      /\ \A i \in 1..count : batches[i] = part(i)
  <2> HIDE DEF part
  <2> QED BY <1>3, <1>4, <1>5
<1>7. batches # <<>>
  BY <1>3, <1>6
<1>8. Within(batches, desired)
  BY <1>6 DEF Within
<1>9. Covers(batches, desired, before)
  <2> SUFFICES ASSUME NEW a \in DOMAIN desired
               PROVE  \E i \in 1..Len(batches) : a \in batches[i]
    BY DEF Covers
  <2> DEFINE i == Rank(before, desired, a) \div BatchSize + 1
  <2>1. i \in 1..count /\ Rank(before, desired, a) \div BatchSize = i - 1
    BY <1>1, <1>3
  <2>2. a \in part(i)
    BY <2>1
  <2> QED BY <1>6, <2>1, <2>2
<1>10. RisksFirst(batches, desired, before)
  <2> SUFFICES ASSUME NEW i \in 1..count, NEW j \in 1..count, i < j,
                      NEW a \in part(i), NEW b \in part(j),
                      desired[a] < before[a], desired[b] > before[b]
               PROVE  FALSE
    BY <1>6 DEF RisksFirst
  <2>1. Rank(before, desired, a) \div BatchSize < Rank(before, desired, b) \div BatchSize
    BY <1>3
  <2>2. Rank(before, desired, a) < Rank(before, desired, b)
    BY <1>0, <1>1, <2>1, LowerQuotient
  <2>3. ~(desired[a] > before[a])
    BY TargetFacts, PolicyAssumption DEF Priorities
  <2>4. Precedes(before, desired, b, a)
    BY <2>3 DEF Precedes
  <2>5. Rank(before, desired, b) < Rank(before, desired, a)
    BY <2>4, RanksFollowTheOrder
  <2> QED BY <1>1, <2>2, <2>5
<1> QED BY <1>6, <1>7, <1>8, <1>9, <1>10 DEF batches

\* What the run is working on, in these phases with batches.
HasBatches(r) == pc[r] \in {"confirming", "preflight", "writing", "verifying", "recheck"}
Desired(r)    == target[planOf[r]]

BatchType ==
    /\ target \in [Plans -> Targets]
    /\ todo \in [Runners -> Seq(SUBSET Accounts)]
    /\ unmatched \in [Runners -> SUBSET Accounts]
    /\ priority \in [Accounts -> Priorities]
    /\ late = {}

\* A run has a batch, its batches hold what is not in force yet, in the order of
\* risk for the priorities that are in force now, and it writes to the first one.
\* A run that is about to say applied has every change in force.
RunInv(r) ==
    /\ HasBatches(r) =>
        /\ todo[r] # <<>>
        /\ Within(todo[r], Desired(r))
        /\ Covers(todo[r], Desired(r), priority)
        /\ RisksFirst(todo[r], Desired(r), priority)
    /\ pc[r] = "writing" => unmatched[r] \subseteq Batch(r)
    /\ pc[r] = "finishing" /\ verdict[r] = "applied" =>
        \A a \in DOMAIN Desired(r) : priority[a] = Desired(r)[a]

BatchInv == BatchType /\ \A r \in Runners : RunInv(r)

\* When the first batch is in force, the others hold all that is not.
LEMMA BatchesGoOn ==
    ASSUME NEW batches \in Seq(SUBSET Accounts), batches # <<>>, NEW desired, NEW held,
           Within(batches, desired), Covers(batches, desired, held),
           RisksFirst(batches, desired, held),
           \A a \in Head(batches) : held[a] = desired[a]
    PROVE  /\ Tail(batches) \in Seq(SUBSET Accounts)
           /\ Len(batches) > 1 => Tail(batches) # <<>>
           /\ Within(Tail(batches), desired)
           /\ Covers(Tail(batches), desired, held)
           /\ RisksFirst(Tail(batches), desired, held)
           /\ ~(Len(batches) > 1) => \A a \in DOMAIN desired : held[a] = desired[a]
<1> DEFINE rest == Tail(batches)
<1>1. /\ rest \in Seq(SUBSET Accounts) /\ Len(batches) \in Nat /\ Len(batches) >= 1
      /\ Len(rest) = Len(batches) - 1
      /\ \A i \in 1..Len(rest) : rest[i] = batches[i + 1] /\ i + 1 \in 1..Len(batches)
      /\ Head(batches) = batches[1]
  OBVIOUS
<1>2. \A a \in DOMAIN desired :
          held[a] = desired[a] \/ \E i \in 2..Len(batches) : a \in batches[i]
  BY <1>1 DEF Covers
<1>3. \A i \in 2..Len(batches) : i - 1 \in 1..Len(rest) /\ batches[i] = rest[i - 1]
  BY <1>1
<1> HIDE DEF rest
<1>4. Len(batches) > 1 => rest # <<>>
  BY <1>1
<1>5. Within(rest, desired)
  BY <1>1 DEF Within
<1>6. Covers(rest, desired, held)
  BY <1>2, <1>3 DEF Covers
<1>7. RisksFirst(rest, desired, held)
  <2> SUFFICES ASSUME NEW i \in 1..Len(rest), NEW j \in 1..Len(rest), i < j,
                      NEW a \in rest[i], NEW b \in rest[j],
                      desired[a] < held[a], desired[b] > held[b]
               PROVE  FALSE
    BY DEF RisksFirst
  <2>1. /\ i + 1 \in 1..Len(batches) /\ j + 1 \in 1..Len(batches) /\ i + 1 < j + 1
        /\ a \in batches[i + 1] /\ b \in batches[j + 1]
    BY <1>1
  <2> QED BY <2>1 DEF RisksFirst
<1>8. ~(Len(batches) > 1) => \A a \in DOMAIN desired : held[a] = desired[a]
  BY <1>1, <1>2
<1>9. rest = Tail(batches) /\ rest \in Seq(SUBSET Accounts)
  BY <1>1 DEF rest
<1> QED BY <1>4, <1>5, <1>6, <1>7, <1>8, <1>9

\* A change that is in force is no risk any more, wherever its batch is.
LEMMA WritesKeepTheOrder ==
    ASSUME NEW batches \in Seq(SUBSET Accounts), NEW desired \in Targets,
           NEW held \in [Accounts -> Priorities], NEW now \in [Accounts -> Priorities],
           \A a \in DOMAIN desired : now[a] = held[a] \/ now[a] = desired[a],
           Within(batches, desired), Covers(batches, desired, held),
           RisksFirst(batches, desired, held)
    PROVE  Covers(batches, desired, now) /\ RisksFirst(batches, desired, now)
<1>1. \A a \in DOMAIN desired : desired[a] \in Nat
  BY TargetFacts, PolicyAssumption DEF Priorities
<1>2. Covers(batches, desired, now)
  <2>1. \A a \in DOMAIN desired : held[a] = desired[a] => now[a] = desired[a]
    OBVIOUS
  <2> QED BY <2>1 DEF Covers
<1>3. RisksFirst(batches, desired, now)
  <2> SUFFICES ASSUME NEW i \in 1..Len(batches), NEW j \in 1..Len(batches), i < j,
                      NEW a \in batches[i], NEW b \in batches[j],
                      desired[a] < now[a], desired[b] > now[b]
               PROVE  FALSE
    BY DEF RisksFirst
  <2>1. a \in DOMAIN desired /\ b \in DOMAIN desired
    BY DEF Within
  <2>2. now[a] = held[a] /\ now[b] = held[b]
    BY <1>1, <2>1
  <2> QED BY <2>2 DEF RisksFirst
<1> QED BY <1>2, <1>3

\* While a run executes, nobody else has batches.
LEMMA OthersRest ==
    ASSUME IInv, NEW r \in Runners, Executing(r), NEW q \in Runners, q # r, pc'[q] = pc[q]
    PROVE  RunInv(q)'
<1>1. pc'[q] \in {"idle", "waiting"}
  BY DEF IInv, LockInv, Executing
<1> QED BY <1>1 DEF RunInv, HasBatches

LEMMA RestingRun ==
    ASSUME NEW r \in Runners, pc'[r] \in {"idle", "waiting", "scoring", "unlocking"}
    PROVE  RunInv(r)'
BY DEF RunInv, HasBatches

LEMMA UntouchedRun ==
    ASSUME NEW q \in Runners, RunInv(q), pc'[q] = pc[q], planOf'[q] = planOf[q],
           verdict'[q] = verdict[q], todo'[q] = todo[q], unmatched'[q] = unmatched[q],
           UNCHANGED <<target, priority>>
    PROVE  RunInv(q)'
BY DEF RunInv, HasBatches, Desired, Batch, Within, Covers, RisksFirst

\* A run that does not start, or ends, whoever else executes.
LEMMA RestingStep ==
    ASSUME IInv, BatchInv, NEW r \in Runners,
           NEW phase \in {"idle", "waiting", "scoring", "unlocking"},
           pc' = [pc EXCEPT ![r] = phase],
           planOf' = planOf \/ planOf' = [planOf EXCEPT ![r] = NoPlan],
           verdict' = verdict \/ verdict' = [verdict EXCEPT ![r] = "failed"],
           todo' = todo \/ todo' = [todo EXCEPT ![r] = <<>>],
           unmatched' = unmatched \/ unmatched' = [unmatched EXCEPT ![r] = {}],
           UNCHANGED <<target, priority, late>>
    PROVE  BatchInv'
<1>1. BatchType'
  <2>1. todo' \in [Runners -> Seq(SUBSET Accounts)]
    BY <<>> \in Seq(SUBSET Accounts) DEF BatchInv, BatchType
  <2>2. unmatched' \in [Runners -> SUBSET Accounts]
    BY DEF BatchInv, BatchType
  <2> QED BY <2>1, <2>2 DEF BatchInv, BatchType
<1>2. RunInv(r)'
  BY RestingRun DEF IInv, ControlType
<1>3. ASSUME NEW q \in Runners, q # r PROVE RunInv(q)'
  <2>1. RunInv(q)
    BY DEF BatchInv
  <2>2. /\ pc'[q] = pc[q] /\ planOf'[q] = planOf[q] /\ verdict'[q] = verdict[q]
        /\ todo'[q] = todo[q] /\ unmatched'[q] = unmatched[q]
    BY <1>3 DEF IInv, ControlType, BatchInv, BatchType
  <2> QED BY <2>1, <2>2, UntouchedRun
<1> QED BY <1>1, <1>2, <1>3 DEF BatchInv

\* A new plan: without changes it is finished at once, otherwise it has batches.
LEMMA ScoreStep ==
    ASSUME IInv, BatchInv, NEW r \in Runners,
           ScoreUnusable(r) \/ NothingToChange(r) \/ ScoreUsable(r)
    PROVE  BatchInv'
<1>1. NoTarget \in Targets /\ DOMAIN NoTarget = {}
  <2>1. NoTarget \in [{} -> Priorities]
    BY DEF NoTarget
  <2> QED BY <2>1 DEF NoTarget, Targets
<1>2. PICK desired \in Targets, next \in {"finishing", "confirming"}, result \in {"applied", "failed"} :
          /\ CreatePlan(r, desired, next, result)
          /\ IF next = "finishing" THEN DOMAIN desired = {} ELSE DOMAIN desired # {}
  BY <1>1 DEF ScoreUnusable, NothingToChange, ScoreUsable
<1>3. PICK p \in Plans :
          /\ target' = [target EXCEPT ![p] = desired]
          /\ planOf' = [planOf EXCEPT ![r] = p]
          /\ todo' = [todo EXCEPT ![r] = Batches(priority, desired)]
          /\ verdict' = [verdict EXCEPT ![r] = result]
          /\ pc' = [pc EXCEPT ![r] = next]
  BY <1>2 DEF CreatePlan
<1>4. Executing(r) /\ UNCHANGED <<unmatched, priority, late>>
  BY DEF ScoreUnusable, NothingToChange, ScoreUsable, Executing, worldVars
<1>5. Batches(priority, desired) \in Seq(SUBSET Accounts)
  <2>1. CASE DOMAIN desired # {}
    BY <2>1, BatchesAreOrdered DEF BatchInv, BatchType
  <2>2. CASE DOMAIN desired = {}
    <3>1. Cardinality(DOMAIN desired) = 0
      BY <2>2, FS_EmptySet
    <3>2. PICK count \in Nat :
              Batches(priority, desired) =
                  [i \in 1..count |->
                      {a \in DOMAIN desired : Rank(priority, desired, a) \div BatchSize = i - 1}]
      <4>1. (0 + BatchSize - 1) \div BatchSize \in Nat
        BY PolicyAssumption, SMTT(30)
      <4> QED BY <3>1, <4>1 DEF Batches
    <3> QED BY <2>2, <3>2
  <2> QED BY <2>1, <2>2
<1>6. BatchType'
  BY <1>3, <1>4, <1>5 DEF BatchInv, BatchType
<1>7. /\ pc'[r] = next /\ planOf'[r] = p /\ target'[p] = desired
      /\ todo'[r] = Batches(priority, desired)
  BY <1>3 DEF IInv, ControlType, BatchInv, BatchType
<1>8. RunInv(r)'
  <2>1. CASE next = "finishing"
    BY <1>2, <1>7, <2>1 DEF RunInv, HasBatches, Desired
  <2>2. CASE next = "confirming"
    <3>1. /\ todo'[r] # <<>> /\ Within(todo'[r], desired)
          /\ Covers(todo'[r], desired, priority) /\ RisksFirst(todo'[r], desired, priority)
      BY <1>2, <1>7, <2>2, BatchesAreOrdered DEF BatchInv, BatchType
    <3> QED BY <1>4, <1>7, <2>2, <3>1 DEF RunInv, HasBatches, Desired, Within, Covers, RisksFirst
  <2> QED BY <2>1, <2>2
<1>9. ASSUME NEW q \in Runners, q # r PROVE RunInv(q)'
  BY <1>3, <1>4, <1>9, OthersRest DEF IInv, ControlType
<1> QED BY <1>6, <1>8, <1>9 DEF BatchInv

\* The first batch is in force.
LEMMA DoneStep ==
    ASSUME IInv, BatchInv, NEW r \in Runners, HasBatches(r), Mismatches(r) = {}, BatchDone(r)
    PROVE  BatchInv'
<1>1. /\ todo[r] \in Seq(SUBSET Accounts) /\ todo[r] # <<>>
      /\ Within(todo[r], Desired(r)) /\ Covers(todo[r], Desired(r), priority)
      /\ RisksFirst(todo[r], Desired(r), priority)
  BY DEF BatchInv, BatchType, RunInv
<1>2. \A a \in Head(todo[r]) : priority[a] = Desired(r)[a]
  BY DEF Mismatches, Batch, Desired
<1>3. /\ Tail(todo[r]) \in Seq(SUBSET Accounts)
      /\ Len(todo[r]) > 1 => Tail(todo[r]) # <<>>
      /\ Within(Tail(todo[r]), Desired(r)) /\ Covers(Tail(todo[r]), Desired(r), priority)
      /\ RisksFirst(Tail(todo[r]), Desired(r), priority)
      /\ ~(Len(todo[r]) > 1) => \A a \in DOMAIN Desired(r) : priority[a] = Desired(r)[a]
  BY <1>1, <1>2, BatchesGoOn
<1>4. /\ UNCHANGED <<planOf, target, priority, late>> /\ Executing(r)
      /\ pc' = [pc EXCEPT ![r] = IF Len(todo[r]) > 1 THEN "preflight" ELSE "finishing"]
      /\ todo' = [todo EXCEPT ![r] = Tail(todo[r])]
      /\ unmatched' = [unmatched EXCEPT ![r] = {}]
  BY DEF BatchDone, tableVars, worldVars, HasBatches, Executing
<1>5. BatchType'
  BY <1>3, <1>4 DEF BatchInv, BatchType
<1>6. /\ pc'[r] = IF Len(todo[r]) > 1 THEN "preflight" ELSE "finishing"
      /\ todo'[r] = Tail(todo[r]) /\ Desired(r)' = Desired(r)
  BY <1>4 DEF IInv, ControlType, BatchInv, BatchType, Desired
<1>7. RunInv(r)'
  <2>1. CASE Len(todo[r]) > 1
    <3>1. pc'[r] = "preflight"
      BY <1>6, <2>1
    <3> DEFINE rest == Tail(todo[r])
    <3>2. /\ todo'[r] = rest /\ rest # <<>> /\ Within(rest, Desired(r))
          /\ Covers(rest, Desired(r), priority) /\ RisksFirst(rest, Desired(r), priority)
      BY <1>3, <1>6, <2>1
    <3>3. Desired(r)' = Desired(r) /\ priority' = priority
      BY <1>4, <1>6
    <3> HIDE DEF rest
    <3>4. (todo[r] # <<>>)' /\ Within(todo[r], Desired(r))'
      BY <3>2, <3>3 DEF Within
    <3>5. Covers(todo[r], Desired(r), priority)'
      BY <3>2, <3>3 DEF Covers
    <3>6. RisksFirst(todo[r], Desired(r), priority)'
      BY <3>2, <3>3 DEF RisksFirst
    <3> QED BY <3>1, <3>4, <3>5, <3>6 DEF RunInv
  <2>2. CASE ~(Len(todo[r]) > 1)
    <3>1. pc'[r] = "finishing"
      BY <1>6, <2>2
    <3> QED BY <1>3, <1>4, <1>6, <2>2, <3>1 DEF RunInv, HasBatches
  <2> QED BY <2>1, <2>2
<1>8. ASSUME NEW q \in Runners, q # r PROVE RunInv(q)'
  BY <1>4, <1>8, OthersRest DEF IInv, ControlType
<1> QED BY <1>5, <1>7, <1>8 DEF BatchInv

\* The run goes on with the same batch.
LEMMA SameBatchStep ==
    ASSUME IInv, BatchInv, NEW r \in Runners, HasBatches(r),
           NEW phase \in {"preflight", "writing", "recheck", "finishing"},
           pc' = [pc EXCEPT ![r] = phase],
           \/ phase \in {"preflight", "recheck"} /\ UNCHANGED <<verdict, unmatched>>
           \/ phase = "writing" /\ UNCHANGED verdict
              /\ unmatched' = [unmatched EXCEPT ![r] = Mismatches(r)]
           \/ phase = "finishing" /\ UNCHANGED unmatched
              /\ verdict' = [verdict EXCEPT ![r] = "failed"],
           UNCHANGED <<planOf, todo, target, priority, late>>
    PROVE  BatchInv'
<1>1. Batch(r) \subseteq Accounts
  <2>1. todo[r] \in Seq(SUBSET Accounts) /\ todo[r] # <<>>
    BY DEF BatchInv, BatchType, RunInv
  <2> QED BY <2>1 DEF Batch
<1>2. BatchType'
  BY <1>1 DEF BatchInv, BatchType, Mismatches
<1>3. /\ pc'[r] = phase /\ todo'[r] = todo[r] /\ Desired(r)' = Desired(r)
      /\ phase = "writing" => unmatched'[r] \subseteq Batch(r)
      /\ phase = "finishing" => verdict'[r] = "failed"
  BY DEF IInv, ControlType, BatchInv, BatchType, Desired, Mismatches
<1>4. /\ todo[r] # <<>> /\ Within(todo[r], Desired(r))
      /\ Covers(todo[r], Desired(r), priority) /\ RisksFirst(todo[r], Desired(r), priority)
  BY DEF BatchInv, RunInv
<1>5. RunInv(r)'
  <2>1. Batch(r)' = Batch(r)
    BY <1>3 DEF Batch
  <2> QED BY <1>3, <1>4, <2>1 DEF RunInv, HasBatches, Within, Covers, RisksFirst
<1>6. ASSUME NEW q \in Runners, q # r PROVE RunInv(q)'
  <2>1. Executing(r) /\ pc'[q] = pc[q]
    BY <1>6 DEF HasBatches, Executing, IInv, ControlType
  <2> QED BY <1>6, <2>1, OthersRest
<1> QED BY <1>2, <1>5, <1>6 DEF BatchInv

LEMMA WriteStep ==
    ASSUME ~RequestsMayBeLate, IInv, BatchInv, NEW r \in Runners, Write(r)
    PROVE  BatchInv'
<1>1. PICK written \in SUBSET unmatched[r] :
          /\ priority' = [a \in Accounts |-> IF a \in written THEN Desired(r)[a] ELSE priority[a]]
          /\ late' = late
  BY DEF Write, Desired, BatchInv, BatchType
<1>2. /\ pc[r] = "writing" /\ pc' = [pc EXCEPT ![r] = "verifying"]
      /\ UNCHANGED <<planOf, verdict, target, todo, unmatched>>
  BY DEF Write, tableVars, batchVars
<1>3. HasBatches(r) /\ Executing(r)
  BY <1>2 DEF HasBatches, Executing
<1>4. /\ todo[r] \in Seq(SUBSET Accounts) /\ todo[r] # <<>>
      /\ Within(todo[r], Desired(r)) /\ Covers(todo[r], Desired(r), priority)
      /\ RisksFirst(todo[r], Desired(r), priority) /\ unmatched[r] \subseteq Batch(r)
  BY <1>2, <1>3 DEF BatchInv, BatchType, RunInv
<1>5. Desired(r) \in Targets
  <2>1. planOf[r] \in Plans
    BY <1>2 DEF IInv, PlanInv, HasOpenPlan
  <2> QED BY <2>1 DEF Desired, BatchInv, BatchType
<1>6. written \subseteq DOMAIN Desired(r)
  <2>1. Batch(r) = todo[r][1] /\ 1 \in 1..Len(todo[r])
    BY <1>4 DEF Batch
  <2> QED BY <1>4, <2>1 DEF Within
<1>7. /\ priority' \in [Accounts -> Priorities]
      /\ Covers(todo[r], Desired(r), priority') /\ RisksFirst(todo[r], Desired(r), priority')
  <2>1. priority \in [Accounts -> Priorities]
    BY DEF BatchInv, BatchType
  <2> HIDE DEF Desired
  <2>2. priority' \in [Accounts -> Priorities]
    BY <1>1, <1>5, <1>6, <2>1, TargetFacts
  <2>3. \A a \in DOMAIN Desired(r) :
            priority'[a] = priority[a] \/ priority'[a] = Desired(r)[a]
    BY <1>1, <1>5, TargetFacts
  <2> QED BY <1>4, <1>5, <2>1, <2>2, <2>3, WritesKeepTheOrder
<1>8. BatchType'
  BY <1>1, <1>2, <1>7 DEF BatchInv, BatchType
<1>9. RunInv(r)'
  <2>1. pc'[r] = "verifying" /\ todo'[r] = todo[r] /\ Desired(r)' = Desired(r)
    BY <1>2 DEF IInv, ControlType, Desired
  <2> QED BY <1>4, <1>7, <2>1 DEF RunInv, HasBatches, Within, Covers, RisksFirst
<1>10. ASSUME NEW q \in Runners, q # r PROVE RunInv(q)'
  BY <1>2, <1>3, <1>10, OthersRest DEF IInv, ControlType
<1> QED BY <1>8, <1>9, <1>10 DEF BatchInv

LEMMA BatchInvStep ==
    ASSUME ~SessionMayBeLost, ~RequestsMayBeLate, IInv, BatchInv, [Next]_vars
    PROVE  BatchInv'
<1>1. ASSUME NEW r \in Runners, Start(r) \/ Acquire(r) \/ AcquireFails(r) PROVE BatchInv'
  <2>1. /\ \E phase \in {"waiting", "scoring", "unlocking"} : pc' = [pc EXCEPT ![r] = phase]
        /\ UNCHANGED <<planOf, verdict, target, todo, unmatched, priority, late>>
    BY <1>1 DEF Start, Acquire, AcquireFails, tableVars, batchVars, worldVars
  <2> QED BY <2>1, RestingStep
<1>2. ASSUME NEW r \in Runners, Unlock(r) \/ Crash(r) PROVE BatchInv'
  <2>1. EndRun(r) /\ UNCHANGED <<target, priority, late>>
    BY <1>2 DEF Unlock, Crash, tableVars, worldVars
  <2> QED BY <2>1, RestingStep DEF EndRun
<1>3. ASSUME NEW r \in Runners, ConfirmRefused(r) \/ RunThrows(r) \/ FinishPlan(r) PROVE BatchInv'
  <2>1. /\ pc' = [pc EXCEPT ![r] = "unlocking"]
        /\ UNCHANGED <<planOf, verdict, target, todo, unmatched, priority, late>>
    BY <1>3 DEF ConfirmRefused, RunThrows, FinishPlan, tableVars, batchVars, worldVars
  <2> QED BY <2>1, RestingStep
<1>4. ASSUME NEW r \in Runners, ScoreUnusable(r) \/ NothingToChange(r) \/ ScoreUsable(r)
      PROVE  BatchInv'
  BY <1>4, ScoreStep
<1>5. ASSUME NEW r \in Runners, Confirm(r) PROVE BatchInv'
  BY <1>5, SameBatchStep DEF Confirm, HasBatches, tableVars, batchVars, worldVars
<1>6. ASSUME NEW r \in Runners, Preflight(r) \/ Recheck(r) PROVE BatchInv'
  <2>1. HasBatches(r)
    BY <1>6 DEF Preflight, Recheck, HasBatches
  <2>2. CASE Mismatches(r) = {} /\ BatchDone(r)
    BY <2>1, <2>2, DoneStep
  <2>3. CASE /\ pc' = [pc EXCEPT ![r] = "writing"]
             /\ unmatched' = [unmatched EXCEPT ![r] = Mismatches(r)]
             /\ UNCHANGED <<planOf, verdict, target, todo, priority, late>>
    BY <2>1, <2>3, SameBatchStep
  <2> QED BY <1>6, <2>2, <2>3 DEF Preflight, Recheck, tableVars, worldVars
<1>7. ASSUME NEW r \in Runners, Verify(r) PROVE BatchInv'
  <2>1. HasBatches(r)
    BY <1>7 DEF Verify, HasBatches
  <2>2. CASE Mismatches(r) = {} /\ BatchDone(r)
    BY <2>1, <2>2, DoneStep
  <2>3. CASE /\ UNCHANGED <<planOf, target, todo, unmatched, priority, late>>
             /\ \/ /\ pc' = [pc EXCEPT ![r] = "finishing"]
                   /\ verdict' = [verdict EXCEPT ![r] = "failed"]
                \/ pc' = [pc EXCEPT ![r] = "recheck"] /\ UNCHANGED verdict
    BY <2>1, <2>3, SameBatchStep
  <2> QED BY <1>7, <2>2, <2>3 DEF Verify, tableVars, batchVars, worldVars
<1>8. ASSUME NEW r \in Runners, Write(r) PROVE BatchInv'
  BY <1>8, WriteStep
<1>9. ASSUME NEW r \in Runners, LoseSession(r) PROVE BatchInv'
  BY <1>9 DEF LoseSession
<1>10. ~\E w \in late : LateWrite(w)
  BY DEF BatchInv, BatchType
<1>11. CASE UNCHANGED vars
  <2>1. BatchType'
    BY <1>11 DEF vars, BatchInv, BatchType
  <2>2. \A r \in Runners : RunInv(r)'
    BY <1>11, UntouchedRun DEF vars, BatchInv
  <2> QED BY <2>1, <2>2 DEF BatchInv
<1> QED
  BY <1>1, <1>2, <1>3, <1>4, <1>5, <1>6, <1>7, <1>8, <1>9, <1>10, <1>11 DEF Next, Step

LEMMA InitBatchInv == Init => BatchInv
<1> SUFFICES ASSUME Init PROVE BatchInv
  OBVIOUS
<1>1. NoTarget \in Targets
  <2>1. NoTarget \in [{} -> Priorities]
    BY DEF NoTarget
  <2> QED BY <2>1 DEF Targets
<1>2. BatchType
  BY <1>1 DEF Init, BatchType
<1>3. \A r \in Runners : RunInv(r)
  BY DEF Init, RunInv, HasBatches
<1> QED BY <1>2, <1>3 DEF BatchInv

-----------------------------------------------------------------------------
(* Two more theorems, for runs whose session lives and whose requests end   *)
(* with their answer.                                                       *)

\* The batches a run has left hold exactly what its plan still has to change, risks
\* first: the invariant of its writes.
THEOREM BatchesHold == ASSUME ~SessionMayBeLost, ~RequestsMayBeLate PROVE Spec => []BatchInv
<1>1. IInv /\ BatchInv /\ [Next]_vars => BatchInv'
  BY BatchInvStep
<1> QED BY InvariantHolds, InitBatchInv, <1>1, PTL DEF Spec

\* No change that takes traffic away from an account is left for a later batch
\* while a batch moves traffic to another: for any batch size, any number of
\* accounts and priorities, through partial writes, retries and restarts.
THEOREM RisksAreReducedFirst ==
    ASSUME ~SessionMayBeLost, ~RequestsMayBeLate PROVE Spec => []RiskReductionFirst
<1>1. BatchInv => RiskReductionFirst
  <2> SUFFICES ASSUME BatchInv, NEW r \in Runners, pc[r] = "writing",
                      NEW i \in 2..Len(todo[r]), NEW a \in unmatched[r], NEW b \in todo[r][i]
               PROVE  ~(Desired(r)[a] < priority[a] /\ Desired(r)[b] > priority[b])
    BY DEF RiskReductionFirst, Desired
  <2>1. /\ todo[r] \in Seq(SUBSET Accounts) /\ todo[r] # <<>>
        /\ RisksFirst(todo[r], Desired(r), priority) /\ unmatched[r] \subseteq Batch(r)
    BY DEF BatchInv, BatchType, RunInv, HasBatches
  <2>2. Batch(r) = todo[r][1] /\ 1 \in 1..Len(todo[r]) /\ i \in 1..Len(todo[r]) /\ 1 < i
    BY <2>1 DEF Batch
  <2> QED BY <2>1, <2>2 DEF RisksFirst
<1> QED BY BatchesHold, <1>1, PTL

\* A plan that becomes applied is in force, with all its batches.
THEOREM AppliedPlansAreInForce ==
    ASSUME ~SessionMayBeLost, ~RequestsMayBeLate PROVE Spec => AppliedMeansInForce
<1> DEFINE InForce ==
      \A p \in Plans : (status[p] = "pending" /\ status'[p] = "applied")
          => \A a \in DOMAIN target[p] : priority[a] = target[p][a]
<1>1. IInv /\ BatchInv /\ [Next]_vars => [InForce]_vars
  <2> SUFFICES ASSUME IInv, BatchInv, [Next]_vars, NEW p \in Plans,
                      status[p] = "pending", status'[p] = "applied", NEW a \in DOMAIN target[p]
               PROVE  priority[a] = target[p][a]
    OBVIOUS
  <2>1. PICK r \in Runners : pc[r] = "finishing" /\ p = planOf[r] /\ verdict[r] = "applied"
    BY StatusChange DEF IInv, ControlType
  <2> QED BY <2>1 DEF BatchInv, RunInv, Desired
<1>2. [][InForce]_vars <=> AppliedMeansInForce
  BY DEF AppliedMeansInForce
<1> HIDE DEF InForce
<1> QED BY InvariantHolds, BatchesHold, <1>1, <1>2, PTL DEF Spec
=============================================================================
