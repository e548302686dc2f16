---------------------------- MODULE PriorityPlan ----------------------------
(***************************************************************************)
(* Automatic priority plans: OperationsService.runV2AutomaticPriorityPlan  *)
(* (src/src/operations-service.ts) under the global advisory lock of       *)
(* OperationsStore.withPriorityOptimizationQueue (operations-store.ts).    *)
(*                                                                         *)
(* A runner is one execution of the activity for one scope; runners share  *)
(* the plan table, the lock and the accounts of Sub2API, and may live in   *)
(* different processes.  A run scores the accounts, records a plan, writes *)
(* its batches in turn, each verified against what Sub2API really holds,   *)
(* and finishes the plan.  Every plan is created with                      *)
(* execution_started_at set, so a pending plan is a started one.           *)
(***************************************************************************)
EXTENDS Naturals, FiniteSets, Sequences

CONSTANTS
    Runners,
    Plans,             \* rows of api2business_priority_plans; finished ones are reused
    Accounts,          \* account ids, natural numbers
    MaxPriority,       \* bound: priorities are 1..MaxPriority
    BatchSize,         \* priorityWrite.batchSize
    MaximumRetries,    \* priorityWrite.maximumRetries
    SessionMayBeLost,  \* the connection that holds the lock may break
    RequestsMayBeLate, \* a request the client gave up on may still take effect
    MaxFaults,         \* bound: crashes, lost sessions and failed reconciliations
    NoRunner,
    NoPlan

ASSUME NoneAssumption == NoRunner \notin Runners /\ NoPlan \notin Plans
ASSUME PolicyAssumption ==
    /\ BatchSize \in Nat \ {0} /\ MaximumRetries \in Nat /\ MaxFaults \in Nat
    /\ SessionMayBeLost \in BOOLEAN /\ RequestsMayBeLate \in BOOLEAN
    /\ Accounts \subseteq Nat /\ IsFiniteSet(Accounts) /\ MaxPriority \in Nat

Priorities == 1..MaxPriority
Targets    == UNION {[S -> Priorities] : S \in SUBSET Accounts}

VARIABLES
    lock,      \* the runner whose session holds the advisory lock
    pc,        \* where each runner is
    planOf,    \* the plan of each run
    verdict,   \* what the run is about to write into its plan
    status,    \* of each plan: none, pending, applied, failed
    target,    \* of each plan: the priorities it asks for
    todo,      \* batches of the run that are not done, the current one first
    attempt,   \* write attempts for the current batch
    unmatched, \* accounts of the batch that the next attempt writes
    priority,  \* what Sub2API holds
    late,      \* writes still under way though their request has ended
    faults

tableVars == <<status, target>>
batchVars == <<todo, attempt, unmatched>>
worldVars == <<priority, late>>
vars == <<lock, pc, planOf, verdict, status, target, todo, attempt, unmatched,
          priority, late, faults>>

TypeOK ==
    /\ lock \in Runners \cup {NoRunner}
    /\ pc \in [Runners -> {"idle", "waiting", "scoring", "finishing", "confirming",
                           "preflight", "writing", "verifying", "recheck", "unlocking"}]
    /\ planOf \in [Runners -> Plans \cup {NoPlan}]
    /\ verdict \in [Runners -> {"applied", "failed"}]
    /\ status \in [Plans -> {"none", "pending", "applied", "failed"}]
    /\ target \in [Plans -> Targets]
    /\ todo \in [Runners -> Seq(SUBSET Accounts)]
    /\ attempt \in [Runners -> 0..(MaximumRetries + 1)]
    /\ unmatched \in [Runners -> SUBSET Accounts]
    /\ priority \in [Accounts -> Priorities]
    /\ late \subseteq Accounts \X Priorities
    /\ faults \in 0..MaxFaults

NoTarget == [a \in {} |-> 1]

Init ==
    /\ lock = NoRunner
    /\ pc = [r \in Runners |-> "idle"]
    /\ planOf = [r \in Runners |-> NoPlan]
    /\ verdict = [r \in Runners |-> "failed"]
    /\ status = [p \in Plans |-> "none"]
    /\ target = [p \in Plans |-> NoTarget]
    /\ todo = [r \in Runners |-> <<>>]
    /\ attempt = [r \in Runners |-> 0]
    /\ unmatched = [r \in Runners |-> {}]
    /\ priority \in [Accounts -> Priorities]
    /\ late = {}
    /\ faults = 0

-----------------------------------------------------------------------------
(* orderedPriorityEntries and buildPriorityWriteProfileQueues: a V2 plan    *)
(* has the changes of one profile, hence one queue of batches.              *)

Delta(before, desired, a) ==
    IF desired[a] > before[a] THEN desired[a] - before[a] ELSE before[a] - desired[a]

\* Faulty: batches in the order of the account ids.
ById(before, desired, a, b) == a < b

\* A higher number is a lower preference: such changes reduce risk and go first,
\* then the larger change, then the smaller id.
Precedes(before, desired, a, b) ==
    LET reduces(x) == desired[x] > before[x]
    IN  \/ reduces(a) /\ ~reduces(b)
        \/ /\ reduces(a) <=> reduces(b)
           /\ \/ Delta(before, desired, a) > Delta(before, desired, b)
              \/ Delta(before, desired, a) = Delta(before, desired, b) /\ a < b

\* The position of a change among all changes of the plan, from 0.
Rank(before, desired, a) ==
    Cardinality({b \in DOMAIN desired : Precedes(before, desired, b, a)})

Batches(before, desired) ==
    LET size  == Cardinality(DOMAIN desired)
        count == (size + BatchSize - 1) \div BatchSize
    IN  [i \in 1..count |->
            {a \in DOMAIN desired : Rank(before, desired, a) \div BatchSize = i - 1}]

-----------------------------------------------------------------------------
(* withPriorityOptimizationQueue                                           *)

\* Faulty: interrupted plans are looked for before the lock is held.
StartReconciling(r) ==
    /\ pc[r] = "idle"
    /\ pc' = [pc EXCEPT ![r] = "waiting"]
    /\ status' = [p \in Plans |-> IF status[p] = "pending" THEN "failed" ELSE status[p]]
    /\ UNCHANGED <<lock, planOf, verdict, target, batchVars, worldVars, faults>>

Start(r) ==
    /\ pc[r] = "idle"
    /\ pc' = [pc EXCEPT ![r] = "waiting"]
    /\ UNCHANGED <<lock, planOf, verdict, tableVars, batchVars, worldVars, faults>>

\* Faulty: the lock is per process.
LockFree(r) == TRUE

\* pg_advisory_lock: granted when no session holds the lock.
MayLock(r) == lock = NoRunner

\* Faulty: an interrupted plan is left to the run that created it.
AcquireWithoutReconcile(r) ==
    /\ pc[r] = "waiting" /\ MayLock(r)
    /\ lock' = r
    /\ pc' = [pc EXCEPT ![r] = "scoring"]
    /\ UNCHANGED <<planOf, verdict, tableVars, batchVars, worldVars, faults>>

\* With the lock held, plans still pending are those of interrupted runs.
Acquire(r) ==
    /\ pc[r] = "waiting" /\ MayLock(r)
    /\ lock' = r
    /\ pc' = [pc EXCEPT ![r] = "scoring"]
    /\ status' = [p \in Plans |-> IF status[p] = "pending" THEN "failed" ELSE status[p]]
    /\ UNCHANGED <<planOf, verdict, target, batchVars, worldVars, faults>>

\* The statement that reconciles fails: straight to the finally block.
AcquireFails(r) ==
    /\ pc[r] = "waiting" /\ MayLock(r) /\ faults < MaxFaults
    /\ lock' = r
    /\ pc' = [pc EXCEPT ![r] = "unlocking"]
    /\ faults' = faults + 1
    /\ UNCHANGED <<planOf, verdict, tableVars, batchVars, worldVars>>

\* A session that was lost has no lock to give back; its connection is closed.
FreeLock(r) == IF lock = r THEN NoRunner ELSE lock

\* The activity returns, or its process is gone: its local variables with it.
EndRun(r) ==
    /\ pc' = [pc EXCEPT ![r] = "idle"]
    /\ planOf' = [planOf EXCEPT ![r] = NoPlan]
    /\ verdict' = [verdict EXCEPT ![r] = "failed"]
    /\ todo' = [todo EXCEPT ![r] = <<>>]
    /\ attempt' = [attempt EXCEPT ![r] = 0]
    /\ unmatched' = [unmatched EXCEPT ![r] = {}]

Unlock(r) ==
    /\ pc[r] = "unlocking"
    /\ lock' = FreeLock(r)
    /\ EndRun(r)
    /\ UNCHANGED <<tableVars, worldVars, faults>>

-----------------------------------------------------------------------------
(* runV2AutomaticPriorityPlan                                              *)

\* createPlan for the changes in desired; the run goes on at next.
CreatePlan(r, desired, next, result) ==
    \E p \in Plans :
        /\ status[p] # "pending"
        /\ \A q \in Runners : planOf[q] # p
        /\ status' = [status EXCEPT ![p] = "pending"]
        /\ target' = [target EXCEPT ![p] = desired]
        /\ planOf' = [planOf EXCEPT ![r] = p]
        /\ todo' = [todo EXCEPT ![r] = Batches(priority, desired)]
        /\ verdict' = [verdict EXCEPT ![r] = result]
        /\ pc' = [pc EXCEPT ![r] = next]

\* The score query fails, or it was too slow to be trusted: nothing is written.
ScoreUnusable(r) ==
    /\ pc[r] = "scoring"
    /\ CreatePlan(r, NoTarget, "finishing", "failed")
    /\ UNCHANGED <<lock, attempt, unmatched, worldVars, faults>>

NothingToChange(r) ==
    /\ pc[r] = "scoring"
    /\ CreatePlan(r, NoTarget, "finishing", "applied")
    /\ UNCHANGED <<lock, attempt, unmatched, worldVars, faults>>

ScoreUsable(r) ==
    /\ pc[r] = "scoring"
    /\ \E desired \in Targets :
        /\ DOMAIN desired # {}
        /\ \A a \in DOMAIN desired : desired[a] # priority[a]
        /\ CreatePlan(r, desired, "confirming", "applied")
    /\ UNCHANGED <<lock, attempt, unmatched, worldVars, faults>>

\* confirmPriorityPlanQueued checks the plan it reads back.
Confirm(r) ==
    /\ pc[r] = "confirming"
    /\ status[planOf[r]] = "pending"
    /\ pc' = [pc EXCEPT ![r] = "preflight"]
    /\ UNCHANGED <<lock, planOf, verdict, tableVars, batchVars, worldVars, faults>>

\* A plan that is not pending, has expired or needs a switched-off profile.
ConfirmRefused(r) ==
    /\ pc[r] = "confirming"
    /\ pc' = [pc EXCEPT ![r] = "unlocking"]
    /\ UNCHANGED <<lock, planOf, verdict, tableVars, batchVars, worldVars, faults>>

\* A read of the broker or a statement of the store throws: the run ends, its
\* plan stays pending.
RunThrows(r) ==
    /\ pc[r] \in {"scoring", "confirming", "preflight", "verifying", "recheck", "finishing"}
    /\ pc' = [pc EXCEPT ![r] = "unlocking"]
    /\ UNCHANGED <<lock, planOf, verdict, tableVars, batchVars, worldVars, faults>>

-----------------------------------------------------------------------------
(* applyPriorityBatch                                                      *)

Batch(r)      == Head(todo[r])
Mismatches(r) == {a \in Batch(r) : priority[a] # target[planOf[r]][a]}

\* The batch is verified: the next one, or finishPlan(applied).
BatchDone(r) ==
    /\ todo' = [todo EXCEPT ![r] = Tail(@)]
    /\ pc' = [pc EXCEPT ![r] = IF Len(todo[r]) > 1 THEN "preflight" ELSE "finishing"]
    /\ verdict' = [verdict EXCEPT ![r] = "applied"]
    /\ attempt' = [attempt EXCEPT ![r] = 0]
    /\ unmatched' = [unmatched EXCEPT ![r] = {}]
    /\ UNCHANGED <<lock, planOf, tableVars, worldVars, faults>>

Preflight(r) ==
    /\ pc[r] = "preflight"
    /\ IF Mismatches(r) = {}
       THEN BatchDone(r)
       ELSE /\ pc' = [pc EXCEPT ![r] = "writing"]
            /\ attempt' = [attempt EXCEPT ![r] = 1]
            /\ unmatched' = [unmatched EXCEPT ![r] = Mismatches(r)]
            /\ UNCHANGED <<lock, planOf, verdict, tableVars, todo, worldVars, faults>>

\* updatePriorities: some of the accounts are written, some fail, and of those
\* whose request timed out some are written later.  Every error is caught.
Write(r) ==
    /\ pc[r] = "writing"
    /\ \E written \in SUBSET unmatched[r] :
       \E slow \in SUBSET (IF RequestsMayBeLate THEN unmatched[r] \ written ELSE {}) :
        /\ priority' = [a \in Accounts |->
                          IF a \in written THEN target[planOf[r]][a] ELSE priority[a]]
        /\ late' = late \cup {<<a, target[planOf[r]][a]>> : a \in slow}
    /\ pc' = [pc EXCEPT ![r] = "verifying"]
    /\ UNCHANGED <<lock, planOf, verdict, tableVars, batchVars, faults>>

\* Faulty: a request that was answered is taken for a change that is in force.
VerifyNothing(r) == pc[r] = "verifying" /\ BatchDone(r)

\* verifyPriorities polls until everything matches or its time is up.
Verify(r) ==
    /\ pc[r] = "verifying"
    /\ \/ /\ Mismatches(r) = {}
          /\ BatchDone(r)
       \/ /\ Mismatches(r) # {} /\ attempt[r] > MaximumRetries
          /\ pc' = [pc EXCEPT ![r] = "finishing"]
          /\ verdict' = [verdict EXCEPT ![r] = "failed"]
          /\ UNCHANGED <<lock, planOf, tableVars, batchVars, worldVars, faults>>
       \/ /\ Mismatches(r) # {} /\ attempt[r] <= MaximumRetries
          /\ pc' = [pc EXCEPT ![r] = "recheck"]
          /\ UNCHANGED <<lock, planOf, verdict, tableVars, batchVars, worldVars, faults>>

\* After the backoff: what is still unmatched is written again.
Recheck(r) ==
    /\ pc[r] = "recheck"
    /\ IF Mismatches(r) = {}
       THEN BatchDone(r)
       ELSE /\ pc' = [pc EXCEPT ![r] = "writing"]
            /\ attempt' = [attempt EXCEPT ![r] = @ + 1]
            /\ unmatched' = [unmatched EXCEPT ![r] = Mismatches(r)]
            /\ UNCHANGED <<lock, planOf, verdict, tableVars, todo, worldVars, faults>>

\* finishPlan: UPDATE ... WHERE id, whatever the status of the plan is by now.
FinishPlan(r) ==
    /\ pc[r] = "finishing"
    /\ status' = [status EXCEPT ![planOf[r]] = verdict[r]]
    /\ pc' = [pc EXCEPT ![r] = "unlocking"]
    /\ UNCHANGED <<lock, planOf, verdict, target, batchVars, worldVars, faults>>

-----------------------------------------------------------------------------
(* What the environment does.                                              *)

\* A request that ended without an answer takes effect.
LateWrite(w) ==
    /\ w \in late
    /\ priority' = [priority EXCEPT ![w[1]] = w[2]]
    /\ late' = late \ {w}
    /\ UNCHANGED <<lock, pc, planOf, verdict, tableVars, batchVars, faults>>

\* The idle connection that holds the lock breaks: PostgreSQL frees the lock, the
\* run does not notice before it unlocks.
LoseSession(r) ==
    /\ SessionMayBeLost /\ faults < MaxFaults
    /\ lock = r
    /\ lock' = NoRunner
    /\ faults' = faults + 1
    /\ UNCHANGED <<pc, planOf, verdict, tableVars, batchVars, worldVars>>

\* The process of the run ends; its session ends with it.
Crash(r) ==
    /\ faults < MaxFaults /\ pc[r] # "idle"
    /\ lock' = IF lock = r THEN NoRunner ELSE lock
    /\ EndRun(r)
    /\ faults' = faults + 1
    /\ UNCHANGED <<tableVars, worldVars>>

Step(r) ==
    \/ Unlock(r) \/ ScoreUnusable(r) \/ NothingToChange(r) \/ ScoreUsable(r)
    \/ Confirm(r) \/ ConfirmRefused(r) \/ RunThrows(r)
    \/ Preflight(r) \/ Write(r) \/ Verify(r) \/ Recheck(r) \/ FinishPlan(r)

Next ==
    \/ \E r \in Runners :
        Start(r) \/ Acquire(r) \/ AcquireFails(r) \/ Step(r) \/ LoseSession(r) \/ Crash(r)
    \/ \E w \in late : LateWrite(w)

Spec == Init /\ [][Next]_vars

(* The Temporal schedule keeps starting runs, a run that has its lock goes  *)
(* on, and PostgreSQL grants a free lock to some waiting session.           *)
Fairness ==
    /\ \A r \in Runners : WF_vars(Start(r)) /\ WF_vars(Step(r))
    /\ WF_vars(\E r \in Runners : Acquire(r))

FairSpec == Spec /\ Fairness

-----------------------------------------------------------------------------
(* Properties.                                                             *)

Executing(r) == pc[r] \notin {"idle", "waiting"}

\* Every executing run owns the global lock, so no two runs write priorities or
\* plans at once.
ExecutingOwnsLock == \A r \in Runners : Executing(r) => lock = r

\* No two runs are between the write of a batch and its verification: what one has
\* written and not looked at yet is not written over by another.
WritersExcludeEachOther ==
    \A r, s \in Runners : pc[r] = "verifying" /\ pc[s] = "verifying" => r = s

\* A pending plan is settled by the run that executes it; the reconciliation of
\* another run only touches plans whose run is gone.
SettledByItsRun ==
    [][\A p \in Plans, r \in Runners :
           /\ status[p] = "pending" /\ status'[p] # "pending"
           /\ planOf[r] = p /\ Executing(r) /\ pc[r] # "unlocking"
           => pc[r] = "finishing" /\ pc'[r] = "unlocking"]_vars

\* What the history says about a finished plan is never rewritten: a failed plan
\* does not become an applied one, nor the other way round.
FinalStatusStays ==
    [][\A p \in Plans :
           /\ status[p] = "applied" => status'[p] # "failed"
           /\ status[p] = "failed" => status'[p] # "applied"]_vars

\* A plan is recorded as applied only while every account it changes has the
\* planned priority, over all its batches, retries and reconciliations.
AppliedMeansInForce ==
    [][\A p \in Plans : (status[p] = "pending" /\ status'[p] = "applied")
           => \A a \in DOMAIN target[p] : priority[a] = target[p][a]]_vars

\* While a batch that moves traffic towards some account is written, no change
\* that takes traffic away is left for a later batch.
RiskReductionFirst ==
    \A r \in Runners : pc[r] = "writing" =>
        \A i \in 2..Len(todo[r]) : \A a \in unmatched[r] : \A b \in todo[r][i] :
            ~(target[planOf[r]][a] < priority[a] /\ target[planOf[r]][b] > priority[b])

\* A plan that has started is settled in the end: by its run, or as interrupted
\* by the next run that gets the lock.
StartedPlanSettles == \A p \in Plans : status[p] = "pending" ~> status[p] # "pending"

=============================================================================
