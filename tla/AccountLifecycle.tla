--------------------------- MODULE AccountLifecycle ---------------------------
(***************************************************************************)
(* Retirement of OAuth accounts: AccountLifecycleService                   *)
(* (src/src/account-lifecycle-service.ts) and its settlement ledger.  A    *)
(* job first detects: it reads the pool, freezes a plan of accounts and,   *)
(* in probe mode, tests each of them.  An administrator then settles the   *)
(* job: the pool is read again and must still give the plan, the           *)
(* settlement is booked in the ledger, the accounts are deleted batch by   *)
(* batch, and what is left is read back.                                   *)
(*                                                                         *)
(* Jobs live in the memory of the API process, the most recent ones only;  *)
(* every detection or settlement is a Temporal workflow of one activity,   *)
(* here a run, which works on a copy of the job it takes when it starts    *)
(* and writes back in patches.  Workflows are attempted once.              *)
(***************************************************************************)
EXTENDS Naturals, FiniteSets

CONSTANTS
  Accounts,    \* the accounts of one plan type and scope
  Runs,        \* workflow executions that may be under way together
  JobCount,    \* bound: jobs that are ever submitted, numbered in order
  Retained,    \* how many jobs the service keeps: 20
  BatchSize,   \* operations.accountLifecycle.deleteBatchSize and testBatchSize
  NoJob,       \* the run is free
  MaxFaults    \* bound: failing calls, lost answers and restarts

ASSUME BoundsAssumption ==
  /\ JobCount \in Nat /\ MaxFaults \in Nat
  /\ Retained \in Nat \ {0} /\ BatchSize \in Nat \ {0}
ASSUME NoJobAssumption == NoJob \notin 1 .. JobCount

Jobs  == 1 .. JobCount
\* The selection modes; "dead" stands for database-error and database-dead.
Modes == {"dead", "all", "probe"}

VARIABLES
  pool,        \* what Sub2API holds of each account
  late,        \* accounts of failed delete calls that may still take effect
  retired,     \* accounts that were sent in a delete call
  ledger,      \* the settlement ledger, a file
  submitted,   \* number of the last job
  floor,       \* jobs up to this one are no longer kept
  mode,        \* settings.selectionMode of each job
  state,       \* state of each job
  plan,        \* job.candidates
  sure,        \* the job's summary has neither alive nor unknown accounts
  settlement,  \* job.settlement: whether there is one, and what remains
  unsure,      \* jobs whose temporal.submit has not answered and will fail
  run,         \* the workflow executions
  faults

world   == <<pool, late, retired>>
kept    == <<submitted, floor, mode>>
jobVars == <<state, plan, sure, settlement>>
vars    == <<world, ledger, kept, jobVars, unsure, run, faults>>

Existing == {a \in Accounts : pool[a] \in {"healthy", "dead"}}
Kept(j)  == j \in (floor + 1) .. submitted

\* A run: the job and the accounts of its command, its phase, the accounts it
\* works on in this phase, and in a settlement its copy of the job.
RunOf(j, ids, phase, todo, s, made, remaining) ==
  [job |-> j, ids |-> ids, phase |-> phase, todo |-> todo,
   state |-> s, made |-> made, remaining |-> remaining]

Free == RunOf(NoJob, {}, "free", {}, "queued", FALSE, {})

Init ==
  /\ pool \in [Accounts -> {"absent", "healthy", "dead"}]
  /\ late = {}
  /\ retired = {}
  /\ ledger = {}
  /\ submitted = 0
  /\ floor = 0
  /\ mode = [j \in Jobs |-> "dead"]
  /\ state = [j \in Jobs |-> "queued"]
  /\ plan = [j \in Jobs |-> {}]
  /\ sure = [j \in Jobs |-> FALSE]
  /\ settlement = [j \in Jobs |-> [made |-> FALSE, remaining |-> {}]]
  /\ unsure = {}
  /\ run = [r \in Runs |-> Free]
  /\ faults = 0

Fault == faults < MaxFaults /\ faults' = faults + 1

SetState(j, s) == state' = [state EXCEPT ![j] = s]

Starts(r, j, ids, phase) ==
  /\ run[r] = Free
  /\ run' = [run EXCEPT ![r] = RunOf(j, ids, phase, {}, "queued", FALSE, {})]

GoesOn(r, phase, todo) ==
  run' = [run EXCEPT ![r] = RunOf(@.job, @.ids, phase, todo, @.state, @.made, @.remaining)]

End(r) == run' = [run EXCEPT ![r] = Free]

\* The accounts a job of mode m is about: facts() and lifecycleRetirementReason.
Selected(m) == IF m = "dead" THEN {a \in Accounts : pool[a] = "dead"} ELSE Existing

\* The next batch of todo, whose order no property tells apart.
Batches(todo) == {b \in SUBSET todo : b # {} /\ Cardinality(b) <= BatchSize}

\* temporal.submit: the workflow starts; or the call fails, though the workflow
\* may have started.
Submission(j, r, phase, ids) ==
  \/ Starts(r, j, ids, phase) /\ UNCHANGED <<unsure, faults>>
  \/ /\ Starts(r, j, ids, phase) \/ UNCHANGED run
     /\ unsure' = unsure \cup {j}
     /\ Fault

SubmissionFails(j) ==
  /\ j \in unsure
  /\ unsure' = unsure \ {j}
  /\ SetState(j, "failed")
  /\ UNCHANGED <<world, ledger, kept, plan, sure, settlement, run, faults>>

-----------------------------------------------------------------------------
(* Detection *)

\* The oldest jobs are dropped when there are too many.
FloorAfter(n) == IF n - floor > Retained THEN n - Retained ELSE floor

\* submit(): a new job.
Submit(m, r) ==
  /\ submitted < JobCount
  /\ submitted' = submitted + 1
  /\ floor' = FloorAfter(submitted + 1)
  /\ mode' = [mode EXCEPT ![submitted + 1] = m]
  /\ Submission(submitted + 1, r, "detect", {})
  /\ UNCHANGED <<world, ledger, jobVars>>

\* runDetectWorker(): the job is running, though its submission may have failed
\* by then.
StartDetection(r) ==
  LET j == run[r].job
  IN /\ run[r].phase = "detect"
     /\ IF Kept(j) /\ state[j] \in {"queued", "running"}
          THEN /\ SetState(j, "running")
               /\ GoesOn(r, "candidates", {})
               /\ UNCHANGED <<plan, sure, settlement>>
          ELSE End(r) /\ UNCHANGED jobVars
     /\ UNCHANGED <<world, ledger, kept, unsure, faults>>

\* detect(): the pool is read and the plan frozen.  Without probes the selection
\* is the verdict.
Detect(r) ==
  LET j == run[r].job
      chosen == Selected(mode[j])
  IN /\ run[r].phase = "candidates"
     /\ IF ~Kept(j)
          THEN End(r) /\ UNCHANGED jobVars
          ELSE /\ plan' = [plan EXCEPT ![j] = chosen]
               /\ sure' = [sure EXCEPT ![j] = TRUE]
               /\ IF mode[j] = "probe" /\ chosen # {}
                    THEN /\ SetState(j, "running")
                         /\ GoesOn(r, "probe", chosen)
                    ELSE SetState(j, IF chosen = {} THEN "failed" ELSE "succeeded") /\ End(r)
               /\ UNCHANGED settlement
     /\ UNCHANGED <<world, ledger, kept, unsure, faults>>

\* One batch of probes; an account that is not healthy may be found dead, and
\* any probe may be inconclusive.
Probe(r) ==
  LET j == run[r].job
  IN /\ run[r].phase = "probe"
     /\ IF ~Kept(j)
          THEN End(r) /\ UNCHANGED jobVars
          ELSE \E b \in Batches(run[r].todo), conclusive \in BOOLEAN :
                 LET rest == run[r].todo \ b
                     dead == conclusive /\ \A a \in b : pool[a] # "healthy"
                 IN /\ sure' = [sure EXCEPT ![j] = @ /\ dead]
                    /\ SetState(j, IF rest = {} THEN "succeeded" ELSE "running")
                    /\ IF rest = {} THEN End(r) ELSE GoesOn(r, "probe", rest)
                    /\ UNCHANGED <<plan, settlement>>
     /\ UNCHANGED <<world, ledger, kept, unsure, faults>>

-----------------------------------------------------------------------------
(* Settlement *)

\* settle(): an administrator confirms the plan of a job whose accounts are all
\* dead, or resumes a failed job with what remains of it.
Confirmable(j) == state[j] = "succeeded" /\ sure[j]
Resumable(j)   == state[j] = "failed" /\ settlement[j].remaining # {}

Settle(j, r) ==
  /\ Kept(j)
  /\ Confirmable(j) \/ Resumable(j)
  /\ SetState(j, "settling")
  /\ Submission(j, r, "settle",
                IF Resumable(j) THEN settlement[j].remaining ELSE plan[j])
  /\ UNCHANGED <<world, ledger, kept, plan, sure, settlement>>

\* runSettlementWorker(): the accounts of the command are compared with the plan;
\* fewer accounts are accepted of a job that is failed and has a settlement.
Agrees(j, ids) ==
  IF state[j] = "failed" /\ settlement[j].made THEN ids \subseteq plan[j] ELSE ids = plan[j]

StartSettlement(r) ==
  LET j == run[r].job
  IN /\ run[r].phase = "settle"
     /\ IF Kept(j) /\ state[j] # "settled" /\ Agrees(j, run[r].ids)
          THEN run' = [run EXCEPT ![r] = RunOf(j, @.ids, "facts", {}, state[j],
                                               settlement[j].made, settlement[j].remaining)]
          ELSE End(r)
     /\ UNCHANGED <<world, ledger, kept, jobVars, unsure, faults>>

ReadFacts(r) ==
  /\ run[r].phase = "facts"
  /\ GoesOn(r, "book", Selected(mode[run[r].job]))
  /\ UNCHANGED <<world, ledger, kept, jobVars, unsure, faults>>

\* persistWorkerJob() in the settlement: the copy overwrites the job.  It throws
\* when the job is no longer kept.
Patch(j, s, made, remaining) ==
  /\ SetState(j, s)
  /\ settlement' = [settlement EXCEPT ![j] = [made |-> made, remaining |-> remaining]]
  /\ UNCHANGED <<plan, sure>>

PatchCopy(r) == Patch(run[r].job, run[r].state, run[r].made, run[r].remaining)

\* The catch of finishSettlement.
FailSettlement(r) ==
  /\ IF Kept(run[r].job)
       THEN Patch(run[r].job, "failed", run[r].made, run[r].remaining)
       ELSE UNCHANGED jobVars
  /\ End(r)

\* Faulty: the fingerprint leaves out the accounts.
BookedByDay(j, ids) ==
  IF ledger # {} THEN ledger ELSE {[job |-> j, ids |-> ids]}

\* recordLifecycleSettlement(): an entry is found again by its accounts.
Booked(j, ids) ==
  IF \E e \in ledger : e.ids = ids THEN ledger ELSE ledger \cup {[job |-> j, ids |-> ids]}

\* Faulty: a resumed settlement is booked once more.
EntriesAfterAlways(r) == Booked(run[r].job, run[r].ids)

\* A settlement that is resumed keeps the entry it has.
EntriesAfter(r) == IF run[r].made THEN ledger ELSE Booked(run[r].job, run[r].ids)

\* The pool must still give exactly the accounts of the command.
Book(r) ==
  /\ run[r].phase = "book"
  /\ IF run[r].todo # run[r].ids
       THEN FailSettlement(r) /\ UNCHANGED ledger
       ELSE /\ ledger' = EntriesAfter(r)
            /\ IF Kept(run[r].job)
                 THEN PatchCopy(r) /\ GoesOn(r, "delete", run[r].ids)
                 ELSE End(r) /\ UNCHANGED jobVars
  /\ UNCHANGED <<world, kept, unsure, faults>>

\* One batch-delete call.  One that fails has reached some of its accounts, and
\* may reach others later; the following batches are sent all the same.
DeleteBatch(r) ==
  /\ run[r].phase = "delete"
  /\ \E b \in Batches(run[r].todo), reached \in SUBSET run[r].todo :
       /\ reached \subseteq b
       /\ retired' = retired \cup b
       /\ pool' = [a \in Accounts |-> IF a \in reached THEN "gone" ELSE pool[a]]
       /\ late' = late \cup (b \ reached)
       /\ IF reached = b THEN UNCHANGED faults ELSE Fault
       /\ IF Kept(run[r].job)
            THEN /\ PatchCopy(r)
                 /\ GoesOn(r, IF run[r].todo = b THEN "verify" ELSE "delete", run[r].todo \ b)
            ELSE End(r) /\ UNCHANGED jobVars
  /\ UNCHANGED <<ledger, kept, unsure>>

\* Faulty: the accounts whose deletion was reported are not read back.
LeftUnread(r) == (run[r].ids \cap Existing) \ retired

\* The accounts that are still there when the pool is read back.
Left(r) == run[r].ids \cap Existing

VerifyDeletion(r) ==
  /\ run[r].phase = "verify"
  /\ IF Kept(run[r].job)
       THEN Patch(run[r].job, IF Left(r) = {} THEN "settled" ELSE "failed", TRUE, Left(r))
       ELSE UNCHANGED jobVars
  /\ End(r)
  /\ UNCHANGED <<world, ledger, kept, unsure, faults>>

-----------------------------------------------------------------------------
(* Failures and the environment *)

\* A read of the pool fails or times out in the queue, or a probe request fails.
CallFails(r) ==
  /\ \/ /\ run[r].phase \in {"facts", "verify"}
        /\ FailSettlement(r)
     \/ /\ run[r].phase \in {"candidates", "probe"} /\ Kept(run[r].job)
        /\ SetState(run[r].job, "failed")
        /\ End(r)
        /\ UNCHANGED <<plan, sure, settlement>>
  /\ Fault
  /\ UNCHANGED <<world, ledger, kept, unsure>>

\* The API process restarts: its jobs and the activities it serves are lost.
Restart ==
  /\ Fault
  /\ floor' = submitted
  /\ run' = [r \in Runs |-> Free]
  /\ unsure' = {}
  /\ UNCHANGED <<world, ledger, submitted, mode, jobVars>>

LateDelete(a) ==
  /\ a \in late
  /\ late' = late \ {a}
  /\ pool' = [pool EXCEPT ![a] = "gone"]
  /\ UNCHANGED <<retired, ledger, kept, jobVars, unsure, run, faults>>

\* Accounts are imported, die, recover, and are deleted by hand.
PoolChanges(a) ==
  /\ \/ pool[a] = "absent" /\ pool' = [pool EXCEPT ![a] = "healthy"]
     \/ pool[a] = "healthy" /\ pool' = [pool EXCEPT ![a] = "dead"]
     \/ pool[a] = "dead" /\ pool' = [pool EXCEPT ![a] = "healthy"]
     \/ a \in Existing /\ pool' = [pool EXCEPT ![a] = "gone"]
  /\ UNCHANGED <<late, retired, ledger, kept, jobVars, unsure, run, faults>>

-----------------------------------------------------------------------------
RunStep(r) ==
  \/ StartDetection(r) \/ Detect(r) \/ Probe(r)
  \/ StartSettlement(r) \/ ReadFacts(r) \/ Book(r) \/ DeleteBatch(r) \/ VerifyDeletion(r)

Next ==
  \/ \E r \in Runs :
       \/ \E m \in Modes : Submit(m, r)
       \/ \E j \in Jobs : Settle(j, r)
       \/ RunStep(r)
       \/ CallFails(r)
  \/ \E j \in Jobs : SubmissionFails(j)
  \/ \E a \in Accounts : LateDelete(a) \/ PoolChanges(a)
  \/ Restart

Spec == Init /\ [][Next]_vars

\* The worker carries its activities on, and a submission has a deadline.
FairSpec ==
  /\ Spec
  /\ \A r \in Runs : WF_vars(RunStep(r))
  /\ \A j \in Jobs : WF_vars(SubmissionFails(j))

-----------------------------------------------------------------------------
(* Properties *)

Phases == {"free", "detect", "candidates", "probe", "settle", "facts", "book", "delete", "verify"}
States == {"queued", "running", "succeeded", "settling", "settled", "failed"}

\* The type invariant: a run has a job unless it is free.
TypeOK ==
  /\ pool \in [Accounts -> {"absent", "healthy", "dead", "gone"}]
  /\ late \subseteq Accounts /\ retired \subseteq Accounts
  /\ ledger \subseteq [job : Jobs, ids : SUBSET Accounts]
  /\ submitted \in 0 .. JobCount /\ floor \in 0 .. submitted
  /\ mode \in [Jobs -> Modes]
  /\ state \in [Jobs -> States]
  /\ plan \in [Jobs -> SUBSET Accounts]
  /\ sure \in [Jobs -> BOOLEAN]
  /\ settlement \in [Jobs -> [made : BOOLEAN, remaining : SUBSET Accounts]]
  /\ unsure \subseteq Jobs
  /\ run \in [Runs -> [job : Jobs \cup {NoJob}, ids : SUBSET Accounts, phase : Phases,
                       todo : SUBSET Accounts, state : States, made : BOOLEAN,
                       remaining : SUBSET Accounts]]
  /\ \A r \in Runs : run[r].phase = "free" <=> run[r].job = NoJob
  /\ faults \in 0 .. MaxFaults

\* Whatever crashes, is dropped or is resumed, no account is deleted before its
\* settlement stands in the ledger (recordLifecycleSettlement comes first).
BookedBeforeDeleted == \A a \in retired : \E e \in ledger : a \in e.ids

\* A job books one settlement, also when it fails and is resumed with the
\* accounts that remain (job.settlement.accounting is kept).
BookedOnce == \A e, f \in ledger : e.job = f.job => e = f

\* Of the plan of a settled job nothing is left, though delete calls may fail,
\* be answered late or be sent by several runs (the read at the end decides).
SettledMeansGone ==
  \A j \in Jobs : Kept(j) /\ state[j] = "settled" => plan[j] \cap Existing = {}

\* A failed job with accounts that remain can be resumed: the settlement comes
\* to an end again, unless the API restarts or drops the job.
ResumedSettlementEnds ==
  \A j \in Jobs :
    (Kept(j) /\ state[j] = "settling" /\ settlement[j].made)
      ~> (~Kept(j) \/ state[j] # "settling")
=============================================================================
