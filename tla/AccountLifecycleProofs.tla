------------------------ MODULE AccountLifecycleProofs ------------------------
(* TLAPS proofs about AccountLifecycle, for any accounts, any number of      *)
(* jobs and runs, any batch size and any number of failures and restarts.    *)
EXTENDS AccountLifecycle, TLAPS

DetectPhases == {"detect", "candidates", "probe"}
SettlePhases == {"settle", "facts", "book", "delete", "verify"}

Detecting(r, j) == run[r].phase \in DetectPhases /\ run[r].job = j
Settling(r, j)  == run[r].phase \in SettlePhases /\ run[r].job = j

Covered(S)   == \A a \in S : \E e \in ledger : a \in e.ids
Gone(S)      == \A a \in S : pool[a] = "gone"
Unbooked(j)  == \A e \in ledger : e.job # j

\* No settlement of the job has begun.
Virgin(j) ==
  /\ ~settlement[j].made
  /\ Unbooked(j)
  /\ \A r \in Runs : ~Settling(r, j)

\* A settlement run that has no settlement to continue: before it takes its copy
\* the job decides, afterwards the copy.
Unmade(r) == IF run[r].phase = "settle" THEN ~settlement[run[r].job].made ELSE ~run[r].made

\* Accounts of a plan were there when it was frozen.
PlanInv == \A j \in Jobs : \A a \in plan[j] : pool[a] # "absent"

\* A job is settled only after its detection, which runs once.
FreshInv ==
  \A j \in Jobs :
    /\ state[j] \in {"queued", "running", "succeeded"} => Virgin(j)
    /\ j > submitted => state[j] = "queued" /\ j \notin unsure
DetectInv ==
  \A r \in Runs, j \in Jobs : Detecting(r, j) =>
    /\ Virgin(j)
    /\ j <= submitted
    /\ state[j] # "succeeded"
    /\ \A s \in Runs : Detecting(s, j) => s = r

\* What a settlement says, in the job or in the copy of a run: it is booked, and
\* the accounts of the plan that do not remain are gone.
Says(j, made, remaining) ==
  IF made THEN /\ remaining \subseteq plan[j]
               /\ Covered(plan[j])
               /\ Gone(plan[j] \ remaining)
          ELSE remaining = {}
MadeInv ==
  \A j \in Jobs :
    /\ Says(j, settlement[j].made, settlement[j].remaining)
    /\ state[j] = "settled" => Gone(plan[j])

RunInv ==
  \A r \in Runs : \A j \in Jobs : Settling(r, j) =>
    /\ run[r].ids \subseteq plan[j]
    /\ Gone(plan[j] \ run[r].ids)
    /\ run[r].phase # "settle" => /\ run[r].state \in {"settling", "failed"}
                                  /\ Says(j, run[r].made, run[r].remaining)
    /\ run[r].phase \in {"delete", "verify"} => Covered(run[r].ids)
    /\ run[r].phase = "delete" => run[r].todo \subseteq run[r].ids

\* A run with nothing to continue is the only one of its job.
SoleInv ==
  \A r \in Runs : \A j \in Jobs : Settling(r, j) /\ Unmade(r) =>
    /\ run[r].ids = plan[j]
    /\ ~settlement[j].made
    /\ \A s \in Runs : Settling(s, j) => s = r
    /\ run[r].phase \in {"settle", "facts", "book"} => Unbooked(j)

Rest == /\ PlanInv /\ FreshInv /\ DetectInv /\ MadeInv /\ RunInv /\ SoleInv
        /\ BookedBeforeDeleted /\ BookedOnce

IInv == TypeOK /\ Rest

\* No account is deleted yet and there are no jobs.
LEMMA InitInv == Init => IInv
<1> SUFFICES ASSUME Init PROVE IInv
  OBVIOUS
<1>1. TypeOK
  BY BoundsAssumption, NoJobAssumption DEF Init, TypeOK, Free, RunOf, Jobs, Modes, States, Phases
<1>2. PlanInv /\ FreshInv /\ DetectInv /\ MadeInv /\ RunInv /\ SoleInv
  BY DEF Init, PlanInv, FreshInv, DetectInv, MadeInv, RunInv, SoleInv, Virgin, Unbooked,
         Detecting, Settling, DetectPhases, SettlePhases, Says, Free, RunOf
<1>3. BookedBeforeDeleted /\ BookedOnce
  BY DEF Init, BookedBeforeDeleted, BookedOnce
<1> QED BY <1>1, <1>2, <1>3 DEF IInv, Rest

\* A run that is over no longer counts for its job.
LEMMA FreeRun == Free.phase = "free" /\ Free.job = NoJob
  BY DEF Free, RunOf

-----------------------------------------------------------------------------
(* Types *)

LEMMA BoundsOK == JobCount \in Nat /\ MaxFaults \in Nat
  BY BoundsAssumption

\* The types of the runs.
RunType ==
  [job : Jobs \cup {NoJob}, ids : SUBSET Accounts, phase : Phases, todo : SUBSET Accounts,
   state : States, made : BOOLEAN, remaining : SUBSET Accounts]

LEMMA FreeType == Free \in RunType
  BY DEF Free, RunOf, RunType, Phases, States

\* What is left of a pass over the pool.
LEMMA SelectedType == ASSUME NEW m PROVE Selected(m) \subseteq Accounts
  BY DEF Selected, Existing

\* A run of a job is one of the jobs.
LEMMA RunJob ==
  ASSUME TypeOK, NEW r \in Runs, run[r].phase # "free"
  PROVE  run[r].job \in Jobs
  BY DEF TypeOK

LEMMA SubmissionType ==
  ASSUME TypeOK, NEW j \in Jobs, NEW r \in Runs, NEW p \in {"detect", "settle"},
         NEW ids \in SUBSET Accounts, Submission(j, r, p, ids)
  PROVE  /\ run' \in [Runs -> RunType]
         /\ \A s \in Runs : run'[s].phase = "free" <=> run'[s].job = NoJob
         /\ unsure' \subseteq Jobs
         /\ faults' \in 0 .. MaxFaults
<1>1. run \in [Runs -> RunType]
  BY DEF TypeOK, RunType
<1> DEFINE new == RunOf(j, ids, p, {}, "queued", FALSE, {})
<1>2. new \in RunType /\ new.phase # "free" /\ new.job # NoJob
  BY NoJobAssumption, FreeType DEF Free, RunOf, RunType, Phases, Jobs
<1>3. run' = run \/ run' = [run EXCEPT ![r] = new]
  BY DEF Submission, Starts
<1>4. unsure' = unsure \/ unsure' = unsure \cup {j}
  BY DEF Submission
<1>5. faults' \in 0 .. MaxFaults
  BY BoundsOK DEF Submission, Fault, TypeOK
<1> HIDE DEF new
<1>6. run' \in [Runs -> RunType] /\ \A s \in Runs : run'[s].phase = "free" <=> run'[s].job = NoJob
  BY <1>1, <1>2, <1>3 DEF TypeOK
<1> QED BY <1>4, <1>5, <1>6 DEF TypeOK

RunsTyped ==
  /\ run \in [Runs -> RunType]
  /\ \A s \in Runs : run[s].phase = "free" <=> run[s].job = NoJob
JobsTyped ==
  /\ state \in [Jobs -> States] /\ plan \in [Jobs -> SUBSET Accounts]
  /\ sure \in [Jobs -> BOOLEAN]
  /\ settlement \in [Jobs -> [made : BOOLEAN, remaining : SUBSET Accounts]]

\* The record of a run that goes on.
LEMMA GoesOnType ==
  ASSUME TypeOK, NEW r \in Runs, NEW p \in Phases \ {"free"}, NEW todo \in SUBSET Accounts,
         run[r].phase # "free", GoesOn(r, p, todo)
  PROVE  RunsTyped'
<1> DEFINE new == RunOf(run[r].job, run[r].ids, p, todo, run[r].state, run[r].made, run[r].remaining)
<1>1. run \in [Runs -> RunType]
  BY DEF TypeOK, RunType
<1>2. new \in RunType /\ new.phase # "free" /\ new.job # NoJob
  BY <1>1 DEF RunType, RunOf, TypeOK
<1>3. run' = [run EXCEPT ![r] = new]
  BY DEF GoesOn
<1> HIDE DEF new
<1> QED BY <1>1, <1>2, <1>3 DEF TypeOK, RunsTyped

LEMMA PatchType ==
  ASSUME TypeOK, NEW j \in Jobs, NEW s \in States, NEW made \in BOOLEAN,
         NEW remaining \in SUBSET Accounts, Patch(j, s, made, remaining)
  PROVE  JobsTyped'
  BY DEF Patch, SetState, TypeOK, JobsTyped

\* Every step keeps the types.
LEMMA TypeStep == TypeOK /\ [Next]_vars => TypeOK'
<1> SUFFICES ASSUME TypeOK, [Next]_vars PROVE TypeOK'
  OBVIOUS
<1> USE DEF world, kept, jobVars
<1>a. run \in [Runs -> RunType]
  BY DEF TypeOK, RunType
<1>b. ASSUME NEW r \in Runs, End(r)
      PROVE  RunsTyped'
  BY <1>a, <1>b, FreeType, FreeRun DEF End, TypeOK, RunsTyped
<1>c. ASSUME UNCHANGED jobVars PROVE JobsTyped'
  BY <1>c DEF TypeOK, JobsTyped
<1>1. ASSUME NEW m \in Modes, NEW r \in Runs, Submit(m, r) PROVE TypeOK'
  <2>1. submitted + 1 \in Jobs
    BY <1>1, BoundsOK DEF Submit, TypeOK, Jobs
  <2>2. floor' \in 0 .. submitted' /\ submitted' \in 0 .. JobCount
    BY <1>1, BoundsAssumption DEF Submit, TypeOK, FloorAfter
  <2>3. mode' \in [Jobs -> Modes]
    BY <1>1 DEF Submit, TypeOK
  <2> QED BY <1>1, <2>1, <2>2, <2>3, SubmissionType DEF Submit, TypeOK, RunType
<1>2. ASSUME NEW j \in Jobs, NEW r \in Runs, Settle(j, r) PROVE TypeOK'
  <2>1. (IF Resumable(j) THEN settlement[j].remaining ELSE plan[j]) \in SUBSET Accounts
    BY DEF TypeOK
  <2>2. state' \in [Jobs -> States]
    BY <1>2 DEF Settle, SetState, TypeOK, States
  <2> QED BY <1>2, <2>1, <2>2, SubmissionType DEF Settle, TypeOK, RunType
<1>15. ASSUME NEW r \in Runs, StartDetection(r) PROVE TypeOK'
  <2>1. run[r].job \in Jobs
    BY <1>15, RunJob DEF StartDetection
  <2>2. RunsTyped'
    <3>1. End(r) \/ GoesOn(r, "candidates", {})
      BY <1>15 DEF StartDetection
    <3>2. run[r].phase # "free" /\ "candidates" \in Phases \ {"free"}
      BY <1>15 DEF StartDetection, Phases
    <3> QED BY <1>b, <3>1, <3>2, GoesOnType
  <2>3. JobsTyped'
    BY <1>15, <2>1 DEF StartDetection, SetState, TypeOK, JobsTyped, States
  <2> QED BY <1>15, <2>2, <2>3 DEF StartDetection, TypeOK, RunsTyped, RunType, JobsTyped
<1>3. ASSUME NEW r \in Runs, Detect(r) PROVE TypeOK'
  <2>1. run[r].job \in Jobs
    BY <1>3, RunJob DEF Detect
  <2>2. RunsTyped'
    <3>1. End(r) \/ GoesOn(r, "probe", Selected(mode[run[r].job]))
      BY <1>3 DEF Detect
    <3>2. run[r].phase # "free" /\ "probe" \in Phases \ {"free"}
      BY <1>3 DEF Detect, Phases
    <3>3. Selected(mode[run[r].job]) \in SUBSET Accounts
      BY SelectedType
    <3> QED BY <1>b, <3>1, <3>2, <3>3, GoesOnType
  <2>3. /\ state' \in [Jobs -> States] /\ plan' \in [Jobs -> SUBSET Accounts]
        /\ sure' \in [Jobs -> BOOLEAN] /\ settlement' = settlement
    <3> DEFINE chosen == Selected(mode[run[r].job])
    <3>1. \/ UNCHANGED jobVars
          \/ /\ \E s \in States : state' = [state EXCEPT ![run[r].job] = s]
             /\ plan' = [plan EXCEPT ![run[r].job] = chosen]
             /\ sure' = [sure EXCEPT ![run[r].job] = TRUE]
             /\ settlement' = settlement
      BY <1>3 DEF Detect, SetState, States
    <3>2. chosen \in SUBSET Accounts
      BY SelectedType
    <3> HIDE DEF chosen
    <3>3. /\ state \in [Jobs -> States] /\ plan \in [Jobs -> SUBSET Accounts]
          /\ sure \in [Jobs -> BOOLEAN]
      BY DEF TypeOK
    <3>4. CASE UNCHANGED jobVars
      BY <3>3, <3>4
    <3>5. CASE ~UNCHANGED jobVars
      BY <2>1, <3>1, <3>2, <3>3, <3>5
    <3> QED BY <3>4, <3>5
  <2> QED BY <1>3, <2>2, <2>3 DEF Detect, TypeOK, RunsTyped, RunType
<1>4. ASSUME NEW r \in Runs, Probe(r) PROVE TypeOK'
  <2>1. run[r].job \in Jobs
    BY <1>4, RunJob DEF Probe
  <2>2. \A b : run[r].todo \ b \subseteq Accounts
    BY <1>a DEF RunType
  <2>3. RunsTyped'
    <3>1. End(r) \/ \E b : GoesOn(r, "probe", run[r].todo \ b)
      BY <1>4 DEF Probe
    <3>2. run[r].phase # "free" /\ "probe" \in Phases \ {"free"}
      BY <1>4 DEF Probe, Phases
    <3> QED BY <1>b, <2>2, <3>1, <3>2, GoesOnType
  <2>4. /\ state' \in [Jobs -> States] /\ plan' = plan
        /\ sure' \in [Jobs -> BOOLEAN] /\ settlement' = settlement
    BY <1>4, <2>1 DEF Probe, SetState, TypeOK, States
  <2> QED BY <1>4, <2>3, <2>4 DEF Probe, TypeOK, RunsTyped, RunType
<1>5. ASSUME NEW r \in Runs, StartSettlement(r) PROVE TypeOK'
  <2> DEFINE j == run[r].job
             new == RunOf(j, run[r].ids, "facts", {}, state[j], settlement[j].made,
                          settlement[j].remaining)
  <2>1. j \in Jobs /\ state[j] \in States
    BY <1>5, RunJob DEF StartSettlement, TypeOK
  <2>2. settlement[j].made \in BOOLEAN /\ settlement[j].remaining \in SUBSET Accounts
    BY <2>1 DEF TypeOK
  <2>3. new \in RunType /\ new.phase # "free" /\ new.job # NoJob
    BY <1>a, <2>1, <2>2, NoJobAssumption DEF RunType, RunOf, Phases, Jobs
  <2>4. End(r) \/ run' = [run EXCEPT ![r] = new]
    BY <1>5 DEF StartSettlement
  <2> HIDE DEF new
  <2>5. RunsTyped'
    BY <1>a, <1>b, <2>3, <2>4 DEF TypeOK, RunsTyped
  <2> QED BY <1>5, <2>5 DEF StartSettlement, TypeOK, RunsTyped, RunType
<1>6. ASSUME NEW r \in Runs, ReadFacts(r) PROVE TypeOK'
  BY <1>6, <1>a, SelectedType DEF ReadFacts, TypeOK, RunType, Phases, GoesOn, RunOf
<1>7. ASSUME NEW r \in Runs, Book(r) PROVE TypeOK'
  <2>1. run[r].job \in Jobs /\ run[r].ids \subseteq Accounts
    BY <1>7, <1>a, RunJob DEF Book, RunType
  <2>2. RunsTyped' /\ JobsTyped'
    BY <1>7, <1>a, <1>b, <1>c, <2>1, GoesOnType, PatchType
       DEF Book, FailSettlement, PatchCopy, RunType, Phases, States
  <2>3. ledger' \subseteq [job : Jobs, ids : SUBSET Accounts]
    BY <1>7, <2>1 DEF Book, EntriesAfter, Booked, TypeOK
  <2> QED BY <1>7, <2>2, <2>3 DEF Book, TypeOK, RunsTyped, RunType, JobsTyped
<1>8. ASSUME NEW r \in Runs, DeleteBatch(r) PROVE TypeOK'
  <2>1. run[r].job \in Jobs /\ run[r].todo \subseteq Accounts
    BY <1>8, <1>a, RunJob DEF DeleteBatch, RunType
  <2>2. PICK b \in Batches(run[r].todo), reached \in SUBSET run[r].todo : DeleteBatch(r)!2!(b, reached)
    BY <1>8 DEF DeleteBatch
  <2>3. RunsTyped' /\ JobsTyped'
    <3>1. \/ End(r) /\ UNCHANGED jobVars
          \/ PatchCopy(r) /\ \E p \in {"verify", "delete"} : GoesOn(r, p, run[r].todo \ b)
      BY <2>2
    <3>2. /\ run[r].phase # "free" /\ {"verify", "delete"} \subseteq Phases \ {"free"}
          /\ run[r].todo \ b \subseteq Accounts
      BY <1>8, <2>1 DEF DeleteBatch, Phases
    <3>3. RunsTyped'
      BY <1>b, <3>1, <3>2, GoesOnType
    <3>4. JobsTyped'
      BY <1>a, <1>c, <2>1, <3>1, PatchType DEF PatchCopy, RunType
    <3> QED BY <3>3, <3>4
  <2>4. pool' \in [Accounts -> {"absent", "healthy", "dead", "gone"}]
    BY <2>2 DEF TypeOK
  <2>5. late' \subseteq Accounts /\ retired' \subseteq Accounts
    BY <2>1, <2>2 DEF Batches, TypeOK
  <2>6. faults' \in 0 .. MaxFaults
    BY <2>2, BoundsOK DEF Fault, TypeOK
  <2> QED BY <1>8, <2>3, <2>4, <2>5, <2>6 DEF DeleteBatch, TypeOK, RunsTyped, RunType, JobsTyped
<1>9. ASSUME NEW r \in Runs, VerifyDeletion(r) PROVE TypeOK'
  <2>1. run[r].job \in Jobs /\ Left(r) \subseteq Accounts
    BY <1>9, RunJob DEF VerifyDeletion, Left, Existing
  <2>2. RunsTyped' /\ JobsTyped'
    BY <1>9, <1>b, <1>c, <2>1, PatchType DEF VerifyDeletion, States
  <2> QED BY <1>9, <2>2 DEF VerifyDeletion, TypeOK, RunsTyped, RunType, JobsTyped
<1>10. ASSUME NEW r \in Runs, CallFails(r) PROVE TypeOK'
  <2>1. run[r].job \in Jobs
    BY <1>10, RunJob DEF CallFails
  <2>2. RunsTyped'
    BY <1>10, <1>b DEF CallFails, FailSettlement
  <2>3. JobsTyped'
    <3>1. CASE FailSettlement(r)
      BY <1>a, <1>c, <2>1, <3>1, PatchType DEF FailSettlement, RunType, States
    <3>2. CASE ~FailSettlement(r)
      BY <1>10, <2>1, <3>2 DEF CallFails, SetState, TypeOK, JobsTyped, States
    <3> QED BY <3>1, <3>2
  <2>4. faults' \in 0 .. MaxFaults
    BY <1>10, BoundsOK DEF CallFails, Fault, TypeOK
  <2> QED BY <1>10, <2>2, <2>3, <2>4 DEF CallFails, TypeOK, RunsTyped, RunType, JobsTyped
<1>11. ASSUME NEW j \in Jobs, SubmissionFails(j) PROVE TypeOK'
  BY <1>11 DEF SubmissionFails, SetState, TypeOK, States
<1>12. ASSUME NEW a \in Accounts, LateDelete(a) \/ PoolChanges(a) PROVE TypeOK'
  BY <1>12 DEF LateDelete, PoolChanges, Existing, TypeOK
<1>13. CASE Restart
  BY <1>13, FreeType, FreeRun, BoundsOK DEF Restart, Fault, TypeOK, RunType
<1>14. CASE UNCHANGED vars
  BY <1>14 DEF vars, TypeOK
<1> QED BY <1>1, <1>2, <1>3, <1>4, <1>5, <1>6, <1>7, <1>8, <1>9, <1>10, <1>11, <1>12, <1>13, <1>14,
          <1>15
       DEF Next, RunStep

-----------------------------------------------------------------------------
(* Steps *)

\* What the helpers do to the runs.
LEMMA EndRuns ==
  ASSUME TypeOK, NEW r \in Runs, End(r)
  PROVE  run'[r].phase = "free" /\ \A s \in Runs \ {r} : run'[s] = run[s]
  BY FreeRun DEF End, TypeOK

LEMMA GoesOnRuns ==
  ASSUME TypeOK, NEW r \in Runs, NEW p, NEW todo, GoesOn(r, p, todo)
  PROVE  /\ run'[r].job = run[r].job /\ run'[r].ids = run[r].ids
         /\ run'[r].phase = p /\ run'[r].todo = todo
         /\ run'[r].state = run[r].state
         /\ run'[r].made = run[r].made /\ run'[r].remaining = run[r].remaining
         /\ \A s \in Runs \ {r} : run'[s] = run[s]
<1> DEFINE new == RunOf(run[r].job, run[r].ids, p, todo, run[r].state, run[r].made, run[r].remaining)
<1>1. run' = [run EXCEPT ![r] = new]
  BY DEF GoesOn
<1>2. /\ new.job = run[r].job /\ new.ids = run[r].ids /\ new.phase = p /\ new.todo = todo
      /\ new.state = run[r].state /\ new.made = run[r].made /\ new.remaining = run[r].remaining
  BY DEF RunOf
<1> HIDE DEF new
<1> QED BY <1>1, <1>2 DEF TypeOK

\* Accounts neither come back nor were never there.
Ages == \A a \in Accounts : /\ pool[a] = "gone" => pool'[a] = "gone"
                            /\ pool[a] # "absent" => pool'[a] # "absent"

LEMMA GoneStays == ASSUME Ages, NEW S \in SUBSET Accounts, Gone(S) PROVE Gone(S)'
  BY DEF Ages, Gone

LEMMA PlanStays == ASSUME TypeOK, PlanInv, Ages, plan' = plan PROVE PlanInv'
  BY DEF Ages, PlanInv, TypeOK

\* A step in which no job changes, and runs at most end.
LEMMA QuietStep ==
  ASSUME IInv, Ages, UNCHANGED <<ledger, retired, submitted, jobVars>>, unsure' \subseteq unsure,
         \A s \in Runs : run'[s] = run[s] \/ run'[s].phase = "free"
  PROVE  Rest'
<1> USE DEF IInv, Rest, jobVars
<1>1. \A s \in Runs : \A j \in Jobs :
         /\ Settling(s, j)' => Settling(s, j) /\ run'[s] = run[s]
         /\ Detecting(s, j)' => Detecting(s, j) /\ run'[s] = run[s]
  BY DEF Settling, Detecting, SettlePhases, DetectPhases
<1>2. \A j \in Jobs : Virgin(j) => Virgin(j)'
  BY <1>1 DEF Virgin, Unbooked
<1>3. PlanInv'
  BY PlanStays
<1>4. FreshInv' /\ DetectInv'
  BY <1>1, <1>2 DEF FreshInv, DetectInv
<1>5. \A j \in Jobs : \A made, rem : Says(j, made, rem) => Says(j, made, rem)'
  BY GoneStays DEF Says, Covered, TypeOK
<1>6. MadeInv'
  BY <1>5, GoneStays DEF MadeInv, TypeOK
<1>7. RunInv'
  <2> SUFFICES ASSUME NEW r \in Runs, NEW j \in Jobs, Settling(r, j)'
               PROVE  /\ run'[r].ids \subseteq plan'[j]
                      /\ Gone(plan[j] \ run[r].ids)'
                      /\ run'[r].phase # "settle" => /\ run'[r].state \in {"settling", "failed"}
                                                    /\ Says(j, run[r].made, run[r].remaining)'
                      /\ run'[r].phase \in {"delete", "verify"} => Covered(run[r].ids)'
                      /\ run'[r].phase = "delete" => run'[r].todo \subseteq run'[r].ids
    BY DEF RunInv
  <2>1. Settling(r, j) /\ run'[r] = run[r]
    BY <1>1
  <2>2. plan[j] \ run[r].ids \in SUBSET Accounts
    BY DEF TypeOK
  <2>3. Gone(plan[j] \ run[r].ids)'
    <3>1. Gone(plan[j] \ run[r].ids)
      BY <2>1 DEF RunInv
    <3> QED BY <2>1, <2>2, <3>1 DEF Gone, Ages
  <2>4. run[r].phase # "settle" => Says(j, run[r].made, run[r].remaining)'
    <3>1. run[r].phase # "settle" => Says(j, run[r].made, run[r].remaining)
      BY <2>1 DEF RunInv
    <3>2. run'[r].made = run[r].made /\ run'[r].remaining = run[r].remaining
      BY <2>1
    <3>3. plan[j] \subseteq Accounts
      BY DEF TypeOK
    <3> QED BY <3>1, <3>2, <3>3 DEF Says, Covered, Gone, Ages
  <2>5. run[r].phase \in {"delete", "verify"} => Covered(run[r].ids)'
    BY <2>1 DEF RunInv, Covered
  <2> QED BY <2>1, <2>3, <2>4, <2>5 DEF RunInv
<1>8. SoleInv'
  BY <1>1 DEF SoleInv, Unmade, Unbooked
<1> QED BY <1>3, <1>4, <1>6, <1>7, <1>8 DEF BookedBeforeDeleted, BookedOnce

\* A job that a run is settling is neither being detected nor untouched.
LEMMA SettlingJob ==
  ASSUME IInv, NEW r \in Runs, NEW j \in Jobs, Settling(r, j)
  PROVE  /\ state[j] \notin {"queued", "running", "succeeded"}
         /\ \A s \in Runs : ~Detecting(s, j)
  BY DEF IInv, Rest, FreshInv, DetectInv, Virgin

\* A step of a run that settles job j: it writes its copy back, or not, and goes
\* on to delete or is over.
LEMMA SettlementStep ==
  ASSUME IInv, Ages, NEW r \in Runs, NEW j \in Jobs, Settling(r, j),
         UNCHANGED <<submitted, plan, unsure>>,
         BookedBeforeDeleted',
         ledger' = ledger \/ /\ run[r].phase = "book" /\ Unmade(r)
                             /\ \E e : e.job = j /\ ledger' = ledger \cup {e},
         \/ UNCHANGED jobVars
         \/ \E s \in {"settling", "settled", "failed"}, made \in BOOLEAN, rem \in SUBSET Accounts :
              /\ j <= submitted
              /\ Patch(j, s, made, rem)
              /\ Says(j, made, rem)'
              /\ s = "settled" => Gone(plan[j])'
              /\ made \/ Unmade(r)
              /\ run'[r].phase = "free" \/ made = run[r].made,
         \A s \in Runs \ {r} : run'[s] = run[s],
         \/ run'[r].phase = "free"
         \/ /\ run[r].phase # "settle"
            /\ run'[r].phase \in {"delete", "verify"}
            /\ run'[r].job = j /\ run'[r].ids = run[r].ids
            /\ run'[r].made = run[r].made /\ run'[r].remaining = run[r].remaining
            /\ run'[r].state = run[r].state
            /\ Covered(run[r].ids)'
            /\ run'[r].phase = "delete" => run'[r].todo \subseteq run'[r].ids
  PROVE  Rest'
<1> USE DEF IInv, Rest, jobVars
<1>1. /\ \A s \in Runs \ {r} : run'[s] = run[s]
      /\ \A s \in Runs, i \in Jobs : Settling(s, i)' => Settling(s, i)
      /\ \A s \in Runs, i \in Jobs : Detecting(s, i)' => Detecting(s, i) /\ s # r
  BY DEF Settling, Detecting, SettlePhases, DetectPhases
<1>2. \A i \in Jobs \ {j} : /\ settlement'[i] = settlement[i] /\ state'[i] = state[i]
                            /\ Unbooked(i) => Unbooked(i)'
  BY DEF Patch, SetState, Unbooked, TypeOK
<1>3. \A i \in Jobs \ {j} : Virgin(i) => Virgin(i)'
  BY <1>1, <1>2 DEF Virgin
<1>4. state'[j] \in {state[j], "settling", "settled", "failed"}
  BY DEF Patch, SetState, TypeOK
<1>5. PlanInv'
  BY PlanStays
<1>6. FreshInv' /\ DetectInv'
  <2>1. ~(j > submitted)
    BY SettlingJob DEF FreshInv
  <2>2. state'[j] \notin {"queued", "running", "succeeded"}
    BY <1>4, SettlingJob
  <2>3. FreshInv'
    BY <1>2, <1>3, <2>1, <2>2 DEF FreshInv
  <2> QED BY <1>1, <1>2, <1>3, <2>2, <2>3, SettlingJob DEF DetectInv, Detecting
<1>7. BookedOnce'
  <2>1. CASE ledger' = ledger
    BY <2>1 DEF BookedOnce
  <2>2. CASE run[r].phase = "book" /\ Unmade(r) /\ \E e : e.job = j /\ ledger' = ledger \cup {e}
    BY <2>2 DEF SoleInv, Unbooked, BookedOnce
  <2> QED BY <2>1, <2>2
<1>8. ledger \subseteq ledger'
  OBVIOUS
<1>9. \A i \in Jobs : plan[i] \subseteq Accounts
  BY DEF TypeOK
<1>10. MadeInv'
  <2>1. ASSUME NEW i \in Jobs, UNCHANGED <<state[i], settlement[i]>>
        PROVE  /\ Says(i, settlement[i].made, settlement[i].remaining)'
               /\ state'[i] = "settled" => Gone(plan[i])'
    BY <1>8, <1>9, <2>1 DEF MadeInv, Says, Covered, Gone, Ages
  <2>2. ASSUME NEW s, NEW made \in BOOLEAN, NEW rem, Patch(j, s, made, rem),
               Says(j, made, rem)', s = "settled" => Gone(plan[j])'
        PROVE  /\ Says(j, settlement[j].made, settlement[j].remaining)'
               /\ state'[j] = "settled" => Gone(plan[j])'
    <3>1. settlement'[j].made = made /\ settlement'[j].remaining = rem /\ state'[j] = s
      BY <2>2 DEF Patch, SetState, TypeOK
    <3> QED BY <2>2, <3>1 DEF Says, Covered, Gone
  <2> QED BY <1>2, <2>1, <2>2 DEF MadeInv
<1>11. RunInv'
  <2> SUFFICES ASSUME NEW s \in Runs, NEW i \in Jobs, Settling(s, i)'
               PROVE  /\ run'[s].ids \subseteq plan'[i]
                      /\ Gone(plan[i] \ run[s].ids)'
                      /\ run'[s].phase # "settle" => /\ run'[s].state \in {"settling", "failed"}
                                                    /\ Says(i, run[s].made, run[s].remaining)'
                      /\ run'[s].phase \in {"delete", "verify"} => Covered(run[s].ids)'
                      /\ run'[s].phase = "delete" => run'[s].todo \subseteq run'[s].ids
    BY DEF RunInv
  <2>1. Settling(s, i)
    BY <1>1
  <2>2. run'[s].ids = run[s].ids
    BY <1>1 DEF Settling, SettlePhases
  <2>3. Gone(plan[i] \ run[s].ids)'
    BY <1>9, <2>1, <2>2 DEF RunInv, Gone, Ages
  <2>4. run'[s].phase # "settle" =>
          /\ run[s].phase # "settle"
          /\ run'[s].state = run[s].state
          /\ run'[s].made = run[s].made /\ run'[s].remaining = run[s].remaining
    BY <1>1 DEF Settling, SettlePhases
  <2>5. run'[s].phase # "settle" => Says(i, run[s].made, run[s].remaining)'
    <3>1. run'[s].phase # "settle" => Says(i, run[s].made, run[s].remaining)
      BY <2>1, <2>4 DEF RunInv
    <3> QED BY <1>8, <1>9, <2>4, <3>1 DEF Says, Covered, Gone, Ages
  <2>6. run'[s].phase \in {"delete", "verify"} => Covered(run[s].ids)'
    <3>1. CASE s = r
      BY <3>1 DEF Settling, SettlePhases, Covered
    <3>2. CASE s # r
      BY <1>1, <1>8, <2>1, <3>2 DEF RunInv, Covered
    <3> QED BY <3>1, <3>2
  <2>7. run'[s].phase = "delete" => run'[s].todo \subseteq run'[s].ids
    BY <1>1, <2>1 DEF RunInv, Settling, SettlePhases
  <2> QED BY <2>1, <2>2, <2>3, <2>4, <2>5, <2>6, <2>7 DEF RunInv
<1>12. SoleInv'
  <2> SUFFICES ASSUME NEW s \in Runs, NEW i \in Jobs, Settling(s, i)', Unmade(s)'
               PROVE  /\ run'[s].ids = plan'[i]
                      /\ ~settlement'[i].made
                      /\ \A t \in Runs : Settling(t, i)' => t = s
                      /\ run'[s].phase \in {"settle", "facts", "book"} => Unbooked(i)'
    BY DEF SoleInv
  <2>1. Settling(s, i)
    BY <1>1
  <2>2. CASE i # j
    <3>1. s # r
      BY <2>1, <2>2 DEF Settling
    <3>2. Unmade(s)
      BY <1>1, <1>2, <2>1, <2>2, <3>1 DEF Unmade, Settling
    <3> QED BY <1>1, <1>2, <2>1, <2>2, <3>1, <3>2 DEF SoleInv
  <2>3. CASE i = j /\ s # r
    <3>1. run'[s] = run[s]
      BY <1>1, <2>3
    <3>2. ~Unmade(s) /\ ~Unmade(r)
      BY <2>1, <2>3 DEF SoleInv
    <3>3. run[s].phase = "settle" /\ settlement[j].made /\ ~settlement'[j].made
      BY <2>1, <2>3, <3>1, <3>2 DEF Unmade, Settling
    <3> QED BY <3>2, <3>3 DEF Patch, TypeOK
  <2>4. CASE i = j /\ s = r
    <3>1. run'[r].phase \in {"delete", "verify"} /\ run[r].phase # "settle" /\ ~run[r].made
      BY <2>4 DEF Settling, SettlePhases, Unmade
    <3>2. Unmade(r)
      BY <3>1 DEF Unmade
    <3>3. settlement'[j] = settlement[j] \/ settlement'[j].made = run[r].made
      BY <3>1 DEF Patch, TypeOK
    <3> QED BY <1>1, <2>1, <2>4, <3>1, <3>2, <3>3 DEF SoleInv
  <2> QED BY <2>2, <2>3, <2>4
<1> QED BY <1>5, <1>6, <1>7, <1>10, <1>11, <1>12

\* A submission adds at most one run, of the given job.
LEMMA SubmissionRuns ==
  ASSUME TypeOK, NEW j \in Jobs, NEW r \in Runs, NEW p, NEW ids, Submission(j, r, p, ids)
  PROVE  /\ \/ run' = run
            \/ /\ run[r].phase = "free"
               /\ run'[r].job = j /\ run'[r].phase = p /\ run'[r].ids = ids
               /\ \A s \in Runs \ {r} : run'[s] = run[s]
         /\ unsure' \subseteq unsure \cup {j}
<1> DEFINE new == RunOf(j, ids, p, {}, "queued", FALSE, {})
<1>1. \/ run' = run
      \/ run[r] = Free /\ run' = [run EXCEPT ![r] = new]
  BY DEF Submission, Starts
<1>2. new.job = j /\ new.phase = p /\ new.ids = ids
  BY DEF RunOf
<1>3. unsure' \subseteq unsure \cup {j}
  BY DEF Submission
<1> HIDE DEF new
<1> QED BY <1>1, <1>2, <1>3, FreeRun DEF TypeOK

\* A new job has no runs, so that its detection is the only one.
LEMMA SubmitStep == ASSUME IInv, NEW m \in Modes, NEW r \in Runs, Submit(m, r) PROVE Rest'
<1> USE DEF IInv, Rest, jobVars, world
<1> DEFINE j == submitted + 1
<1>1. /\ j \in Jobs /\ submitted' = j /\ UNCHANGED <<world, ledger, jobVars>>
      /\ Submission(j, r, "detect", {})
  BY BoundsOK DEF Submit, TypeOK, Jobs
<1>2. /\ state[j] = "queued" /\ Virgin(j) /\ \A s \in Runs : ~Detecting(s, j)
  BY <1>1 DEF FreshInv, DetectInv, TypeOK, Jobs
<1>3. /\ \/ run' = run
         \/ /\ run[r].phase = "free"
            /\ run'[r].job = j /\ run'[r].phase = "detect" /\ run'[r].ids = {}
            /\ \A s \in Runs \ {r} : run'[s] = run[s]
      /\ unsure' \subseteq unsure \cup {j}
  BY <1>1, SubmissionRuns
<1>4. submitted \in Nat /\ j > submitted /\ j <= j /\ \A i \in Jobs : i > j => i > submitted /\ i # j
  BY DEF TypeOK, Jobs
<1> HIDE DEF j
<1>5. \A s \in Runs, i \in Jobs :
         /\ Settling(s, i)' => Settling(s, i) /\ run'[s] = run[s]
         /\ Detecting(s, i)' => \/ Detecting(s, i) /\ run'[s] = run[s]
                                \/ s = r /\ i = j
  <2>1. CASE run' = run
    BY <2>1 DEF Settling, Detecting
  <2>2. CASE run' # run
    BY <1>3, <2>2 DEF Settling, Detecting, SettlePhases, DetectPhases
  <2> QED BY <2>1, <2>2
<1>6. \A i \in Jobs : Virgin(i) => Virgin(i)'
  BY <1>1, <1>5 DEF Virgin, Unbooked
<1>7. FreshInv'
  BY <1>1, <1>3, <1>4, <1>6 DEF FreshInv
<1>8. DetectInv'
  <2>1. \A s \in Runs, i \in Jobs : Detecting(s, i) => i <= j /\ i # j
    BY <1>1, <1>2, <1>4 DEF DetectInv, TypeOK, Jobs
  <2>2. j <= submitted'
    BY <1>1, <1>4
  <2> QED BY <1>1, <1>2, <1>5, <1>6, <2>1, <2>2 DEF DetectInv
<1>9. PlanInv' /\ MadeInv'
  BY <1>1 DEF PlanInv, MadeInv, Says, Covered, Gone
<1>10. RunInv' /\ SoleInv'
  BY <1>1, <1>5 DEF RunInv, SoleInv, Says, Covered, Gone, Unmade, Unbooked
<1> QED BY <1>1, <1>7, <1>8, <1>9, <1>10 DEF BookedBeforeDeleted, BookedOnce

\* A settlement run of a job that was never settled has the plan for its own.
LEMMA SettleStep == ASSUME IInv, NEW j \in Jobs, NEW r \in Runs, Settle(j, r) PROVE Rest'
<1> USE DEF IInv, Rest, jobVars, world
<1> DEFINE ids == IF Resumable(j) THEN settlement[j].remaining ELSE plan[j]
<1>1. /\ Submission(j, r, "settle", ids) /\ Kept(j)
      /\ Confirmable(j) \/ Resumable(j)
      /\ state' = [state EXCEPT ![j] = "settling"]
      /\ UNCHANGED <<world, ledger, plan, sure, settlement, submitted>>
  BY DEF Settle, SetState, kept
<1>2. state'[j] = "settling" /\ \A i \in Jobs \ {j} : state'[i] = state[i]
  BY <1>1 DEF TypeOK
<1>3. Resumable(j) => settlement[j].made
  BY DEF Resumable, MadeInv, Says
<1>4. Confirmable(j) => Virgin(j)
  BY DEF Confirmable, FreshInv
<1>5. /\ ids \subseteq plan[j] /\ Gone(plan[j] \ ids)
      /\ ~settlement[j].made => ids = plan[j] /\ Virgin(j)
  BY <1>1, <1>3, <1>4 DEF MadeInv, Says, Gone, Resumable
<1>6. \A s \in Runs : ~Detecting(s, j)
  BY <1>1, <1>3 DEF DetectInv, Confirmable, Virgin
<1> HIDE DEF ids
<1>7. /\ \/ run' = run
         \/ /\ run[r].phase = "free"
            /\ run'[r].job = j /\ run'[r].phase = "settle" /\ run'[r].ids = ids
            /\ \A s \in Runs \ {r} : run'[s] = run[s]
      /\ unsure' \subseteq unsure \cup {j}
  BY <1>1, SubmissionRuns
<1>8. \A s \in Runs, i \in Jobs :
         /\ Detecting(s, i)' => Detecting(s, i) /\ run'[s] = run[s]
         /\ Settling(s, i)' => \/ Settling(s, i) /\ run'[s] = run[s]
                               \/ s = r /\ i = j /\ run'[r].phase = "settle" /\ run'[r].ids = ids
  <2>1. CASE run' = run
    BY <2>1 DEF Settling, Detecting
  <2>2. CASE run' # run
    BY <1>7, <2>2 DEF Settling, Detecting, SettlePhases, DetectPhases
  <2> QED BY <2>1, <2>2
<1>9. \A i \in Jobs \ {j} : Virgin(i) => Virgin(i)'
  BY <1>1, <1>8 DEF Virgin, Unbooked
<1>10. ~(j > submitted)
  BY <1>1, BoundsOK DEF Kept, TypeOK, Jobs
<1>11. FreshInv' /\ DetectInv'
  BY <1>1, <1>2, <1>6, <1>7, <1>8, <1>9, <1>10 DEF FreshInv, DetectInv
<1>12. PlanInv' /\ MadeInv'
  BY <1>1, <1>2 DEF PlanInv, MadeInv, Says, Covered, Gone
<1>13. RunInv'
  BY <1>1, <1>5, <1>8 DEF RunInv, Says, Covered, Gone
<1>14. SoleInv'
  <2> SUFFICES ASSUME NEW s \in Runs, NEW i \in Jobs, Settling(s, i)', Unmade(s)'
               PROVE  /\ run'[s].ids = plan'[i]
                      /\ ~settlement'[i].made
                      /\ \A t \in Runs : Settling(t, i)' => t = s
                      /\ run'[s].phase \in {"settle", "facts", "book"} => Unbooked(i)'
    BY DEF SoleInv
  <2>1. CASE Settling(s, i) /\ run'[s] = run[s]
    <3>1. Unmade(s)
      BY <1>1, <2>1 DEF Unmade
    <3>2. i # j
      BY <1>1, <1>3, <1>4, <2>1, <3>1 DEF SoleInv, Virgin
    <3> QED BY <1>1, <1>8, <2>1, <3>1, <3>2 DEF SoleInv, Unbooked
  <2>2. CASE s = r /\ i = j /\ run'[r].phase = "settle" /\ run'[r].ids = ids
    <3>1. ~settlement[j].made
      BY <1>1, <2>2 DEF Unmade, Settling
    <3> QED BY <1>1, <1>5, <1>8, <2>2, <3>1 DEF Virgin, Unbooked
  <2> QED BY <1>8, <2>1, <2>2
<1> QED BY <1>1, <1>11, <1>12, <1>13, <1>14 DEF BookedBeforeDeleted, BookedOnce

\* Detection works on a job that nothing else works on.
LEMMA DetectionStep ==
  ASSUME IInv, NEW r \in Runs, NEW j \in Jobs, Detecting(r, j), j <= submitted,
         NEW st \in {"running", "succeeded", "failed"}, state' = [state EXCEPT ![j] = st],
         st = "running" \/ run'[r].phase = "free",
         \/ plan' = plan
         \/ \E S \in SUBSET Existing : plan' = [plan EXCEPT ![j] = S],
         \/ run'[r].phase = "free"
         \/ run'[r].job = j /\ run'[r].phase \in DetectPhases,
         \A s \in Runs \ {r} : run'[s] = run[s],
         UNCHANGED <<world, ledger, kept, settlement, unsure>>
  PROVE  Rest'
<1> USE DEF IInv, Rest, world, kept
<1>1. /\ Virgin(j) /\ settlement[j].remaining = {}
      /\ \A s \in Runs : Detecting(s, j) => s = r
  BY DEF DetectInv, MadeInv, Says, Virgin
<1>2. /\ state'[j] = st /\ \A i \in Jobs \ {j} : state'[i] = state[i] /\ plan'[i] = plan[i]
      /\ \A a \in plan'[j] : a \in plan[j] \/ pool[a] # "absent"
  BY DEF TypeOK, Existing
<1>3. \A s \in Runs, i \in Jobs :
         /\ Settling(s, i)' => Settling(s, i) /\ run'[s] = run[s] /\ i # j
         /\ Detecting(s, i)' => Detecting(s, i)
  BY <1>1 DEF Settling, Detecting, SettlePhases, DetectPhases, Virgin
<1>4. \A i \in Jobs : Virgin(i) => Virgin(i)'
  BY <1>3 DEF Virgin, Unbooked
<1>5. FreshInv'
  BY <1>1, <1>2, <1>4 DEF FreshInv, TypeOK, Jobs
<1>6. DetectInv'
  <2>1. st = "succeeded" => ~Detecting(r, j)'
    BY DEF Detecting, DetectPhases
  <2> QED BY <1>1, <1>2, <1>3, <1>4, <2>1 DEF DetectInv
<1>7. PlanInv'
  BY <1>2 DEF PlanInv
<1>8. MadeInv'
  BY <1>1, <1>2 DEF MadeInv, Says, Covered, Gone, Virgin
<1>9. RunInv' /\ SoleInv'
  BY <1>2, <1>3 DEF RunInv, SoleInv, Says, Covered, Gone, Unmade, Unbooked
<1> QED BY <1>5, <1>6, <1>7, <1>8, <1>9 DEF BookedBeforeDeleted, BookedOnce

-----------------------------------------------------------------------------
(* The theorems *)

\* A run that carries on with the copy it has.
LEMMA GoesOnStep ==
  ASSUME IInv, NEW r \in Runs, NEW j \in Jobs, Settling(r, j),
         UNCHANGED <<world, ledger, kept, jobVars, unsure>>,
         \A s \in Runs \ {r} : run'[s] = run[s],
         run'[r].job = j, run'[r].ids = run[r].ids,
         \/ /\ run[r].phase = "settle" /\ run'[r].phase = "facts"
            /\ run'[r].state = state[j]
            /\ run'[r].made = settlement[j].made /\ run'[r].remaining = settlement[j].remaining
         \/ /\ run[r].phase = "facts" /\ run'[r].phase = "book"
            /\ run'[r].state = run[r].state
            /\ run'[r].made = run[r].made /\ run'[r].remaining = run[r].remaining,
         state[j] # "settled" \/ run[r].phase # "settle"
  PROVE  Rest'
<1> USE DEF IInv, Rest, world, kept, jobVars
<1>1. \A s \in Runs, i \in Jobs :
         /\ Settling(s, i)' => Settling(s, i)
         /\ Detecting(s, i)' => Detecting(s, i) /\ s # r
         /\ s # r => run'[s] = run[s]
  BY DEF Settling, Detecting, SettlePhases, DetectPhases
<1>2. \A i \in Jobs : Virgin(i) => Virgin(i)'
  BY <1>1 DEF Virgin, Unbooked
<1>3. PlanInv' /\ FreshInv' /\ DetectInv' /\ MadeInv'
  BY <1>1, <1>2 DEF PlanInv, FreshInv, DetectInv, MadeInv, Says, Covered, Gone, Detecting
<1>4. run'[r].state \in {"settling", "failed"} /\ Says(j, run'[r].made, run'[r].remaining)
  <2>1. CASE run[r].phase = "settle"
    BY <2>1, SettlingJob DEF MadeInv, TypeOK, States
  <2>2. CASE run[r].phase = "facts"
    BY <2>2 DEF RunInv
  <2> QED BY <2>1, <2>2
<1>5. RunInv'
  <2> SUFFICES ASSUME NEW s \in Runs, NEW i \in Jobs, Settling(s, i)'
               PROVE  /\ run'[s].ids \subseteq plan'[i]
                      /\ Gone(plan[i] \ run[s].ids)'
                      /\ run'[s].phase # "settle" => /\ run'[s].state \in {"settling", "failed"}
                                                    /\ Says(i, run[s].made, run[s].remaining)'
                      /\ run'[s].phase \in {"delete", "verify"} => Covered(run[s].ids)'
                      /\ run'[s].phase = "delete" => run'[s].todo \subseteq run'[s].ids
    BY DEF RunInv
  <2>1. CASE s = r
    <3>1. i = j
      BY <2>1 DEF Settling
    <3> QED BY <1>4, <2>1, <3>1 DEF RunInv, Says, Covered, Gone
  <2>2. CASE s # r
    BY <1>1, <2>2 DEF RunInv, Says, Covered, Gone
  <2> QED BY <2>1, <2>2
<1>6. SoleInv'
  <2>1. \A s \in Runs, i \in Jobs : Settling(s, i)' => (Unmade(s)' <=> Unmade(s))
    BY <1>1 DEF Unmade, Settling
  <2>2. \A s \in Runs : run'[s].ids = run[s].ids
    BY <1>1
  <2>3. \A s \in Runs : run'[s].phase \in {"settle", "facts", "book"} =>
                          run[s].phase \in {"settle", "facts", "book"}
    BY <1>1
  <2> QED BY <1>1, <2>1, <2>2, <2>3 DEF SoleInv, Unbooked
<1> QED BY <1>3, <1>5, <1>6 DEF BookedBeforeDeleted, BookedOnce

\* Bookings stay, and cover what a batch deletes.
LEMMA BookedStays ==
  ASSUME BookedBeforeDeleted, ledger \subseteq ledger',
         \E S : Covered(S) /\ retired' \subseteq retired \cup S
  PROVE  BookedBeforeDeleted'
  BY DEF BookedBeforeDeleted, Covered

LEMMA StartDetectionStep == ASSUME IInv, NEW r \in Runs, StartDetection(r) PROVE Rest'
<1> USE DEF IInv, world, kept
<1> DEFINE j == run[r].job
<1>1. j \in Jobs /\ Detecting(r, j)
  BY RunJob DEF StartDetection, Detecting, DetectPhases
<1>2. CASE UNCHANGED jobVars /\ End(r)
  BY <1>2, EndRuns, QuietStep DEF StartDetection, Ages, jobVars
<1>3. CASE ~(UNCHANGED jobVars /\ End(r))
  <2>1. /\ Kept(j) /\ plan' = plan /\ settlement' = settlement
        /\ state' = [state EXCEPT ![j] = "running"] /\ GoesOn(r, "candidates", {})
        /\ UNCHANGED <<world, ledger, kept, unsure>>
    BY <1>3 DEF StartDetection, SetState
  <2>2. j <= submitted
    BY <1>1, <2>1, BoundsOK DEF Kept, TypeOK, Jobs
  <2>3. /\ run'[r].job = j /\ run'[r].phase \in DetectPhases
        /\ \A s \in Runs \ {r} : run'[s] = run[s]
    BY <2>1, GoesOnRuns DEF DetectPhases
  <2> HIDE DEF j
  <2> QED BY <1>1, <2>1, <2>2, <2>3, DetectionStep
<1> QED BY <1>2, <1>3

LEMMA DetectStep == ASSUME IInv, NEW r \in Runs, Detect(r) PROVE Rest'
<1> USE DEF IInv, world, kept
<1> DEFINE j == run[r].job
<1>1. j \in Jobs /\ Detecting(r, j) /\ run[r].phase # "free"
  BY RunJob DEF Detect, Detecting, DetectPhases
<1>2. CASE UNCHANGED jobVars /\ End(r)
  BY <1>2, EndRuns, QuietStep DEF Detect, Ages, jobVars
<1>3. CASE ~(UNCHANGED jobVars /\ End(r))
  <2> DEFINE chosen == Selected(mode[j])
  <2>1. /\ Kept(j) /\ plan' = [plan EXCEPT ![j] = chosen] /\ settlement' = settlement
        /\ \/ state' = [state EXCEPT ![j] = "running"] /\ GoesOn(r, "probe", chosen)
           \/ (\E st \in {"failed", "succeeded"} : state' = [state EXCEPT ![j] = st]) /\ End(r)
        /\ UNCHANGED <<world, ledger, kept, unsure>>
    BY <1>3 DEF Detect, SetState
  <2>2. chosen \in SUBSET Existing
    BY DEF Selected, Existing
  <2>3. j <= submitted
    BY <1>1, <2>1, BoundsOK DEF Kept, TypeOK, Jobs
  <2> HIDE DEF chosen
  <2>4. \/ /\ state' = [state EXCEPT ![j] = "running"]
           /\ run'[r].job = j /\ run'[r].phase \in DetectPhases
           /\ \A s \in Runs \ {r} : run'[s] = run[s]
        \/ /\ \E st \in {"failed", "succeeded"} : state' = [state EXCEPT ![j] = st]
           /\ run'[r].phase = "free" /\ \A s \in Runs \ {r} : run'[s] = run[s]
    BY <2>1, EndRuns, GoesOnRuns DEF DetectPhases
  <2> HIDE DEF j
  <2> QED BY <1>1, <2>1, <2>2, <2>3, <2>4, DetectionStep
<1> QED BY <1>2, <1>3

LEMMA ProbeStep == ASSUME IInv, NEW r \in Runs, Probe(r) PROVE Rest'
<1> USE DEF IInv, world, kept
<1> DEFINE j == run[r].job
<1>1. j \in Jobs /\ Detecting(r, j)
  BY RunJob DEF Probe, Detecting, DetectPhases
<1>2. CASE UNCHANGED jobVars /\ End(r)
  BY <1>2, EndRuns, QuietStep DEF Probe, Ages, jobVars
<1>3. CASE ~(UNCHANGED jobVars /\ End(r))
  <2>1. /\ Kept(j) /\ plan' = plan /\ settlement' = settlement
        /\ \/ state' = [state EXCEPT ![j] = "running"] /\ \E rest : GoesOn(r, "probe", rest)
           \/ state' = [state EXCEPT ![j] = "succeeded"] /\ End(r)
        /\ UNCHANGED <<world, ledger, kept, unsure>>
    BY <1>3 DEF Probe, SetState
  <2>2. j <= submitted
    BY <1>1, <2>1, BoundsOK DEF Kept, TypeOK, Jobs
  <2>3. \/ /\ state' = [state EXCEPT ![j] = "running"]
           /\ run'[r].job = j /\ run'[r].phase \in DetectPhases
           /\ \A s \in Runs \ {r} : run'[s] = run[s]
        \/ /\ state' = [state EXCEPT ![j] = "succeeded"]
           /\ run'[r].phase = "free" /\ \A s \in Runs \ {r} : run'[s] = run[s]
    BY <2>1, EndRuns, GoesOnRuns DEF DetectPhases
  <2> HIDE DEF j
  <2> QED BY <1>1, <2>1, <2>2, <2>3, DetectionStep
<1> QED BY <1>2, <1>3

LEMMA StartSettlementStep == ASSUME IInv, NEW r \in Runs, StartSettlement(r) PROVE Rest'
<1> USE DEF IInv, world, kept
<1> DEFINE j == run[r].job
           new == RunOf(j, run[r].ids, "facts", {}, state[j], settlement[j].made, settlement[j].remaining)
<1>1. j \in Jobs /\ Settling(r, j)
  BY RunJob DEF StartSettlement, Settling, SettlePhases
<1>2. CASE End(r)
  BY <1>2, EndRuns, QuietStep DEF StartSettlement, Ages, jobVars
<1>3. CASE ~End(r)
  <2>1. run' = [run EXCEPT ![r] = new] /\ state[j] # "settled" /\ run[r].phase = "settle"
    BY <1>3 DEF StartSettlement
  <2>2. /\ new.job = j /\ new.ids = run[r].ids /\ new.phase = "facts" /\ new.state = state[j]
        /\ new.made = settlement[j].made /\ new.remaining = settlement[j].remaining
    BY DEF RunOf
  <2> HIDE DEF new
  <2>3. run'[r] = new /\ \A s \in Runs \ {r} : run'[s] = run[s]
    BY <2>1 DEF TypeOK
  <2>4. UNCHANGED <<world, ledger, kept, jobVars, unsure>>
    BY DEF StartSettlement
  <2> HIDE DEF j
  <2> QED BY <1>1, <2>1, <2>2, <2>3, <2>4, GoesOnStep
<1> QED BY <1>2, <1>3

LEMMA ReadFactsStep == ASSUME IInv, NEW r \in Runs, ReadFacts(r) PROVE Rest'
<1> USE DEF IInv, world, kept
<1> DEFINE j == run[r].job
<1>1. j \in Jobs /\ Settling(r, j) /\ run[r].phase = "facts"
  BY RunJob DEF ReadFacts, Settling, SettlePhases
<1>2. GoesOn(r, "book", Selected(mode[j])) /\ UNCHANGED <<world, ledger, kept, jobVars, unsure>>
  BY DEF ReadFacts
<1>3. /\ run'[r].job = j /\ run'[r].ids = run[r].ids /\ run'[r].phase = "book"
      /\ run'[r].state = run[r].state
      /\ run'[r].made = run[r].made /\ run'[r].remaining = run[r].remaining
      /\ \A s \in Runs \ {r} : run'[s] = run[s]
  BY <1>2, GoesOnRuns
<1> HIDE DEF j
<1> QED BY <1>1, <1>2, <1>3, GoesOnStep

\* The copy of a run speaks the truth, so that writing it back does no harm.
LEMMA CopySays ==
  ASSUME IInv, NEW r \in Runs, NEW j \in Jobs, Settling(r, j), run[r].phase # "settle"
  PROVE  /\ run[r].state \in {"settling", "failed"} /\ run[r].made \in BOOLEAN
         /\ run[r].remaining \in SUBSET Accounts
         /\ Says(j, run[r].made, run[r].remaining)
         /\ run[r].made \/ Unmade(r)
         /\ run[r].ids \subseteq plan[j] /\ plan[j] \subseteq Accounts
         /\ Gone(plan[j] \ run[r].ids)
         /\ Unmade(r) => run[r].ids = plan[j]
         /\ run[r].phase = "verify" => Covered(plan[j])
<1> USE DEF IInv, Rest
<1>1. /\ run[r].state \in {"settling", "failed"} /\ Says(j, run[r].made, run[r].remaining)
      /\ run[r].ids \subseteq plan[j] /\ Gone(plan[j] \ run[r].ids)
      /\ run[r].phase = "verify" => Covered(run[r].ids)
  BY DEF RunInv
<1>2. run[r].made \in BOOLEAN /\ run[r].remaining \in SUBSET Accounts /\ plan[j] \subseteq Accounts
  BY DEF TypeOK
<1>3. Unmade(r) <=> ~run[r].made
  BY DEF Unmade
<1>4. Unmade(r) => run[r].ids = plan[j]
  BY DEF SoleInv
<1> QED BY <1>1, <1>2, <1>3, <1>4 DEF Says

\* What is said of a job stays true.
LEMMA SaysStays ==
  ASSUME TypeOK, Ages, ledger \subseteq ledger', plan' = plan,
         NEW j \in Jobs, NEW made \in BOOLEAN, NEW rem, Says(j, made, rem)
  PROVE  Says(j, made, rem)'
<1>1. plan[j] \subseteq Accounts
  BY DEF TypeOK
<1> QED BY <1>1 DEF Says, Covered, Gone, Ages

LEMMA FailStep ==
  ASSUME IInv, NEW r \in Runs, run[r].phase \in SettlePhases \ {"settle"}, FailSettlement(r),
         UNCHANGED <<world, ledger, kept, unsure>>
  PROVE  Rest'
<1> USE DEF world, kept
<1>1. run[r].job \in Jobs
  BY RunJob DEF SettlePhases, IInv
<1> SUFFICES ASSUME NEW j \in Jobs, j = run[r].job PROVE Rest'
  BY <1>1
<1>2. Settling(r, j) /\ run[r].phase # "settle"
  BY DEF Settling
<1>3. run'[r].phase = "free" /\ \A s \in Runs \ {r} : run'[s] = run[s]
  BY EndRuns DEF FailSettlement, IInv
<1>4. CASE ~Kept(j)
  BY <1>3, <1>4, QuietStep DEF FailSettlement, Ages, jobVars
<1>5. CASE Kept(j)
  <2>c. run[r].made \in BOOLEAN /\ run[r].remaining \in SUBSET Accounts
    BY <1>2, CopySays
  <2> SUFFICES ASSUME NEW made \in BOOLEAN, NEW rem \in SUBSET Accounts,
                      made = run[r].made, rem = run[r].remaining
               PROVE  Rest'
    BY <2>c
  <2>1. Patch(j, "failed", made, rem)
    BY <1>5 DEF FailSettlement
  <2>2. j <= submitted
    BY <1>5, BoundsOK DEF Kept, IInv, TypeOK, Jobs
  <2>3. plan' = plan /\ Ages
    BY <2>1 DEF Patch, Ages
  <2>4. Says(j, made, rem) /\ (made \/ Unmade(r))
    BY <1>2, CopySays
  <2>5. Says(j, made, rem)'
    BY <2>3, <2>4, SaysStays DEF IInv
  <2>6. BookedBeforeDeleted'
    BY DEF IInv, Rest, BookedBeforeDeleted
  <2> QED BY <1>2, <1>3, <2>1, <2>2, <2>3, <2>4, <2>5, <2>6, SettlementStep
<1> QED BY <1>4, <1>5

\* Only the run that finds nothing booked books, and it books the plan.
LEMMA BookStep == ASSUME IInv, NEW r \in Runs, Book(r) PROVE Rest'
<1> USE DEF world, kept
<1>1. run[r].job \in Jobs
  BY RunJob DEF Book, IInv
<1> SUFFICES ASSUME NEW j \in Jobs, j = run[r].job PROVE Rest'
  BY <1>1
<1>2. Settling(r, j) /\ run[r].phase = "book"
  BY DEF Settling, Book, SettlePhases
<1>3. CASE run[r].todo # run[r].ids
  BY <1>2, <1>3, FailStep DEF Book, SettlePhases
<1>4. CASE run[r].todo = run[r].ids
  <2>1. /\ ledger' = EntriesAfter(r)
        /\ \/ Kept(j) /\ PatchCopy(r) /\ GoesOn(r, "delete", run[r].ids)
           \/ End(r) /\ UNCHANGED jobVars
        /\ UNCHANGED <<world, kept, unsure>>
    BY <1>4 DEF Book
  <2>2. \/ ledger' = ledger
        \/ /\ Unmade(r)
           /\ \E e : e.job = j /\ ledger' = ledger \cup {e}
    <3>1. CASE run[r].made \/ \E e \in ledger : e.ids = run[r].ids
      BY <2>1, <3>1 DEF EntriesAfter, Booked
    <3>2. CASE ~(run[r].made \/ \E e \in ledger : e.ids = run[r].ids)
      <4>1. ledger' = ledger \cup {[job |-> j, ids |-> run[r].ids]}
        BY <2>1, <3>2 DEF EntriesAfter, Booked
      <4>2. Unmade(r)
        BY <1>2, <3>2 DEF Unmade
      <4> QED BY <4>1, <4>2
    <3> QED BY <3>1, <3>2
  <2>3. Covered(run[r].ids) \/ \E e \in ledger' : e.ids = run[r].ids
    <3>1. CASE run[r].made
      BY <1>2, <3>1, CopySays DEF Says, Covered
    <3>2. CASE ~run[r].made
      <4> DEFINE new == [job |-> run[r].job, ids |-> run[r].ids]
      <4>1. \/ (\E e \in ledger : e.ids = run[r].ids) /\ ledger' = ledger
            \/ ledger' = ledger \cup {new}
        BY <2>1, <3>2 DEF EntriesAfter, Booked
      <4>2. new.ids = run[r].ids
        OBVIOUS
      <4> HIDE DEF new
      <4> QED BY <4>1, <4>2
    <3> QED BY <3>1, <3>2
  <2>4. ledger \subseteq ledger' /\ plan' = plan /\ Ages
    BY <2>1, <2>2 DEF Ages, PatchCopy, Patch, jobVars
  <2>5. BookedBeforeDeleted'
    BY <2>1, <2>4 DEF IInv, Rest, BookedBeforeDeleted
  <2>c. run[r].made \in BOOLEAN /\ run[r].remaining \in SUBSET Accounts
    BY <1>2, CopySays
  <2> SUFFICES ASSUME NEW made \in BOOLEAN, NEW rem \in SUBSET Accounts,
                      made = run[r].made, rem = run[r].remaining
               PROVE  Rest'
    BY <2>c
  <2>6. Says(j, made, rem) /\ (made \/ Unmade(r)) /\ run[r].state \in {"settling", "failed"}
    BY <1>2, CopySays
  <2>7. Says(j, made, rem)'
    BY <2>4, <2>6, SaysStays DEF IInv
  <2>8. CASE End(r) /\ UNCHANGED jobVars
    <3>1. run'[r].phase = "free" /\ \A s \in Runs \ {r} : run'[s] = run[s]
      BY <2>8, EndRuns DEF IInv
    <3> QED BY <1>2, <2>1, <2>2, <2>4, <2>5, <2>8, <3>1, SettlementStep
  <2>9. CASE Kept(j) /\ PatchCopy(r) /\ GoesOn(r, "delete", run[r].ids)
    <3>1. /\ run'[r].job = j /\ run'[r].ids = run[r].ids
          /\ run'[r].phase = "delete" /\ run'[r].todo = run[r].ids
          /\ run'[r].state = run[r].state
          /\ run'[r].made = made /\ run'[r].remaining = run[r].remaining
          /\ \A s \in Runs \ {r} : run'[s] = run[s]
      BY <2>9, GoesOnRuns DEF IInv
    <3>2. Covered(run[r].ids)'
      BY <2>3, <2>4, <3>1 DEF Covered
    <3>3. \E st \in {"settling", "failed"} : Patch(j, st, made, rem)
      BY <2>6, <2>9 DEF PatchCopy
    <3>4. j <= submitted
      BY <2>9, BoundsOK DEF Kept, IInv, TypeOK, Jobs
    <3> QED BY <1>2, <2>1, <2>2, <2>4, <2>5, <2>6, <2>7, <3>1, <3>2, <3>3, <3>4, SettlementStep
  <2> QED BY <2>1, <2>8, <2>9
<1> QED BY <1>3, <1>4

\* What is deleted is booked.
LEMMA DeleteStep == ASSUME IInv, NEW r \in Runs, DeleteBatch(r) PROVE Rest'
<1> USE DEF world, kept
<1>1. run[r].job \in Jobs
  BY RunJob DEF DeleteBatch, IInv
<1> SUFFICES ASSUME NEW j \in Jobs, j = run[r].job PROVE Rest'
  BY <1>1
<1>2. Settling(r, j) /\ run[r].phase = "delete"
  BY DEF Settling, DeleteBatch, SettlePhases
<1>3. PICK b \in Batches(run[r].todo), reached \in SUBSET run[r].todo : DeleteBatch(r)!2!(b, reached)
  BY DEF DeleteBatch
<1>4. /\ b \subseteq run[r].todo /\ run[r].todo \subseteq run[r].ids
      /\ Covered(run[r].ids)
  BY <1>2, <1>3 DEF Batches, IInv, Rest, RunInv
<1>5. UNCHANGED <<ledger, kept, unsure>> /\ plan' = plan /\ Ages
  BY <1>3 DEF DeleteBatch, PatchCopy, Patch, jobVars, Ages, IInv, TypeOK
<1>6. BookedBeforeDeleted'
  BY <1>3, <1>4, <1>5 DEF IInv, Rest, BookedBeforeDeleted, Covered
<1>c. run[r].made \in BOOLEAN /\ run[r].remaining \in SUBSET Accounts
  BY <1>2, CopySays
<1> SUFFICES ASSUME NEW made \in BOOLEAN, NEW rem \in SUBSET Accounts,
                    made = run[r].made, rem = run[r].remaining
             PROVE  Rest'
  BY <1>c
<1>7. Says(j, made, rem) /\ (made \/ Unmade(r)) /\ run[r].state \in {"settling", "failed"}
  BY <1>2, CopySays
<1>8. Says(j, made, rem)'
  BY <1>5, <1>7, SaysStays DEF IInv
<1>9. CASE End(r) /\ UNCHANGED jobVars
  <2>1. run'[r].phase = "free" /\ \A s \in Runs \ {r} : run'[s] = run[s]
    BY <1>9, EndRuns DEF IInv
  <2> QED BY <1>2, <1>5, <1>6, <1>9, <2>1, SettlementStep
<1>10. CASE ~(End(r) /\ UNCHANGED jobVars)
  <2>1. Kept(j) /\ PatchCopy(r) /\ \E p \in {"verify", "delete"} : GoesOn(r, p, run[r].todo \ b)
    BY <1>3, <1>10
  <2>2. /\ run'[r].job = j /\ run'[r].ids = run[r].ids
        /\ run'[r].phase \in {"delete", "verify"} /\ run'[r].todo \subseteq run[r].ids
        /\ run'[r].state = run[r].state
        /\ run'[r].made = made /\ run'[r].remaining = run[r].remaining
        /\ \A s \in Runs \ {r} : run'[s] = run[s]
    BY <1>4, <2>1, GoesOnRuns DEF IInv
  <2>3. Covered(run[r].ids)'
    BY <1>4, <1>5, <2>2 DEF Covered
  <2>4. \E st \in {"settling", "failed"} : Patch(j, st, made, rem)
    BY <1>7, <2>1 DEF PatchCopy
  <2>5. j <= submitted
    BY <2>1, BoundsOK DEF Kept, IInv, TypeOK, Jobs
  <2> QED BY <1>2, <1>5, <1>6, <1>7, <1>8, <2>2, <2>3, <2>4, <2>5, SettlementStep
<1> QED BY <1>9, <1>10

\* What remains is what is still there; the rest of the plan is gone.
LEMMA VerifyStep == ASSUME IInv, NEW r \in Runs, VerifyDeletion(r) PROVE Rest'
<1> USE DEF world, kept
<1>1. run[r].job \in Jobs
  BY RunJob DEF VerifyDeletion, IInv
<1> SUFFICES ASSUME NEW j \in Jobs, j = run[r].job PROVE Rest'
  BY <1>1
<1>2. Settling(r, j) /\ run[r].phase = "verify"
  BY DEF Settling, VerifyDeletion, SettlePhases
<1>3. run'[r].phase = "free" /\ \A s \in Runs \ {r} : run'[s] = run[s]
  BY EndRuns DEF VerifyDeletion, IInv
<1>4. CASE ~Kept(j)
  BY <1>3, <1>4, QuietStep DEF VerifyDeletion, Ages, jobVars
<1>5. CASE Kept(j)
  <2>1. Left(r) \in SUBSET Accounts /\ Left(r) \subseteq plan[j]
    BY <1>2, CopySays DEF Left
  <2> SUFFICES ASSUME NEW left \in SUBSET Accounts, left = Left(r) PROVE Rest'
    BY <2>1
  <2>2. Covered(plan[j]) /\ Gone(plan[j] \ left)
    <3>1. \A a \in plan[j] \ left : a \in run[r].ids => pool[a] = "gone"
      BY <1>2, CopySays DEF Left, Existing, IInv, Rest, PlanInv, TypeOK
    <3> QED BY <1>2, <3>1, CopySays DEF Gone
  <2>3. Patch(j, IF left = {} THEN "settled" ELSE "failed", TRUE, left)
    BY <1>5 DEF VerifyDeletion
  <2>4. j <= submitted
    BY <1>5, BoundsOK DEF Kept, IInv, TypeOK, Jobs
  <2>5. plan' = plan /\ UNCHANGED <<world, ledger, kept, unsure>> /\ Ages
    BY <2>3 DEF VerifyDeletion, Patch, Ages
  <2>6. Says(j, TRUE, left)' /\ (left = {} => Gone(plan[j])')
    BY <2>1, <2>2, <2>5 DEF Says, Covered, Gone
  <2>7. BookedBeforeDeleted'
    BY <2>5 DEF IInv, Rest, BookedBeforeDeleted
  <2> QED BY <1>2, <1>3, <2>3, <2>4, <2>5, <2>6, <2>7, SettlementStep
<1> QED BY <1>4, <1>5

LEMMA CallFailsStep == ASSUME IInv, NEW r \in Runs, CallFails(r) PROVE Rest'
<1> USE DEF world, kept
<1>1. CASE run[r].phase \in {"facts", "verify"} /\ FailSettlement(r)
  BY <1>1, FailStep DEF CallFails, SettlePhases
<1>2. CASE ~(run[r].phase \in {"facts", "verify"} /\ FailSettlement(r))
  <2>1. /\ run[r].phase \in DetectPhases /\ Kept(run[r].job) /\ End(r)
        /\ state' = [state EXCEPT ![run[r].job] = "failed"]
        /\ UNCHANGED <<world, ledger, kept, plan, settlement, unsure>>
    BY <1>2 DEF CallFails, DetectPhases, SetState
  <2>2. run[r].job \in Jobs
    BY <2>1, RunJob DEF DetectPhases, IInv
  <2> SUFFICES ASSUME NEW j \in Jobs, j = run[r].job PROVE Rest'
    BY <2>2
  <2>3. Detecting(r, j) /\ j <= submitted
    BY <2>1, BoundsOK DEF Detecting, Kept, IInv, TypeOK, Jobs
  <2>4. run'[r].phase = "free" /\ \A s \in Runs \ {r} : run'[s] = run[s]
    BY <2>1, EndRuns DEF IInv
  <2> QED BY <2>1, <2>3, <2>4, DetectionStep
<1> QED BY <1>1, <1>2

\* A failed submission only marks its job.
LEMMA SubmissionFailsStep ==
  ASSUME IInv, NEW j \in Jobs, SubmissionFails(j) PROVE Rest'
<1> USE DEF IInv, Rest, world, kept
<1>1. /\ state'[j] = "failed" /\ \A i \in Jobs \ {j} : state'[i] = state[i]
      /\ unsure' \subseteq unsure /\ j \in unsure
      /\ UNCHANGED <<world, ledger, kept, plan, settlement, run>>
  BY DEF SubmissionFails, SetState, TypeOK
<1>2. \A i \in Jobs : Virgin(i) => Virgin(i)'
  BY <1>1 DEF Virgin, Unbooked, Settling
<1>3. FreshInv' /\ DetectInv'
  BY <1>1, <1>2 DEF FreshInv, DetectInv, Detecting
<1>4. PlanInv' /\ MadeInv'
  BY <1>1 DEF PlanInv, MadeInv, Says, Covered, Gone
<1>5. RunInv' /\ SoleInv'
  BY <1>1 DEF RunInv, SoleInv, Settling, Says, Covered, Gone, Unmade, Unbooked
<1> QED BY <1>1, <1>3, <1>4, <1>5 DEF BookedBeforeDeleted, BookedOnce

\* Every step keeps the invariant.
LEMMA Step == IInv /\ [Next]_vars => IInv'
<1> SUFFICES ASSUME IInv, [Next]_vars PROVE IInv'
  OBVIOUS
<1> USE DEF world, kept, jobVars
<1>1. TypeOK'
  BY TypeStep DEF IInv
<1>2. ASSUME NEW r \in Runs,
             (\E m \in Modes : Submit(m, r)) \/ (\E j \in Jobs : Settle(j, r))
      PROVE  Rest'
  BY <1>2, SubmitStep, SettleStep
<1>3. ASSUME NEW r \in Runs, RunStep(r) PROVE Rest'
  BY <1>3, StartDetectionStep, DetectStep, ProbeStep, StartSettlementStep, ReadFactsStep, BookStep, DeleteStep,
     VerifyStep DEF RunStep
<1>4. ASSUME NEW a \in Accounts, LateDelete(a) \/ PoolChanges(a) PROVE Rest'
  <2>1. /\ Ages /\ UNCHANGED <<retired, ledger, kept, jobVars, unsure, run>>
    BY <1>4 DEF LateDelete, PoolChanges, Ages, Existing, IInv, TypeOK
  <2> QED BY <2>1, QuietStep
<1>5. ASSUME Restart PROVE Rest'
  <2>1. \A s \in Runs : run'[s].phase = "free"
    BY <1>5, FreeRun DEF Restart
  <2>2. /\ Ages /\ UNCHANGED <<ledger, retired, submitted, jobVars>> /\ unsure' \subseteq unsure
    BY <1>5 DEF Restart, Ages
  <2> QED BY <2>1, <2>2, QuietStep
<1>6. ASSUME UNCHANGED vars PROVE Rest'
  <2>1. /\ Ages /\ UNCHANGED <<ledger, retired, submitted, jobVars, unsure, run>>
    BY <1>6 DEF vars, Ages
  <2> QED BY <2>1, QuietStep
<1>7. ASSUME NEW r \in Runs, CallFails(r) PROVE Rest'
  BY <1>7, CallFailsStep
<1>8. ASSUME NEW j \in Jobs, SubmissionFails(j) PROVE Rest'
  BY <1>8, SubmissionFailsStep
<1>9. Rest'
  BY <1>2, <1>3, <1>4, <1>5, <1>6, <1>7, <1>8 DEF Next
<1> QED BY <1>1, <1>9 DEF IInv

\* The invariant: what the job and every copy of it says of the settlement is
\* true, and a run with nothing to continue is the only one of its job.
THEOREM InvariantHolds == Spec => []IInv
<1>1. Init => IInv
  BY InitInv
<1>2. IInv /\ [Next]_vars => IInv'
  BY Step
<1> QED BY <1>1, <1>2, PTL DEF Spec

\* No account is deleted before a settlement that names it stands in the ledger.
THEOREM BookingComesFirst == Spec => []BookedBeforeDeleted
<1>1. IInv => BookedBeforeDeleted
  BY DEF IInv, Rest
<1> QED BY <1>1, InvariantHolds, PTL

\* However often a settlement fails and is resumed, a job books one entry.
THEOREM JobsBookOnce == Spec => []BookedOnce
<1>1. IInv => BookedOnce
  BY DEF IInv, Rest
<1> QED BY <1>1, InvariantHolds, PTL

\* Of the plan of a settled job no account is left in the pool.
THEOREM SettledJobsAreDone == Spec => []SettledMeansGone
<1>1. IInv => SettledMeansGone
  BY DEF IInv, Rest, MadeInv, Gone, SettledMeansGone, Existing, Kept
<1> QED BY <1>1, InvariantHolds, PTL
=============================================================================
