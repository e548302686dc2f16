----------------------------- MODULE AccountImport -----------------------------
(***************************************************************************)
(* Account imports: AccountImportService (src/src/account-import-service   *)
(* .ts), its preflight, Sub2ApiRuntimeService.importAccounts and the cost  *)
(* ledger (account-import-cost-ledger.ts).                                 *)
(*                                                                         *)
(* An import job holds the credentials of some upstream users.  Its        *)
(* workflow asks the Sub2API database which of them have an account that   *)
(* needs nothing, corrects plan types, sends the others in one import      *)
(* call, verifies what came of it and charges every account created to     *)
(* the ledger.  An import call that timed out is reconciled by asking the  *)
(* database again.  A recovery import wants a second account for a user    *)
(* that has one, so its preflight skips nothing.                           *)
(*                                                                         *)
(* Jobs live in the memory of the API process, the most recent ones only;  *)
(* the Temporal activity of a job is one request to that process.  All     *)
(* jobs import OAuth accounts of OpenAI with the same settings and plan    *)
(* type; an account with those settings and its credentials is aligned.    *)
(***************************************************************************)
EXTENDS Naturals, FiniteSets, Functions, TLC

CONSTANTS
  Users,       \* upstream users, identified by credentials
  Ids,         \* bound: the accounts Sub2API may ever hold
  Nobody,      \* owner of an id that was never given out
  JobCount,    \* bound: jobs that are ever submitted, numbered in order
  Retained,    \* how many jobs the service keeps: 20
  MaxFaults,   \* bound: failing calls and restarts
  MaxChanges   \* bound: changes made to accounts by others

ASSUME NobodyAssumption == Nobody \notin Users
ASSUME BoundsAssumption ==
  JobCount \in Nat /\ MaxFaults \in Nat /\ MaxChanges \in Nat /\ Retained \in Nat \ {0}

Jobs == 1 .. JobCount

\* Users and accounts are only compared with each other.
Symmetry == Permutations(Users) \cup Permutations(Ids)

VARIABLES
  owner,      \* the user of each account id that Sub2API has given out
  existing,   \* accounts that are not deleted
  aligned,    \* accounts with the settings and credentials of the imports
  mistyped,   \* accounts with another plan type
  maker,      \* the job whose call created an account it could still notice, or 0
  late,       \* <<job, user>> whose part of a failed call may still take effect
  costs,      \* entries of the cost ledger
  submitted,  \* number of the last job
  floor,      \* jobs up to this one are no longer kept
  recovery,   \* jobs with allowDuplicate and a recoveryConfig
  content,    \* the users of each job
  state,      \* state of each job
  unsure,     \* jobs whose temporal.submit has not answered and will fail
  phase,      \* what the workflow of a job does next
  plan,       \* result of the last preflight of a job
  result,     \* what the import call of a job is taken to have done
  faults,
  changes

sub2api == <<owner, existing, aligned, mistyped, maker, late>>
kept    == <<submitted, floor, recovery, content>>
runVars == <<phase, plan, result>>
bounds  == <<faults, changes>>
vars    == <<sub2api, costs, kept, state, unsure, runVars, bounds>>

Kept(j)    == j \in (floor + 1) .. submitted
Matches(u) == {i \in existing : owner[i] = u}
Charged    == {e.account : e \in costs}

PlanOf(todo, skipped, pending, known) ==
  [todo |-> todo, skipped |-> skipped, pending |-> pending, known |-> known]
ResultOf(created, updated, ok) == [created |-> created, updated |-> updated, ok |-> ok]
NoPlan   == PlanOf({}, {}, {}, {})
NoResult == ResultOf({}, {}, TRUE)

\* Sub2API may hold an account before the first job.
Init ==
  /\ existing \in {S \in SUBSET Ids : Cardinality(S) <= 1}
  /\ owner \in [Ids -> Users \cup {Nobody}]
  /\ \A i \in Ids : owner[i] = Nobody <=> i \notin existing
  /\ aligned \in SUBSET existing
  /\ mistyped \in SUBSET existing
  /\ maker = [i \in Ids |-> 0]
  /\ late = {}
  /\ costs = {}
  /\ submitted = 0
  /\ floor = 0
  /\ recovery = {}
  /\ content = [j \in Jobs |-> {}]
  /\ state = [j \in Jobs |-> "queued"]
  /\ unsure = {}
  /\ phase = [j \in Jobs |-> "none"]
  /\ plan = [j \in Jobs |-> NoPlan]
  /\ result = [j \in Jobs |-> NoResult]
  /\ faults = 0
  /\ changes = 0

Fault  == faults < MaxFaults /\ faults' = faults + 1 /\ UNCHANGED changes

-----------------------------------------------------------------------------
(* Submission *)

\* The oldest jobs are dropped when there are too many.
FloorAfter(n) == IF n - floor > Retained THEN n - Retained ELSE floor

\* submit(): the call to Temporal starts the workflow; or it fails, though the
\* workflow may have started.
Submit(users, revives) ==
  LET j == submitted + 1
      starts == phase' = [phase EXCEPT ![j] = "start"]
  IN /\ submitted < JobCount
     /\ submitted' = j
     /\ floor' = FloorAfter(j)
     /\ content' = [content EXCEPT ![j] = users]
     /\ recovery' = IF revives THEN recovery \cup {j} ELSE recovery
     /\ \/ starts /\ UNCHANGED <<unsure, bounds>>
        \/ (starts \/ UNCHANGED phase) /\ unsure' = unsure \cup {j} /\ Fault
     /\ UNCHANGED <<sub2api, costs, state, plan, result>>

SubmissionFails(j) ==
  /\ j \in unsure
  /\ unsure' = unsure \ {j}
  /\ state' = [state EXCEPT ![j] = "failed"]
  /\ UNCHANGED <<sub2api, costs, kept, runVars, bounds>>

-----------------------------------------------------------------------------
(* The steps of a run.  Each writes its copy of the job back; that fails when *)
(* the job is no longer kept, and then the run is over.                       *)

Goto(j, p) == phase' = [phase EXCEPT ![j] = p]

Ends(j, s) ==
  /\ Goto(j, "done")
  /\ state' = IF Kept(j) THEN [state EXCEPT ![j] = s] ELSE state

\* persistWorkerJob() before the next step p.
Persists(j, p) ==
  IF Kept(j) THEN Goto(j, p) /\ state' = [state EXCEPT ![j] = "running"]
             ELSE Ends(j, "failed")

\* runWorker() takes its copy, unless the submission was given up by then.
Start(j) ==
  /\ phase[j] = "start"
  /\ IF Kept(j) /\ state[j] = "queued" THEN Persists(j, "preflight") ELSE Ends(j, state[j])
  /\ UNCHANGED <<sub2api, costs, kept, unsure, plan, result, bounds>>

\* A user whose only account is aligned is skipped.
Fits(j, u) == j \notin recovery /\ \E i \in aligned : Matches(u) = {i}

\* accountImportPreflight(): what is left to import, the accounts that are
\* skipped, those the import call is expected to update, and all it has read.
Preflight(j) ==
  LET users  == content[j]
      fit    == {u \in users : Fits(j, u)}
      single == {u \in users \ fit : j \notin recovery /\ Cardinality(Matches(u)) = 1}
  IN  PlanOf(users \ fit, UNION {Matches(u) : u \in fit},
             UNION {Matches(u) : u \in single}, UNION {Matches(u) : u \in users})

\* Everything is there and aligned: the job ends without a call.
Continues(j, p) ==
  IF p.todo = {} THEN Ends(j, "succeeded") ELSE Persists(j, "import")

FirstPreflight(j) ==
  LET p == Preflight(j)
  IN /\ phase[j] = "preflight"
     /\ plan' = [plan EXCEPT ![j] = p]
     /\ IF p.skipped \cap mistyped # {} THEN Persists(j, "correct") ELSE Continues(j, p)
     /\ UNCHANGED <<sub2api, costs, kept, unsure, result, bounds>>

\* correctAccountPlanTypes().
Correct(j) ==
  /\ phase[j] = "correct"
  /\ mistyped' = mistyped \ plan[j].skipped
  /\ Goto(j, "recheck")
  /\ UNCHANGED <<owner, existing, aligned, maker, late, costs, kept, state, unsure,
                 plan, result, bounds>>

Recheck(j) ==
  LET p == Preflight(j)
  IN /\ phase[j] = "recheck"
     /\ IF p.skipped \cap mistyped # {}
        THEN Ends(j, "failed") /\ UNCHANGED plan
        ELSE Continues(j, p) /\ plan' = [plan EXCEPT ![j] = p]
     /\ UNCHANGED <<sub2api, costs, kept, unsure, result, bounds>>

-----------------------------------------------------------------------------
(* The import call *)

Unused == {i \in Ids : owner[i] = Nobody}

\* One account of each of these users.
Choices(users) ==
  {A \in SUBSET existing : /\ {owner[i] : i \in A} = users
                           /\ Cardinality(A) = Cardinality(users)}

\* Sub2API gives user u the new account new[u] and updates some accounts.  A
\* copy made by a recovery has the settings of the original only later.
Writes(new, updated, j, by) ==
  LET created == {new[u] : u \in DOMAIN new}
  IN /\ owner' = [i \in Ids |-> IF i \in created THEN CHOOSE u \in DOMAIN new : new[u] = i
                                                 ELSE owner[i]]
     /\ existing' = existing \cup created
     /\ aligned' = aligned \cup updated \cup (IF j \in recovery THEN {} ELSE created)
     /\ mistyped' = mistyped \ updated
     /\ maker' = [i \in Ids |-> IF i \in created THEN by ELSE maker[i]]

\* The copies of a recovery are configured next; without a copy it has failed.
Answered(j, r) ==
  /\ result' = [result EXCEPT ![j] = r]
  /\ IF j \notin recovery THEN Goto(j, "verify") /\ UNCHANGED state
     ELSE IF r.created = {} THEN Ends(j, "failed")
     ELSE Goto(j, "configure") /\ UNCHANGED state

\* importAccounts().  If no existing account is expected and the credentials
\* allow it, every user gets a new account; otherwise only users without one.
\* It answers; or it times out and the database is asked; or it fails.
Import(j) ==
  /\ phase[j] = "import"
  /\ \E done \in SUBSET plan[j].todo, direct \in {plan[j].pending = {}, FALSE} :
       LET fresh == IF direct THEN done ELSE {u \in done : Matches(u) = {}}
       IN \E new \in Injection(fresh, Unused), updated \in Choices(done \ fresh) :
            LET Outcome(ok) == ResultOf({new[u] : u \in fresh}, updated, ok)
            IN /\ Writes(new, updated, j, j)
               /\ \/ done = plan[j].todo /\ Answered(j, Outcome(TRUE)) /\ UNCHANGED <<late, bounds>>
                  \/ Answered(j, Outcome(FALSE)) /\ Fault /\ UNCHANGED late
                  \/ /\ Persists(j, "reconcile") \/ Ends(j, "failed")
                     /\ late' \in {late, late \cup {j} \X (plan[j].todo \ done)}
                     /\ Fault /\ UNCHANGED result
  /\ UNCHANGED <<costs, kept, unsure, plan>>

\* Faulty: every account found now counts as created.
ReconcileAllCreated(j) ==
  LET p     == Preflight(j)
      newly == p.skipped \ plan[j].skipped
  IN /\ phase[j] = "reconcile"
     /\ IF p.todo # {}
        THEN Ends(j, "failed") /\ UNCHANGED result
        ELSE Answered(j, ResultOf(newly, {}, TRUE))
     /\ UNCHANGED <<sub2api, costs, kept, unsure, plan, bounds>>

\* Faulty: users are compared, not accounts, so that the successor of a deleted
\* account counts as updated.
ReconcileByUser(j) ==
  LET p       == Preflight(j)
      newly   == p.skipped \ plan[j].skipped
      updated == {i \in newly : \E k \in plan[j].pending : owner[k] = owner[i]}
  IN /\ phase[j] = "reconcile"
     /\ IF p.todo # {}
        THEN Ends(j, "failed") /\ UNCHANGED result
        ELSE Answered(j, ResultOf(newly \ updated, updated, TRUE))
     /\ UNCHANGED <<sub2api, costs, kept, unsure, plan, bounds>>

\* recoveredImportOutput(): after a timeout all accounts must be there; those
\* that were not skipped and not expected at first count as created.
Reconcile(j) ==
  LET p       == Preflight(j)
      newly   == p.skipped \ plan[j].skipped
      updated == newly \cap plan[j].pending
  IN /\ phase[j] = "reconcile"
     /\ IF p.todo # {}
        THEN Ends(j, "failed") /\ UNCHANGED result
        ELSE Answered(j, ResultOf(newly \ updated, updated, TRUE))
     /\ UNCHANGED <<sub2api, costs, kept, unsure, plan, bounds>>

\* A call that nobody waits for any more takes effect.  An account that
\* appears after the job has read the pool for the last time has no maker.
LateWrite(j, u) ==
  /\ <<j, u>> \in late
  /\ late' = late \ {<<j, u>>}
  /\ LET by == IF phase[j] = "reconcile" THEN j ELSE 0
     IN \/ \E new \in Injection({u}, Unused) : Writes(new, {}, j, by)
        \/ \E updated \in Choices({u}) : Writes(<<>>, updated, j, by)
  /\ UNCHANGED <<costs, kept, state, unsure, runVars, bounds>>

-----------------------------------------------------------------------------
(* What follows an import call *)

\* alignRecoveredOAuthAccounts().
Configure(j) ==
  /\ phase[j] = "configure"
  /\ aligned' = aligned \cup (result[j].created \cap existing)
  /\ Persists(j, "verify")
  /\ UNCHANGED <<owner, existing, mistyped, maker, late, costs, kept, unsure, plan, result, bounds>>

\* verifyImportedAccounts() and verifyRecoveredOAuthConfig(), which does not
\* look at the plan type.
Verified(j) ==
  LET r     == result[j]
      all   == r.created \cup r.updated \cup plan[j].skipped
      typed == IF j \in recovery THEN all \ r.created ELSE all
  IN  all \subseteq existing \cap aligned /\ typed \cap mistyped = {}

Verify(j) ==
  /\ phase[j] = "verify"
  /\ result' = [result EXCEPT ![j].ok = @ /\ Verified(j)]
  /\ Persists(j, "charge")
  /\ UNCHANGED <<sub2api, costs, kept, unsure, plan, bounds>>

\* Faulty: the ledger is not looked at.
EntriesAgain(j) == [account : result[j].created, job : {j}]

\* recordAccountImportCosts(): nothing is charged twice.
Entries(j) == [account : result[j].created \ Charged, job : {j}]

Charge(j) ==
  /\ phase[j] = "charge"
  /\ costs' = costs \cup Entries(j)
  /\ Persists(j, "finish")
  /\ UNCHANGED <<sub2api, kept, unsure, plan, result, bounds>>

Finish(j) ==
  /\ phase[j] = "finish"
  /\ Ends(j, IF result[j].ok THEN "succeeded" ELSE "failed")
  /\ UNCHANGED <<sub2api, costs, kept, unsure, plan, result, bounds>>

Running == {"start", "preflight", "correct", "recheck", "import", "reconcile",
            "configure", "verify", "charge", "finish"}

\* A call or a read of the ledger fails; the last patch of the job may not get
\* through either.
CallFails(j) ==
  /\ phase[j] \in Running
  /\ Fault
  /\ \/ Ends(j, "failed")
     \/ Goto(j, "done") /\ UNCHANGED state
  /\ UNCHANGED <<sub2api, costs, kept, unsure, plan, result>>

-----------------------------------------------------------------------------
(* The surroundings *)

\* Operators and retirements change accounts.
PoolChanges(i) ==
  /\ i \in existing
  /\ changes < MaxChanges /\ changes' = changes + 1
  /\ \/ existing' = existing \ {i} /\ aligned' = aligned \ {i} /\ mistyped' = mistyped \ {i}
     \/ aligned' = aligned \ {i} /\ UNCHANGED <<existing, mistyped>>
     \/ mistyped' = mistyped \cup {i} /\ UNCHANGED <<existing, aligned>>
  /\ UNCHANGED <<owner, maker, late, costs, kept, state, unsure, runVars, faults>>

\* The API process restarts: its jobs are lost, and the runs, which it serves.
Restart ==
  /\ submitted > floor
  /\ Fault
  /\ floor' = submitted
  /\ unsure' = {}
  /\ phase' = [j \in Jobs |-> IF phase[j] = "none" THEN "none" ELSE "done"]
  /\ UNCHANGED <<sub2api, costs, submitted, recovery, content, state, plan, result>>

Next ==
  \/ \E users \in (SUBSET Users) \ {{}}, revives \in BOOLEAN : Submit(users, revives)
  \/ \E j \in Jobs :
       \/ SubmissionFails(j) \/ Start(j) \/ FirstPreflight(j) \/ Correct(j) \/ Recheck(j)
       \/ Import(j) \/ Reconcile(j) \/ Configure(j) \/ Verify(j) \/ Charge(j) \/ Finish(j)
       \/ CallFails(j)
       \/ \E u \in Users : LateWrite(j, u)
  \/ \E i \in Ids : PoolChanges(i)
  \/ Restart

Spec == Init /\ [][Next]_vars

-----------------------------------------------------------------------------
(* Properties *)

States == {"queued", "running", "succeeded", "failed"}

PlanType   == [todo : SUBSET Users, skipped : SUBSET Ids, pending : SUBSET Ids, known : SUBSET Ids]
ResultType == [created : SUBSET Ids, updated : SUBSET Ids, ok : BOOLEAN]

\* The variables have their types, aligned and mistyped accounts exist, and an
\* id that was never given out belongs to nobody.
TypeOK ==
  /\ owner \in [Ids -> Users \cup {Nobody}]
  /\ existing \subseteq {i \in Ids : owner[i] # Nobody}
  /\ aligned \subseteq existing /\ mistyped \subseteq existing
  /\ maker \in [Ids -> 0 .. JobCount]
  /\ late \subseteq Jobs \X Users
  /\ costs \subseteq [account : Ids, job : Jobs]
  /\ submitted \in 0 .. JobCount /\ floor \in 0 .. submitted
  /\ recovery \subseteq Jobs /\ unsure \subseteq Jobs
  /\ content \in [Jobs -> SUBSET Users]
  /\ state \in [Jobs -> States]
  /\ phase \in [Jobs -> Running \cup {"none", "done"}]
  /\ plan \in [Jobs -> PlanType]
  /\ result \in [Jobs -> ResultType]
  /\ faults \in 0 .. MaxFaults /\ changes \in 0 .. MaxChanges

\* recordAccountImportCosts: an account is bought once, however many jobs take
\* themselves for its creator (two jobs for one user, one of which timed out).
ChargedOnce == \A e, f \in costs : e.account = f.account => e = f

\* account-import-service.test.ts:76: reconciling a timeout does not charge an
\* account that was there before.  The code guarantees it for users that had
\* one account: of two accounts, of which one is deleted during the call, the
\* other one counts as created.
ChargesOnlyNew ==
  \A e \in costs :
    e.account \in plan[e.job].known =>
      \E i \in plan[e.job].known \ {e.account} : owner[i] = owner[e.account]

\* A job that reports success has charged every account its calls made and that
\* still exists, also when it had to find them again after a timeout.
SuccessIsFullyCharged ==
  [][\A j \in Jobs :
       state[j] # "succeeded" /\ state'[j] = "succeeded" =>
         \A i \in existing : maker[i] = j => i \in Charged]_vars

=============================================================================
