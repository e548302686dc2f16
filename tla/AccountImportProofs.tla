-------------------------- MODULE AccountImportProofs --------------------------
(* TLAPS proofs about AccountImport, for any users and accounts, any number  *)
(* of jobs, failures, restarts and changes by others.                        *)
EXTENDS AccountImport, FiniteSetTheorems, TLAPS

Before == {"none", "start", "preflight", "correct", "recheck"}
Early  == Before \cup {"import", "reconcile"}

GivenOut == {i \in Ids : owner[i] # Nobody}

\* Another account of the same user was read when the job was planned.
Shared(j, i) == \E k \in plan[j].known \ {i} : owner[k] = owner[i]

\* What a job knows and what its call is taken to have created.
PlanInv(j) ==
  /\ plan[j].known \subseteq GivenOut
  /\ plan[j].skipped \cup plan[j].pending \subseteq plan[j].known
  /\ phase[j] \in {"import", "reconcile"} =>
       /\ plan[j].todo \subseteq content[j]
       /\ j \notin recovery => \A i \in plan[j].known :
                                 i \in plan[j].skipped \/ i \in plan[j].pending \/ Shared(j, i)
  /\ phase[j] \in Early => result[j].created = {} /\ \A e \in costs : e.job # j
  /\ \A i \in result[j].created : i \in plan[j].known => Shared(j, i)

\* Where the accounts a job has made are accounted for in each phase.
MadeInv(j) ==
  /\ phase[j] \in Before \cup {"import"} => \A i \in Ids : maker[i] # j
  /\ phase[j] = "reconcile" =>
       \A i \in Ids : maker[i] = j => i \notin plan[j].known /\ owner[i] \in content[j]
  /\ phase[j] \in {"configure", "verify", "charge"} =>
       \A i \in existing : maker[i] = j => i \in result[j].created
  /\ phase[j] = "finish" => \A i \in existing : maker[i] = j => i \in Charged

\* A call that is still under way belongs to a job that has made it.
LateInv(j) ==
  /\ \A u \in Users : <<j, u>> \in late =>
       u \in content[j] /\ phase[j] \notin Before \cup {"import"}
  /\ j > submitted => phase[j] = "none"

JobInv(j) == PlanInv(j) /\ MadeInv(j) /\ LateInv(j)

Inv == /\ TypeOK
       /\ \A j \in Jobs : JobInv(j)
       /\ ChargedOnce /\ ChargesOnlyNew

LEMMA BoundsOK == JobCount \in Nat /\ MaxFaults \in Nat /\ MaxChanges \in Nat /\ Retained \in Nat \ {0}
  BY BoundsAssumption

\* There are no jobs and no entries.
LEMMA InitInv == Init => Inv
<1> SUFFICES ASSUME Init PROVE Inv
  OBVIOUS
<1>1. NoPlan \in PlanType /\ NoResult \in ResultType
  BY DEF NoPlan, PlanOf, NoResult, ResultOf, PlanType, ResultType
<1>2. TypeOK
  <2>1. owner \in [Ids -> Users \cup {Nobody}] /\ existing \subseteq Ids
    BY DEF Init
  <2>2. existing \subseteq {i \in Ids : owner[i] # Nobody}
    BY <2>1 DEF Init
  <2> QED BY <1>1, <2>1, <2>2, BoundsOK DEF Init, TypeOK, States, Jobs
<1>3. \A j \in Jobs : JobInv(j)
  BY DEF Init, JobInv, PlanInv, MadeInv, LateInv, NoPlan, PlanOf, NoResult, ResultOf, Before, Early, Jobs
<1>4. ChargedOnce /\ ChargesOnlyNew
  BY DEF Init, ChargedOnce, ChargesOnlyNew
<1> QED BY <1>2, <1>3, <1>4 DEF Inv

-----------------------------------------------------------------------------
(* The steps a run takes *)

Phases == Running \cup {"none", "done"}

\* The end of a run.
LEMMA EndsTo ==
  ASSUME TypeOK, NEW j \in Jobs, NEW s \in States, Ends(j, s)
  PROVE  /\ phase' = [phase EXCEPT ![j] = "done"] /\ phase' \in [Jobs -> Phases]
         /\ state' \in [Jobs -> States]
         /\ \A k \in Jobs : state'[k] # state[k] => k = j /\ state'[k] = s
  BY DEF Ends, Goto, TypeOK, Phases

\* A run that goes on, or is over because its job is not kept.
LEMMA PersistsTo ==
  ASSUME TypeOK, NEW j \in Jobs, NEW p \in Running, Persists(j, p)
  PROVE  /\ \/ phase' = [phase EXCEPT ![j] = p]
            \/ phase' = [phase EXCEPT ![j] = "done"]
         /\ phase' \in [Jobs -> Phases]
         /\ state' \in [Jobs -> States]
         /\ \A k \in Jobs : state'[k] = "succeeded" => state[k] = "succeeded"
<1>1. CASE Kept(j)
  BY <1>1 DEF Persists, Goto, TypeOK, Phases, States
<1>2. CASE ~Kept(j)
  <2>1. Ends(j, "failed")
    BY <1>2 DEF Persists
  <2>2. "failed" \in States
    BY DEF States
  <2> QED BY <2>1, <2>2, EndsTo
<1> QED BY <1>1, <1>2

\* An answered import call.
LEMMA AnsweredTo ==
  ASSUME TypeOK, NEW j \in Jobs, NEW r \in ResultType, Answered(j, r)
  PROVE  /\ \/ phase' = [phase EXCEPT ![j] = "configure"]
            \/ phase' = [phase EXCEPT ![j] = "verify"]
            \/ phase' = [phase EXCEPT ![j] = "done"]
         /\ phase' \in [Jobs -> Phases]
         /\ state' \in [Jobs -> States]
         /\ \A k \in Jobs : state'[k] = "succeeded" => state[k] = "succeeded"
         /\ result' = [result EXCEPT ![j] = r] /\ result' \in [Jobs -> ResultType]
<1>1. result' = [result EXCEPT ![j] = r] /\ result' \in [Jobs -> ResultType]
  BY DEF Answered, TypeOK
<1>2. CASE Ends(j, "failed")
  <2>1. "failed" \in States
    BY DEF States
  <2> QED BY <1>1, <1>2, <2>1, EndsTo
<1>3. CASE (Goto(j, "verify") \/ Goto(j, "configure")) /\ UNCHANGED state
  BY <1>1, <1>3 DEF Goto, TypeOK, Phases, Running
<1> QED BY <1>2, <1>3 DEF Answered

\* A preflight has its type, and reads every account of the users of the job: one
\* that is neither skipped nor expected shares its user with another one.
LEMMA PreflightTo ==
  ASSUME TypeOK, NEW j \in Jobs
  PROVE  /\ Preflight(j) \in PlanType
         /\ Preflight(j).known \subseteq GivenOut
         /\ Preflight(j).skipped \cup Preflight(j).pending \subseteq Preflight(j).known
         /\ Preflight(j).todo \subseteq content[j]
         /\ j \notin recovery => \A i \in Preflight(j).known :
              \/ i \in Preflight(j).skipped \/ i \in Preflight(j).pending
              \/ \E k \in Preflight(j).known \ {i} : owner[k] = owner[i]
<1> DEFINE users  == content[j]
           fit    == {u \in users : Fits(j, u)}
           single == {u \in users \ fit : j \notin recovery /\ Cardinality(Matches(u)) = 1}
<1>1. /\ Preflight(j).todo = users \ fit
      /\ Preflight(j).skipped = UNION {Matches(u) : u \in fit}
      /\ Preflight(j).pending = UNION {Matches(u) : u \in single}
      /\ Preflight(j).known = UNION {Matches(u) : u \in users}
  BY DEF Preflight, PlanOf
<1>2. users \subseteq Users
  BY DEF TypeOK
<1>3. \A u \in users : Matches(u) \subseteq GivenOut /\ Matches(u) \subseteq Ids
  BY DEF Matches, TypeOK, GivenOut
<1>4. Preflight(j) \in PlanType
  BY <1>2, <1>3 DEF Preflight, PlanOf, PlanType
<1>5. ASSUME j \notin recovery, NEW i \in Preflight(j).known,
             i \notin Preflight(j).skipped, i \notin Preflight(j).pending
      PROVE  \E k \in Preflight(j).known \ {i} : owner[k] = owner[i]
  <2>1. PICK u \in users : i \in Matches(u)
    BY <1>1, <1>5
  <2>2. u \notin fit /\ u \notin single
    BY <1>1, <1>5, <2>1
  <2>3. Matches(u) # {i}
    <3> SUFFICES ASSUME Matches(u) = {i} PROVE FALSE
      OBVIOUS
    <3>1. Cardinality(Matches(u)) = 1
      BY FS_Singleton
    <3> QED BY <1>5, <2>2, <3>1
  <2>4. PICK k \in Matches(u) : k # i
    BY <2>1, <2>3
  <2>5. owner[k] = owner[i]
    BY <2>1, <2>4 DEF Matches
  <2> QED BY <1>1, <2>4, <2>5
<1> QED BY <1>1, <1>3, <1>4, <1>5

\* What the pool keeps: nobody's accounts change hands, and accounts get no maker
\* but one that gets them.
PoolKept ==
  /\ GivenOut \subseteq GivenOut'
  /\ \A i \in GivenOut : owner'[i] = owner[i]

\* A job is not disturbed by a step that changes nothing of its own and makes no
\* account for it.
LEMMA Undisturbed ==
  ASSUME TypeOK, TypeOK', NEW j \in Jobs, JobInv(j), PoolKept,
         plan'[j] = plan[j], result'[j] = result[j], phase'[j] = phase[j],
         content'[j] = content[j], j \in recovery => j \in recovery',
         costs \subseteq costs', \A e \in costs' : e.job = j => e \in costs,
         submitted' >= submitted,
         \A u \in Users : <<j, u>> \in late' => <<j, u>> \in late,
         \A i \in Ids : maker'[i] = j => maker[i] = j /\ owner'[i] = owner[i],
         \A i \in existing' : maker'[i] = j => i \in existing
  PROVE  JobInv(j)'
<1>1. plan[j].known \subseteq Ids
  BY DEF TypeOK, PlanType
<1>2. \A i \in plan[j].known : Shared(j, i) => Shared(j, i)'
  BY DEF JobInv, PlanInv, Shared, PoolKept
<1>3. PlanInv(j)'
  BY <1>1, <1>2 DEF JobInv, PlanInv, PoolKept
<1>4. Charged \subseteq Charged'
  BY DEF Charged
<1>5. existing' \subseteq Ids
  BY DEF TypeOK
<1>6. MadeInv(j)'
  BY <1>4, <1>5 DEF JobInv, MadeInv
<1>7. LateInv(j)'
  BY DEF JobInv, LateInv, TypeOK, Jobs
<1> QED BY <1>3, <1>6, <1>7 DEF JobInv

\* A run that is over leaves its job in order.
LEMMA RunOver ==
  ASSUME TypeOK, TypeOK', NEW j \in Jobs, JobInv(j), PoolKept,
         plan'[j] = plan[j], result'[j] = result[j], phase'[j] = "done",
         content'[j] = content[j], submitted' = submitted,
         phase[j] # "none",
         \A u \in Users : <<j, u>> \in late' =>
            \/ <<j, u>> \in late
            \/ u \in content[j]
  PROVE  JobInv(j)'
<1>1. plan[j].known \subseteq Ids
  BY DEF TypeOK, PlanType
<1>2. \A i \in plan[j].known : Shared(j, i) => Shared(j, i)'
  BY DEF JobInv, PlanInv, Shared, PoolKept
<1>3. PlanInv(j)'
  BY <1>1, <1>2 DEF JobInv, PlanInv, PoolKept, Early, Before
<1>4. MadeInv(j)'
  BY DEF MadeInv, Before
<1>5. LateInv(j)'
  BY DEF JobInv, LateInv, TypeOK, Jobs, Before
<1> QED BY <1>3, <1>4, <1>5 DEF JobInv

\* What Sub2API writes: new accounts for some users.
LEMMA WritesTo ==
  ASSUME TypeOK, NEW fresh \in SUBSET Users, NEW new \in Injection(fresh, Unused),
         NEW updated \in SUBSET existing, NEW j \in Jobs, NEW by \in 0 .. JobCount,
         Writes(new, updated, j, by)
  PROVE  LET created == {new[u] : u \in fresh}
         IN /\ created \subseteq Unused
            /\ \A i \in created : owner'[i] \in fresh /\ maker'[i] = by
            /\ \A i \in Ids \ created : owner'[i] = owner[i] /\ maker'[i] = maker[i]
            /\ existing' = existing \cup created
            /\ owner' \in [Ids -> Users \cup {Nobody}]
            /\ existing' \subseteq {i \in Ids : owner'[i] # Nobody}
            /\ aligned' \subseteq existing' /\ mistyped' \subseteq existing'
            /\ maker' \in [Ids -> 0 .. JobCount]
            /\ PoolKept
<1> DEFINE created == {new[u] : u \in fresh}
<1>1. new \in [fresh -> Unused]
  BY DEF Injection
<1>2. created = {new[u] : u \in DOMAIN new} /\ DOMAIN new = fresh
  BY <1>1
<1>3. created \subseteq Unused /\ created \subseteq Ids
  BY <1>1 DEF Unused
<1>4. owner' = [i \in Ids |-> IF i \in created THEN CHOOSE u \in fresh : new[u] = i ELSE owner[i]]
  BY <1>2 DEF Writes
<1>5. \A i \in created : (CHOOSE u \in fresh : new[u] = i) \in fresh
  OBVIOUS
<1>6. \A i \in created : owner'[i] \in fresh
  BY <1>3, <1>4, <1>5
<1>7. /\ existing' = existing \cup created
      /\ maker' = [i \in Ids |-> IF i \in created THEN by ELSE maker[i]]
      /\ aligned' \subseteq aligned \cup updated \cup created
      /\ mistyped' \subseteq mistyped
  BY <1>2 DEF Writes
<1> HIDE DEF created
<1>8. \A i \in Ids \ created : owner'[i] = owner[i]
  BY <1>4
<1>9. owner' \in [Ids -> Users \cup {Nobody}]
  <2>1. \A i \in Ids : owner'[i] \in Users \cup {Nobody}
    BY <1>6, <1>8 DEF TypeOK
  <2> QED BY <2>1, <1>4
<1>10. maker' \in [Ids -> 0 .. JobCount] /\ \A i \in created : maker'[i] = by
  BY <1>3, <1>7 DEF TypeOK
<1>11. \A i \in Ids \ created : maker'[i] = maker[i]
  BY <1>7
<1>12. existing' \subseteq {i \in Ids : owner'[i] # Nobody}
  BY <1>3, <1>6, <1>7, <1>8, NobodyAssumption DEF TypeOK
<1>13. aligned' \subseteq existing' /\ mistyped' \subseteq existing'
  BY <1>7 DEF TypeOK
<1>14. PoolKept
  BY <1>3, <1>6, <1>8, NobodyAssumption DEF PoolKept, GivenOut, Unused
<1> QED BY <1>3, <1>6, <1>7, <1>8, <1>9, <1>10, <1>11, <1>12, <1>13, <1>14 DEF created

LEMMA ChoicesTo == ASSUME NEW users, NEW A \in Choices(users) PROVE A \in SUBSET existing
  BY DEF Choices

\* Nothing is written to the pool.
LEMMA PoolStands ==
  ASSUME UNCHANGED sub2api
  PROVE  PoolKept
  BY DEF sub2api, PoolKept, GivenOut

-----------------------------------------------------------------------------
(* Types *)

\* The types of what the steps of runs leave alone.
LEMMA FaultTo == ASSUME TypeOK, Fault PROVE faults' \in 0 .. MaxFaults /\ changes' \in 0 .. MaxChanges
  BY BoundsOK DEF TypeOK, Fault

LEMMA SubmitType ==
  ASSUME TypeOK, NEW users \in SUBSET Users, NEW revives \in BOOLEAN, Submit(users, revives)
  PROVE  TypeOK'
<1> DEFINE j == submitted + 1
<1>1. j \in Jobs /\ j \in 0 .. JobCount
  BY BoundsOK DEF Submit, TypeOK, Jobs
<1>2. submitted' = j /\ floor' \in 0 .. submitted'
  BY BoundsOK, <1>1 DEF Submit, FloorAfter, TypeOK
<1>3. unsure' \subseteq Jobs /\ faults' \in 0 .. MaxFaults /\ changes' \in 0 .. MaxChanges
  BY <1>1, FaultTo DEF Submit, bounds, TypeOK
<1>4. phase' \in [Jobs -> Running \cup {"none", "done"}]
  BY <1>1 DEF Submit, TypeOK, Running
<1>5. recovery' \subseteq Jobs /\ content' \in [Jobs -> SUBSET Users]
  BY <1>1 DEF Submit, TypeOK
<1> QED BY <1>1, <1>2, <1>3, <1>4, <1>5 DEF Submit, TypeOK, sub2api

LEMMA SubmissionFailsType ==
  ASSUME TypeOK, NEW j \in Jobs, SubmissionFails(j)
  PROVE  TypeOK'
  BY DEF SubmissionFails, TypeOK, sub2api, kept, runVars, bounds, States

\* The steps of a run that do not write to the pool or to the ledger.
LEMMA StartType ==
  ASSUME TypeOK, NEW j \in Jobs, Start(j)
  PROVE  /\ TypeOK' /\ phase'[j] \in {"preflight", "done"}
         /\ \A k \in Jobs \ {j} : phase'[k] = phase[k]
         /\ \A k \in Jobs : state'[k] = "succeeded" => state[k] = "succeeded"
<1>1. "preflight" \in Running /\ state[j] \in States
  BY DEF Running, TypeOK
<1>2. /\ phase' = [phase EXCEPT ![j] = "preflight"] \/ phase' = [phase EXCEPT ![j] = "done"]
      /\ phase' \in [Jobs -> Phases] /\ state' \in [Jobs -> States]
      /\ \A k \in Jobs : state'[k] = "succeeded" => state[k] = "succeeded"
  <2>1. CASE Persists(j, "preflight")
    BY <1>1, <2>1, PersistsTo
  <2>2. CASE Ends(j, state[j])
    BY <1>1, <2>2, EndsTo
  <2> QED BY <2>1, <2>2 DEF Start
<1> QED BY <1>2 DEF Start, TypeOK, Phases, sub2api, kept, bounds

LEMMA ContinuesTo ==
  ASSUME TypeOK, NEW j \in Jobs, NEW p, Continues(j, p)
  PROVE  /\ phase' = [phase EXCEPT ![j] = "import"] \/ phase' = [phase EXCEPT ![j] = "done"]
         /\ phase' \in [Jobs -> Phases] /\ state' \in [Jobs -> States]
         /\ \A k \in Jobs \ {j} : state'[k] = state[k]
<1>1. "import" \in Running /\ "succeeded" \in States
  BY DEF Running, States
<1>2. CASE Ends(j, "succeeded")
  BY <1>1, <1>2, EndsTo
<1>3. CASE Persists(j, "import")
  BY <1>1, <1>3, PersistsTo DEF Persists, Ends, Goto, TypeOK
<1> QED BY <1>2, <1>3 DEF Continues

LEMMA FirstPreflightType ==
  ASSUME TypeOK, NEW j \in Jobs, FirstPreflight(j)
  PROVE  /\ TypeOK' /\ phase'[j] \in {"correct", "import", "done"}
         /\ \A k \in Jobs \ {j} : phase'[k] = phase[k]
<1>1. "correct" \in Running /\ Preflight(j) \in PlanType
  BY PreflightTo DEF Running
<1>2. /\ \/ phase' = [phase EXCEPT ![j] = "correct"]
         \/ phase' = [phase EXCEPT ![j] = "import"]
         \/ phase' = [phase EXCEPT ![j] = "done"]
      /\ phase' \in [Jobs -> Phases] /\ state' \in [Jobs -> States]
  <2>1. CASE Persists(j, "correct")
    BY <1>1, <2>1, PersistsTo
  <2>2. CASE Continues(j, Preflight(j))
    BY <2>2, ContinuesTo
  <2> QED BY <2>1, <2>2 DEF FirstPreflight
<1> QED BY <1>1, <1>2 DEF FirstPreflight, TypeOK, Phases, sub2api, kept, bounds

LEMMA CorrectType ==
  ASSUME TypeOK, NEW j \in Jobs, Correct(j)
  PROVE  TypeOK'
  BY DEF Correct, Goto, TypeOK, Running, kept, bounds

LEMMA RecheckType ==
  ASSUME TypeOK, NEW j \in Jobs, Recheck(j)
  PROVE  /\ TypeOK'
         /\ \A k \in Jobs \ {j} : phase'[k] = phase[k]
         /\ \/ phase'[j] = "done" /\ UNCHANGED plan
            \/ phase'[j] \in {"import", "done"} /\ plan' = [plan EXCEPT ![j] = Preflight(j)]
<1>1. "failed" \in States /\ Preflight(j) \in PlanType
  BY PreflightTo DEF States
<1>2. CASE Ends(j, "failed") /\ UNCHANGED plan
  BY <1>1, <1>2, EndsTo DEF Recheck, TypeOK, Phases, sub2api, kept, bounds
<1>3. CASE Continues(j, Preflight(j)) /\ plan' = [plan EXCEPT ![j] = Preflight(j)]
  BY <1>1, <1>3, ContinuesTo DEF Recheck, TypeOK, Phases, sub2api, kept, bounds
<1> QED BY <1>2, <1>3 DEF Recheck

\* How the run of a job goes on after its import call made some accounts.
Called(j, made) ==
  /\ phase' \in [Jobs -> Phases] /\ state' \in [Jobs -> States]
  /\ result' \in [Jobs -> ResultType]
  /\ late' \subseteq Jobs \X Users
  /\ \A k \in Jobs \ {j} : phase'[k] = phase[k] /\ result'[k] = result[k]
  /\ \A k \in Jobs : state'[k] = "succeeded" => state[k] = "succeeded"
  /\ \A k \in Jobs, u \in Users : <<k, u>> \in late' =>
       <<k, u>> \in late \/ (k = j /\ u \in content[j] /\ phase'[j] \in {"reconcile", "done"})
  /\ \/ phase'[j] \in {"configure", "verify", "done"} /\ result'[j].created = made
     \/ phase'[j] \in {"reconcile", "done"} /\ result'[j] = result[j]

\* What an import call does: it makes accounts for some of the users it was
\* asked for, and is answered with them, or is not answered.
LEMMA ImportTo ==
  ASSUME TypeOK, NEW j \in Jobs, Import(j), plan[j].todo \subseteq content[j]
  PROVE  \E made \in SUBSET Unused :
           /\ \A i \in made : owner'[i] \in content[j] /\ maker'[i] = j
           /\ \A i \in Ids \ made : owner'[i] = owner[i] /\ maker'[i] = maker[i]
           /\ existing' = existing \cup made
           /\ PoolKept
           /\ TypeOK'
           /\ Called(j, made)
<1> PICK done \in SUBSET plan[j].todo, direct \in {plan[j].pending = {}, FALSE} :
      LET fresh == IF direct THEN done ELSE {u \in done : Matches(u) = {}}
       IN \E new \in Injection(fresh, Unused), updated \in Choices(done \ fresh) :
            LET Outcome(ok) == ResultOf({new[u] : u \in fresh}, updated, ok)
            IN /\ Writes(new, updated, j, j)
               /\ \/ done = plan[j].todo /\ Answered(j, Outcome(TRUE)) /\ UNCHANGED <<late, bounds>>
                  \/ Answered(j, Outcome(FALSE)) /\ Fault /\ UNCHANGED late
                  \/ /\ Persists(j, "reconcile") \/ Ends(j, "failed")
                     /\ late' \in {late, late \cup {j} \X (plan[j].todo \ done)}
                     /\ Fault /\ UNCHANGED result
  BY DEF Import
<1> DEFINE fresh == IF direct THEN done ELSE {u \in done : Matches(u) = {}}
<1>1. PICK new \in Injection(fresh, Unused), updated \in Choices(done \ fresh) :
         /\ Writes(new, updated, j, j)
         /\ \/ done = plan[j].todo /\ Answered(j, ResultOf({new[u] : u \in fresh}, updated, TRUE))
               /\ UNCHANGED <<late, bounds>>
            \/ Answered(j, ResultOf({new[u] : u \in fresh}, updated, FALSE)) /\ Fault /\ UNCHANGED late
            \/ /\ Persists(j, "reconcile") \/ Ends(j, "failed")
               /\ late' \in {late, late \cup {j} \X (plan[j].todo \ done)}
               /\ Fault /\ UNCHANGED result
  OBVIOUS
<1>2. fresh \subseteq content[j] /\ content[j] \subseteq Users /\ j \in 0 .. JobCount
  BY BoundsOK DEF TypeOK, Jobs
<1>3. fresh \in SUBSET Users /\ updated \in SUBSET existing
  BY <1>1, <1>2, ChoicesTo
<1> DEFINE made == {new[u] : u \in fresh}
<1> HIDE DEF fresh
<1>4. /\ made \subseteq Unused
      /\ \A i \in made : owner'[i] \in fresh /\ maker'[i] = j
      /\ \A i \in Ids \ made : owner'[i] = owner[i] /\ maker'[i] = maker[i]
      /\ existing' = existing \cup made
      /\ owner' \in [Ids -> Users \cup {Nobody}]
      /\ existing' \subseteq {i \in Ids : owner'[i] # Nobody}
      /\ aligned' \subseteq existing' /\ mistyped' \subseteq existing'
      /\ maker' \in [Ids -> 0 .. JobCount]
      /\ PoolKept
  BY <1>1, <1>2, <1>3, WritesTo
<1>5. \A ok \in BOOLEAN : ResultOf(made, updated, ok) \in ResultType
                          /\ ResultOf(made, updated, ok).created = made
  BY <1>3, <1>4 DEF ResultOf, ResultType, Unused, TypeOK
<1> HIDE DEF made
<1>6. faults' \in 0 .. MaxFaults /\ changes' \in 0 .. MaxChanges
  BY <1>1, FaultTo DEF bounds, TypeOK
<1>7. Called(j, made)
  <2>1. ASSUME NEW ok \in BOOLEAN, Answered(j, ResultOf(made, updated, ok)), UNCHANGED late
        PROVE  Called(j, made)
    <3>1. /\ \/ phase' = [phase EXCEPT ![j] = "configure"]
             \/ phase' = [phase EXCEPT ![j] = "verify"]
             \/ phase' = [phase EXCEPT ![j] = "done"]
          /\ phase' \in [Jobs -> Phases]
          /\ state' \in [Jobs -> States]
          /\ \A k \in Jobs : state'[k] = "succeeded" => state[k] = "succeeded"
          /\ result' = [result EXCEPT ![j] = ResultOf(made, updated, ok)] /\ result' \in [Jobs -> ResultType]
      BY <1>5, <2>1, AnsweredTo
    <3>2. result'[j].created = made
      BY <1>5, <3>1 DEF TypeOK
    <3> QED BY <2>1, <3>1, <3>2 DEF TypeOK, Called
  <2>2. ASSUME Persists(j, "reconcile") \/ Ends(j, "failed"), UNCHANGED result,
               late' \in {late, late \cup {j} \X (plan[j].todo \ done)}
        PROVE  Called(j, made)
    <3>1. "reconcile" \in Running /\ "failed" \in States
      BY DEF Running, States
    <3>2. /\ phase' = [phase EXCEPT ![j] = "reconcile"] \/ phase' = [phase EXCEPT ![j] = "done"]
          /\ phase' \in [Jobs -> Phases] /\ state' \in [Jobs -> States]
          /\ \A k \in Jobs : state'[k] = "succeeded" => state[k] = "succeeded"
      <4>1. CASE Persists(j, "reconcile")
        BY <3>1, <4>1, PersistsTo
      <4>2. CASE Ends(j, "failed")
        BY <3>1, <4>2, EndsTo
      <4> QED BY <2>2, <4>1, <4>2
    <3>3. late' \subseteq Jobs \X Users
      BY <1>2, <2>2 DEF TypeOK
    <3>4. \A k \in Jobs, u \in Users : <<k, u>> \in late' =>
             <<k, u>> \in late \/ (k = j /\ u \in content[j])
      BY <2>2
    <3> QED BY <2>2, <3>2, <3>3, <3>4 DEF TypeOK, Called
  <2> QED BY <1>1, <2>1, <2>2 DEF made
<1>8. TypeOK'
  BY <1>4, <1>6, <1>7 DEF Import, TypeOK, kept, Phases, Called
<1> QED
  <2>1. \A i \in made : owner'[i] \in content[j] /\ maker'[i] = j
    BY <1>2, <1>4
  <2>2. made \in SUBSET Unused
    BY <1>4
  <2> QED BY <1>4, <1>7, <1>8, <2>1, <2>2

LEMMA ReconcileTo ==
  ASSUME TypeOK, NEW j \in Jobs, Reconcile(j)
  PROVE  /\ TypeOK'
         /\ \A k \in Jobs \ {j} : phase'[k] = phase[k] /\ result'[k] = result[k]
         /\ \A k \in Jobs : state'[k] = "succeeded" => state[k] = "succeeded"
         /\ \/ phase'[j] = "done" /\ result'[j] = result[j]
            \/ /\ phase'[j] \in {"configure", "verify", "done"}
               /\ Preflight(j).todo = {}
               /\ result'[j].created =
                    (Preflight(j).skipped \ plan[j].skipped) \ plan[j].pending
<1> DEFINE newly   == Preflight(j).skipped \ plan[j].skipped
           updated == newly \cap plan[j].pending
           r       == ResultOf(newly \ updated, updated, TRUE)
<1>1. Preflight(j) \in PlanType /\ "failed" \in States
  BY PreflightTo DEF States
<1>2. r \in ResultType /\ r.created = newly \ plan[j].pending
  BY <1>1 DEF PlanType, ResultType, ResultOf
<1>3. CASE Ends(j, "failed") /\ UNCHANGED result
  BY <1>1, <1>3, EndsTo DEF Reconcile, TypeOK, Phases, sub2api, kept, bounds, States
<1>4. CASE Answered(j, r) /\ Preflight(j).todo = {}
  <2> HIDE DEF r
  <2>1. /\ \/ phase' = [phase EXCEPT ![j] = "configure"]
           \/ phase' = [phase EXCEPT ![j] = "verify"]
           \/ phase' = [phase EXCEPT ![j] = "done"]
        /\ phase' \in [Jobs -> Phases]
        /\ state' \in [Jobs -> States]
        /\ \A k \in Jobs : state'[k] = "succeeded" => state[k] = "succeeded"
        /\ result' = [result EXCEPT ![j] = r] /\ result' \in [Jobs -> ResultType]
    BY <1>2, <1>4, AnsweredTo
  <2>2. result'[j].created = newly \ plan[j].pending
    BY <1>2, <2>1 DEF TypeOK
  <2>3. phase'[j] \in {"configure", "verify", "done"} /\ \A k \in Jobs \ {j} : phase'[k] = phase[k] /\ result'[k] = result[k]
    BY <2>1 DEF TypeOK
  <2>4. TypeOK'
    BY <2>1 DEF Reconcile, TypeOK, Phases, sub2api, kept, bounds
  <2> QED BY <1>4, <2>1, <2>2, <2>3, <2>4
<1> QED BY <1>3, <1>4 DEF Reconcile

\* The steps that end a call, in which a job without a phase takes no part.
LEMMA LateWriteTo ==
  ASSUME TypeOK, NEW j \in Jobs, NEW u \in Users, LateWrite(j, u)
  PROVE  \E made \in SUBSET Unused :
           /\ \A i \in made : owner'[i] = u /\ maker'[i] = IF phase[j] = "reconcile" THEN j ELSE 0
           /\ \A i \in Ids \ made : owner'[i] = owner[i] /\ maker'[i] = maker[i]
           /\ existing' = existing \cup made
           /\ PoolKept
           /\ TypeOK'
<1> DEFINE by == IF phase[j] = "reconcile" THEN j ELSE 0
<1>1. by \in 0 .. JobCount
  BY BoundsOK DEF Jobs
<1>2. PICK fresh \in SUBSET {u} : \E new \in Injection(fresh, Unused), updated \in SUBSET existing :
        Writes(new, updated, j, by)
  <2>1. CASE \E new \in Injection({u}, Unused) : Writes(new, {}, j, by)
    BY <2>1
  <2>2. CASE \E updated \in Choices({u}) : Writes(<<>>, updated, j, by)
    <3>1. PICK updated \in Choices({u}) : Writes(<<>>, updated, j, by)
      BY <2>2
    <3>2. <<>> \in Injection({}, Unused)
      BY DEF Injection, IsInjective
    <3> QED BY <3>1, <3>2, ChoicesTo
  <2> QED BY <2>1, <2>2 DEF LateWrite
<1>3. PICK new \in Injection(fresh, Unused), updated \in SUBSET existing : Writes(new, updated, j, by)
  BY <1>2
<1> DEFINE made == {new[v] : v \in fresh}
<1> HIDE DEF by
<1>4. fresh \in SUBSET Users
  OBVIOUS
<1>5. /\ made \subseteq Unused
      /\ \A i \in made : owner'[i] \in fresh /\ maker'[i] = by
      /\ \A i \in Ids \ made : owner'[i] = owner[i] /\ maker'[i] = maker[i]
      /\ existing' = existing \cup made
      /\ owner' \in [Ids -> Users \cup {Nobody}]
      /\ existing' \subseteq {i \in Ids : owner'[i] # Nobody}
      /\ aligned' \subseteq existing' /\ mistyped' \subseteq existing'
      /\ maker' \in [Ids -> 0 .. JobCount]
      /\ PoolKept
  BY <1>1, <1>3, <1>4, WritesTo
<1> HIDE DEF made
<1>6. TypeOK'
  BY <1>5 DEF LateWrite, TypeOK, kept, runVars, bounds
<1> QED BY <1>5, <1>6 DEF by

LEMMA ConfigureTo ==
  ASSUME TypeOK, NEW j \in Jobs, Configure(j)
  PROVE  /\ TypeOK' /\ phase'[j] \in {"verify", "done"}
         /\ \A k \in Jobs \ {j} : phase'[k] = phase[k]
         /\ \A k \in Jobs : state'[k] = "succeeded" => state[k] = "succeeded"
<1>1. "verify" \in Running
  BY DEF Running
<1>2. /\ phase' = [phase EXCEPT ![j] = "verify"] \/ phase' = [phase EXCEPT ![j] = "done"]
      /\ phase' \in [Jobs -> Phases] /\ state' \in [Jobs -> States]
      /\ \A k \in Jobs : state'[k] = "succeeded" => state[k] = "succeeded"
  BY <1>1, PersistsTo DEF Configure
<1> QED BY <1>2 DEF Configure, TypeOK, Phases, kept, bounds

LEMMA VerifyTo ==
  ASSUME TypeOK, NEW j \in Jobs, Verify(j)
  PROVE  /\ TypeOK' /\ phase'[j] \in {"charge", "done"}
         /\ result'[j].created = result[j].created
         /\ \A k \in Jobs \ {j} : phase'[k] = phase[k] /\ result'[k] = result[k]
         /\ \A k \in Jobs : state'[k] = "succeeded" => state[k] = "succeeded"
<1>1. "charge" \in Running
  BY DEF Running
<1>2. /\ phase' = [phase EXCEPT ![j] = "charge"] \/ phase' = [phase EXCEPT ![j] = "done"]
      /\ phase' \in [Jobs -> Phases] /\ state' \in [Jobs -> States]
      /\ \A k \in Jobs : state'[k] = "succeeded" => state[k] = "succeeded"
  BY <1>1, PersistsTo DEF Verify
<1>3. /\ result' \in [Jobs -> ResultType]
      /\ result'[j].created = result[j].created
      /\ \A k \in Jobs \ {j} : result'[k] = result[k]
  <2>1. PICK ok \in BOOLEAN : result' = [result EXCEPT ![j] = [result[j] EXCEPT !.ok = ok]]
    <3>1. (result[j].ok /\ Verified(j)) \in BOOLEAN
      OBVIOUS
    <3> QED BY <3>1 DEF Verify, TypeOK
  <2>2. result[j] \in ResultType
    BY DEF TypeOK
  <2>3. [result[j] EXCEPT !.ok = ok] \in ResultType /\ [result[j] EXCEPT !.ok = ok].created = result[j].created
    BY <2>2 DEF ResultType
  <2> QED BY <2>1, <2>3 DEF TypeOK
<1> QED BY <1>2, <1>3 DEF Verify, TypeOK, Phases, sub2api, kept, bounds

LEMMA ChargeTo ==
  ASSUME TypeOK, NEW j \in Jobs, Charge(j)
  PROVE  /\ TypeOK' /\ phase'[j] \in {"finish", "done"}
         /\ \A k \in Jobs \ {j} : phase'[k] = phase[k]
         /\ \A k \in Jobs : state'[k] = "succeeded" => state[k] = "succeeded"
         /\ costs' = costs \cup Entries(j)
<1>1. "finish" \in Running
  BY DEF Running
<1>2. /\ phase' = [phase EXCEPT ![j] = "finish"] \/ phase' = [phase EXCEPT ![j] = "done"]
      /\ phase' \in [Jobs -> Phases] /\ state' \in [Jobs -> States]
      /\ \A k \in Jobs : state'[k] = "succeeded" => state[k] = "succeeded"
  BY <1>1, PersistsTo DEF Charge
<1>3. result[j].created \subseteq Ids
  BY DEF TypeOK, ResultType
<1>4. Entries(j) \subseteq [account : Ids, job : Jobs]
  BY <1>3 DEF Entries
<1> QED BY <1>2, <1>4 DEF Charge, TypeOK, Phases, sub2api, kept, bounds

LEMMA FinishTo ==
  ASSUME TypeOK, NEW j \in Jobs, Finish(j)
  PROVE  /\ TypeOK' /\ phase'[j] = "done"
         /\ \A k \in Jobs \ {j} : phase'[k] = phase[k] /\ state'[k] = state[k]
<1> DEFINE s == IF result[j].ok THEN "succeeded" ELSE "failed"
<1>1. s \in States
  BY DEF States
<1>2. Ends(j, s)
  BY DEF Finish
<1> HIDE DEF s
<1> QED BY <1>1, <1>2, EndsTo DEF Finish, TypeOK, Phases, sub2api, kept, bounds

LEMMA CallFailsTo ==
  ASSUME TypeOK, NEW j \in Jobs, CallFails(j)
  PROVE  /\ TypeOK' /\ phase'[j] = "done"
         /\ \A k \in Jobs \ {j} : phase'[k] = phase[k]
         /\ \A k \in Jobs : state'[k] = "succeeded" => state[k] = "succeeded"
<1>1. "failed" \in States /\ faults' \in 0 .. MaxFaults /\ changes' \in 0 .. MaxChanges
  BY FaultTo DEF States, CallFails
<1>2. CASE Ends(j, "failed")
  BY <1>1, <1>2, EndsTo DEF CallFails, TypeOK, Phases, sub2api, kept
<1>3. CASE Goto(j, "done") /\ UNCHANGED state
  BY <1>1, <1>3 DEF Goto, CallFails, TypeOK, Running, sub2api, kept
<1> QED BY <1>2, <1>3 DEF CallFails

LEMMA PoolChangesType ==
  ASSUME TypeOK, NEW i \in Ids, PoolChanges(i)
  PROVE  TypeOK' /\ existing' \subseteq existing
  BY BoundsOK DEF PoolChanges, TypeOK, kept, runVars

LEMMA RestartType ==
  ASSUME TypeOK, Restart
  PROVE  TypeOK'
<1>1. phase' \in [Jobs -> Running \cup {"none", "done"}]
  BY DEF Restart
<1> QED BY <1>1, FaultTo DEF Restart, TypeOK, sub2api

-----------------------------------------------------------------------------
(* The jobs stay in order *)

\* A job whose call has not been made has made no account and charged none.
LEMMA NotYetCalled ==
  ASSUME TypeOK, TypeOK', NEW j \in Jobs, JobInv(j), phase[j] \in Before,
         phase'[j] \in Before \cup {"import"},
         UNCHANGED <<owner, maker, late, costs>>, result'[j] = result[j],
         plan'[j].known \subseteq GivenOut,
         plan'[j].skipped \cup plan'[j].pending \subseteq plan'[j].known,
         j <= submitted',
         phase'[j] = "import" =>
           /\ plan'[j].todo \subseteq content'[j]
           /\ j \notin recovery' => \A i \in plan'[j].known :
                \/ i \in plan'[j].skipped \/ i \in plan'[j].pending
                \/ \E k \in plan'[j].known \ {i} : owner[k] = owner[i]
  PROVE  JobInv(j)'
<1>1. phase[j] \in Early /\ phase'[j] \in Early
  BY DEF Early
<1>2. result'[j].created = {} /\ \A e \in costs' : e.job # j
  BY <1>1 DEF JobInv, PlanInv
<1>3. GivenOut' = GivenOut
  BY DEF GivenOut
<1>4. PlanInv(j)'
  BY <1>1, <1>2, <1>3 DEF PlanInv, Shared, Before
<1>5. MadeInv(j)'
  BY DEF JobInv, MadeInv, Before
<1>6. \A u \in Users : <<j, u>> \notin late'
  BY DEF JobInv, LateInv
<1>7. LateInv(j)'
  BY <1>6 DEF LateInv, TypeOK, Jobs
<1> QED BY <1>4, <1>5, <1>7 DEF JobInv

\* Every job with a run has been submitted.
LEMMA HasRun ==
  ASSUME TypeOK, NEW j \in Jobs, JobInv(j), phase[j] # "none"
  PROVE  j <= submitted
  BY DEF JobInv, LateInv, TypeOK, Jobs

LEMMA SubmitInv ==
  ASSUME Inv, NEW users \in SUBSET Users, NEW revives \in BOOLEAN, Submit(users, revives)
  PROVE  \A k \in Jobs : JobInv(k)'
<1>1. TypeOK /\ TypeOK'
  BY SubmitType DEF Inv
<1>2. submitted \in Nat /\ submitted < JobCount /\ submitted' = submitted + 1
  BY <1>1 DEF Submit, TypeOK
<1> PICK j \in Jobs : j = submitted + 1
  BY <1>2, BoundsOK DEF Jobs
<1>3. j > submitted /\ submitted' = j
  BY <1>2
<1>4. UNCHANGED sub2api /\ UNCHANGED <<costs, plan, result>>
  BY DEF Submit
<1>5. PoolKept
  BY <1>4, PoolStands
<1>6. ASSUME NEW k \in Jobs, k # j PROVE JobInv(k)'
  <2>1. /\ phase'[k] = phase[k] /\ content'[k] = content[k]
        /\ k \in recovery => k \in recovery'
        /\ submitted' >= submitted
    BY <1>1, <1>3, <1>6 DEF Submit, TypeOK
  <2> QED BY <1>1, <1>3, <1>4, <1>5, <2>1, Undisturbed DEF Inv, sub2api
<1>7. JobInv(j)'
  <2>1. JobInv(j) /\ phase[j] = "none"
    BY <1>1, <1>3 DEF Inv, JobInv, LateInv
  <2>2. phase'[j] \in {"none", "start"}
    BY <1>1, <1>3, <2>1 DEF Submit, TypeOK
  <2>3. plan'[j].known \subseteq GivenOut /\ plan'[j].skipped \cup plan'[j].pending \subseteq plan'[j].known
    BY <1>4, <2>1 DEF JobInv, PlanInv
  <2>4. j <= submitted'
    BY <1>1, <1>3 DEF TypeOK
  <2>5. /\ phase[j] \in Before /\ phase'[j] \in Before \cup {"import"} /\ phase'[j] # "import"
        /\ UNCHANGED <<owner, maker, late, costs>> /\ result'[j] = result[j]
    BY <1>4, <2>1, <2>2 DEF sub2api, Before
  <2> QED BY <1>1, <1>3, <2>1, <2>3, <2>4, <2>5, NotYetCalled
<1> QED BY <1>6, <1>7

\* The steps before the import call.
LEMMA BeforeCallInv ==
  ASSUME Inv, NEW j \in Jobs,
         Start(j) \/ FirstPreflight(j) \/ Correct(j) \/ Recheck(j)
  PROVE  \A k \in Jobs : JobInv(k)'
<1>1. TypeOK' /\ phase[j] \in Before \ {"none"} /\ \A k \in Jobs \ {j} : phase'[k] = phase[k]
  <2>1. CASE Start(j)
    BY <2>1, StartType DEF Inv, Start, Before
  <2>2. CASE FirstPreflight(j)
    BY <2>2, FirstPreflightType DEF Inv, FirstPreflight, Before
  <2>3. CASE Correct(j)
    BY <2>3, CorrectType DEF Inv, TypeOK, Correct, Goto, Before
  <2>4. CASE Recheck(j)
    BY <2>4, RecheckType DEF Inv, Recheck, Before
  <2> QED BY <2>1, <2>2, <2>3, <2>4
<1>2. UNCHANGED <<owner, existing, maker, late, costs, kept, result>>
  BY DEF Start, FirstPreflight, Correct, Recheck, sub2api
<1>3. /\ phase'[j] \in Before \cup {"import", "done"}
      /\ \/ plan'[j] = plan[j] /\ phase'[j] # "import"
         \/ plan'[j] = Preflight(j) /\ phase'[j] # "done"
         \/ phase'[j] = "done"
  <2>1. CASE Start(j)
    BY <2>1, StartType DEF Inv, Start, Before
  <2>2. CASE FirstPreflight(j)
    <3>1. plan'[j] = Preflight(j)
      BY <2>2 DEF FirstPreflight, Inv, TypeOK
    <3> QED BY <2>2, <3>1, FirstPreflightType DEF Inv, Before
  <2>3. CASE Correct(j)
    BY <2>3 DEF Inv, TypeOK, Correct, Goto, Before
  <2>4. CASE Recheck(j)
    BY <2>4, RecheckType DEF Inv, TypeOK, Before
  <2> QED BY <2>1, <2>2, <2>3, <2>4
<1>4. \A k \in Jobs \ {j} : plan'[k] = plan[k]
  BY DEF Start, FirstPreflight, Correct, Recheck, Inv, TypeOK
<1>5. TypeOK /\ JobInv(j) /\ j <= submitted
  BY <1>1, HasRun DEF Inv, Before
<1>6. PoolKept
  BY <1>2 DEF PoolKept, GivenOut
<1>7. ASSUME NEW k \in Jobs, k # j PROVE JobInv(k)'
  <2>1. submitted' >= submitted
    BY <1>2 DEF kept, Inv, TypeOK
  <2> QED BY <1>1, <1>2, <1>4, <1>6, <1>7, <2>1, Undisturbed DEF Inv, kept
<1>8. JobInv(j)'
  <2>1. CASE phase'[j] # "done"
    <3>1. plan'[j].known \subseteq GivenOut /\ plan'[j].skipped \cup plan'[j].pending \subseteq plan'[j].known
      BY <1>3, <1>5, <2>1, PreflightTo DEF JobInv, PlanInv
    <3>2. phase'[j] = "import" =>
             /\ plan'[j].todo \subseteq content'[j]
             /\ j \notin recovery' => \A i \in plan'[j].known :
                  \/ i \in plan'[j].skipped \/ i \in plan'[j].pending
                  \/ \E k \in plan'[j].known \ {i} : owner[k] = owner[i]
      BY <1>2, <1>3, <1>5, <2>1, PreflightTo DEF kept
    <3> QED BY <1>1, <1>2, <1>3, <1>5, <2>1, <3>1, <3>2, NotYetCalled DEF kept
  <2>2. CASE phase'[j] = "done"
    <3>1. phase[j] \in Early
      BY <1>1 DEF Early
    <3>2. /\ result[j].created = {} /\ GivenOut' = GivenOut
          /\ plan'[j].known \subseteq GivenOut
          /\ plan'[j].skipped \cup plan'[j].pending \subseteq plan'[j].known
      <4>1. plan'[j] = plan[j] \/ plan'[j] = Preflight(j)
        BY <1>3, <1>5, <2>2 DEF Start, FirstPreflight, Correct, Recheck, TypeOK
      <4> QED BY <1>2, <1>5, <3>1, <4>1, PreflightTo DEF JobInv, PlanInv, GivenOut
    <3>3. PlanInv(j)'
      BY <1>2, <2>2, <3>2 DEF PlanInv, Early, Before
    <3>4. MadeInv(j)'
      BY <2>2 DEF MadeInv, Before
    <3>5. LateInv(j)'
      BY <1>1, <1>2, <1>5, <2>2 DEF JobInv, LateInv, kept, TypeOK, Jobs, Before
    <3> QED BY <3>3, <3>4, <3>5 DEF JobInv
  <2> QED BY <2>1, <2>2
<1> QED BY <1>7, <1>8

\* A job is not disturbed by accounts made for another one or for nobody.
LEMMA MadeForOthers ==
  ASSUME TypeOK, TypeOK', NEW j \in Jobs, JobInv(j), PoolKept,
         NEW made \in SUBSET Ids, NEW by, by # j,
         \A i \in made : maker'[i] = by,
         \A i \in Ids \ made : owner'[i] = owner[i] /\ maker'[i] = maker[i],
         existing' = existing \cup made,
         plan'[j] = plan[j], result'[j] = result[j], phase'[j] = phase[j],
         UNCHANGED <<content, recovery, costs, submitted>>,
         \A u \in Users : <<j, u>> \in late' => <<j, u>> \in late
  PROVE  JobInv(j)'
<1>1. \A i \in Ids : maker'[i] = j => maker[i] = j /\ owner'[i] = owner[i]
  OBVIOUS
<1>2. \A i \in existing' : maker'[i] = j => i \in existing
  OBVIOUS
<1>3. submitted' >= submitted
  BY DEF TypeOK
<1> QED BY <1>1, <1>2, <1>3, Undisturbed

LEMMA ImportInv ==
  ASSUME Inv, NEW j \in Jobs, Import(j)
  PROVE  \A k \in Jobs : JobInv(k)'
<1>1. TypeOK /\ JobInv(j) /\ phase[j] = "import"
  BY DEF Inv, Import
<1>2. plan[j].todo \subseteq content[j]
  BY <1>1 DEF JobInv, PlanInv
<1>3. PICK made \in SUBSET Unused :
           /\ \A i \in made : owner'[i] \in content[j] /\ maker'[i] = j
           /\ \A i \in Ids \ made : owner'[i] = owner[i] /\ maker'[i] = maker[i]
           /\ existing' = existing \cup made
           /\ PoolKept
           /\ TypeOK'
           /\ Called(j, made)
  BY <1>1, <1>2, ImportTo
<1>4. UNCHANGED <<content, recovery, costs, submitted, plan>>
  BY DEF Import, kept
<1>5. made \subseteq Ids /\ made \cap plan[j].known = {}
  BY <1>1 DEF JobInv, PlanInv, GivenOut, Unused
<1>6. ASSUME NEW k \in Jobs, k # j PROVE JobInv(k)'
  <2>1. /\ phase'[k] = phase[k] /\ result'[k] = result[k]
        /\ \A u \in Users : <<k, u>> \in late' => <<k, u>> \in late
    BY <1>3, <1>6 DEF Called
  <2>2. JobInv(k)
    BY DEF Inv
  <2> QED BY <1>1, <1>3, <1>4, <1>5, <1>6, <2>1, <2>2, MadeForOthers
<1>7. JobInv(j)'
  <2>1. plan[j].known \subseteq Ids /\ plan[j].known \subseteq GivenOut
    BY <1>1 DEF TypeOK, PlanType, JobInv, PlanInv
  <2>2. \A i \in plan[j].known : Shared(j, i) => Shared(j, i)'
    BY <1>3, <1>4, <2>1 DEF Shared, PoolKept
  <2>3. result[j].created = {} /\ \A e \in costs : e.job # j
    BY <1>1 DEF JobInv, PlanInv, Early
  <2>4. result'[j].created = {} \/ result'[j].created = made
    BY <1>3, <2>3 DEF Called
  <2>5. phase'[j] \in {"configure", "verify", "reconcile", "done"}
        /\ (phase'[j] = "reconcile" => result'[j].created = {})
        /\ (phase'[j] \in {"configure", "verify"} => result'[j].created = made)
    BY <1>3, <2>3 DEF Called
  <2>6. PlanInv(j)'
    <3>1. plan'[j].known \subseteq GivenOut' /\ plan'[j].skipped \cup plan'[j].pending \subseteq plan'[j].known
      BY <1>1, <1>3, <1>4, <2>1 DEF PoolKept, JobInv, PlanInv
    <3>2. phase'[j] = "reconcile" =>
             /\ plan'[j].todo \subseteq content'[j]
             /\ j \notin recovery' => \A i \in plan'[j].known :
                   i \in plan'[j].skipped \/ i \in plan'[j].pending \/ Shared(j, i)'
      BY <1>1, <1>4, <2>2 DEF JobInv, PlanInv
    <3>3. \A i \in result'[j].created : i \in plan'[j].known => Shared(j, i)'
      BY <1>4, <1>5, <2>4
    <3>4. \A e \in costs' : e.job # j
      BY <1>4, <2>3
    <3> QED BY <2>5, <3>1, <3>2, <3>3, <3>4 DEF PlanInv, Early, Before
  <2>7. \A i \in Ids : maker'[i] = j => i \in made
    BY <1>1, <1>3 DEF JobInv, MadeInv
  <2>8. MadeInv(j)'
    <3>1. existing' \subseteq Ids
      BY <1>3 DEF TypeOK
    <3> QED BY <1>3, <1>4, <1>5, <2>5, <2>7, <3>1 DEF MadeInv, Before
  <2>9. LateInv(j)'
    <3>1. j <= submitted
      BY <1>1, HasRun
    <3>2. \A u \in Users : <<j, u>> \notin late
      BY <1>1 DEF JobInv, LateInv
    <3>3. \A u \in Users : <<j, u>> \in late' => u \in content'[j] /\ phase'[j] \in {"reconcile", "done"}
      BY <1>3, <1>4, <3>2 DEF Called
    <3> QED BY <1>1, <1>4, <3>1, <3>3 DEF LateInv, Before, TypeOK, Jobs
  <2> QED BY <2>6, <2>8, <2>9 DEF JobInv
<1> QED BY <1>6, <1>7

\* An account that a reconciliation takes for new is new, or its user had several
\* accounts; and all accounts the job made are among them.
LEMMA ReconcileInv ==
  ASSUME Inv, NEW j \in Jobs, Reconcile(j)
  PROVE  \A k \in Jobs : JobInv(k)'
<1>1. TypeOK /\ TypeOK' /\ JobInv(j) /\ phase[j] = "reconcile"
  BY ReconcileTo DEF Inv, Reconcile
<1>2. /\ UNCHANGED <<owner, existing, maker, late>>
      /\ UNCHANGED <<content, recovery, costs, submitted, plan>>
      /\ PoolKept
  BY PoolStands DEF Reconcile, sub2api, kept
<1>3. ASSUME NEW k \in Jobs, k # j PROVE JobInv(k)'
  <2>1. phase'[k] = phase[k] /\ result'[k] = result[k] /\ submitted' >= submitted
    BY <1>1, <1>2, <1>3, ReconcileTo DEF TypeOK
  <2> QED BY <1>1, <1>2, <2>1, Undisturbed DEF Inv
<1>4. JobInv(j)'
  <2>1. CASE phase'[j] = "done" /\ result'[j] = result[j]
    BY <1>1, <1>2, <2>1, RunOver DEF JobInv, LateInv
  <2>2. CASE /\ phase'[j] \in {"configure", "verify", "done"}
             /\ Preflight(j).todo = {}
             /\ result'[j].created = (Preflight(j).skipped \ plan[j].skipped) \ plan[j].pending
    <3> DEFINE fit == {u \in content[j] : Fits(j, u)}
    <3>1. Preflight(j).todo = content[j] \ fit /\ Preflight(j).skipped = UNION {Matches(u) : u \in fit}
      BY DEF Preflight, PlanOf
    <3>2. ASSUME NEW i \in result'[j].created, i \in plan[j].known
          PROVE  Shared(j, i)
      <4>1. i \notin plan[j].skipped /\ i \notin plan[j].pending
        BY <2>2, <3>2
      <4>2. PICK u \in fit : i \in Matches(u)
        BY <2>2, <3>1, <3>2
      <4>3. j \notin recovery
        BY <4>2 DEF Fits
      <4> QED BY <1>1, <3>2, <4>1, <4>3 DEF JobInv, PlanInv
    <3>3. ASSUME NEW i \in existing, maker[i] = j
          PROVE  i \in result'[j].created
      <4>1. i \in Ids /\ i \notin plan[j].known /\ owner[i] \in content[j]
        BY <1>1, <3>3 DEF TypeOK, JobInv, MadeInv
      <4>2. owner[i] \in fit /\ i \in Matches(owner[i])
        BY <2>2, <3>1, <3>3, <4>1 DEF Matches
      <4>3. i \in Preflight(j).skipped
        BY <3>1, <4>2
      <4>4. i \notin plan[j].skipped /\ i \notin plan[j].pending
        BY <4>1, <1>1 DEF JobInv, PlanInv
      <4> QED BY <2>2, <4>3, <4>4
    <3>4. PlanInv(j)'
      <4>1. \A i \in plan[j].known : Shared(j, i) => Shared(j, i)'
        BY <1>2 DEF Shared
      <4> QED BY <1>1, <1>2, <2>2, <3>2, <4>1 DEF JobInv, PlanInv, GivenOut, Early, Before
    <3>5. MadeInv(j)'
      BY <1>2, <2>2, <3>3 DEF MadeInv, Before
    <3>6. LateInv(j)'
      BY <1>1, <1>2, <2>2 DEF JobInv, LateInv, Before, TypeOK, Jobs
    <3> QED BY <3>4, <3>5, <3>6 DEF JobInv
  <2> QED BY <1>1, <2>1, <2>2, ReconcileTo
<1> QED BY <1>3, <1>4

LEMMA LateWriteInv ==
  ASSUME Inv, NEW j \in Jobs, NEW u \in Users, LateWrite(j, u)
  PROVE  \A k \in Jobs : JobInv(k)'
<1> DEFINE by == IF phase[j] = "reconcile" THEN j ELSE 0
<1>1. TypeOK /\ JobInv(j) /\ u \in content[j] /\ phase[j] \notin Before \cup {"import"}
  BY DEF Inv, LateWrite, JobInv, LateInv
<1>2. PICK made \in SUBSET Unused :
           /\ \A i \in made : owner'[i] = u /\ maker'[i] = by
           /\ \A i \in Ids \ made : owner'[i] = owner[i] /\ maker'[i] = maker[i]
           /\ existing' = existing \cup made
           /\ PoolKept
           /\ TypeOK'
  BY <1>1, LateWriteTo
<1>3. /\ UNCHANGED <<content, recovery, costs, submitted, plan, result, phase>>
      /\ late' \subseteq late
  BY DEF LateWrite, kept, runVars
<1>4. made \subseteq Ids /\ made \cap plan[j].known = {}
  BY <1>1 DEF JobInv, PlanInv, GivenOut, Unused
<1>5. by \in {j, 0} /\ 0 \notin Jobs /\ (by = j => phase[j] = "reconcile")
  BY DEF Jobs
<1> HIDE DEF by
<1>6. ASSUME NEW k \in Jobs, k # by PROVE JobInv(k)'
  BY <1>1, <1>2, <1>3, <1>4, <1>6, MadeForOthers DEF Inv
<1>7. ASSUME by = j PROVE JobInv(j)'
  <2>1. plan[j].known \subseteq Ids
    BY <1>1 DEF TypeOK, PlanType
  <2>2. \A i \in plan[j].known : Shared(j, i) => Shared(j, i)'
    BY <1>1, <1>2, <1>3 DEF JobInv, PlanInv, Shared, PoolKept
  <2>3. PlanInv(j)'
    BY <1>1, <1>2, <1>3, <2>1, <2>2 DEF JobInv, PlanInv, PoolKept
  <2>4. MadeInv(j)'
    BY <1>1, <1>2, <1>3, <1>4, <1>5, <1>7 DEF JobInv, MadeInv, Before
  <2>5. LateInv(j)'
    BY <1>1, <1>3 DEF JobInv, LateInv
  <2> QED BY <2>3, <2>4, <2>5 DEF JobInv
<1> QED BY <1>5, <1>6, <1>7

\* The steps after the call: nothing is made, and what has been created stays.
LEMMA AfterCallInv ==
  ASSUME Inv, NEW j \in Jobs,
         Configure(j) \/ Verify(j) \/ Charge(j) \/ Finish(j) \/ CallFails(j)
  PROVE  \A k \in Jobs : JobInv(k)'
<1>1. /\ TypeOK /\ TypeOK' /\ JobInv(j) /\ phase[j] # "none"
      /\ \A k \in Jobs \ {j} : phase'[k] = phase[k] /\ result'[k] = result[k]
      /\ result'[j].created = result[j].created
  <2>1. CASE Configure(j)
    BY <2>1, ConfigureTo DEF Inv, Configure
  <2>2. CASE Verify(j)
    BY <2>2, VerifyTo DEF Inv, Verify
  <2>3. CASE Charge(j)
    BY <2>3, ChargeTo DEF Inv, Charge
  <2>4. CASE Finish(j)
    BY <2>4, FinishTo DEF Inv, Finish
  <2>5. CASE CallFails(j)
    BY <2>5, CallFailsTo DEF Inv, CallFails, Running
  <2> QED BY <2>1, <2>2, <2>3, <2>4, <2>5
<1>2. UNCHANGED <<owner, existing, maker, late, content, recovery, submitted, plan>>
  BY DEF Configure, Verify, Charge, Finish, CallFails, kept, sub2api
<1>3. PoolKept /\ GivenOut' = GivenOut
  BY <1>2 DEF PoolKept, GivenOut
<1>4. costs \subseteq costs' /\ \A e \in costs' : e.job # j => e \in costs
  BY ChargeTo DEF Configure, Verify, Charge, Finish, CallFails, Entries
<1>5. ASSUME NEW k \in Jobs, k # j PROVE JobInv(k)'
  <2>1. submitted' >= submitted
    BY <1>1, <1>2 DEF TypeOK
  <2> QED BY <1>1, <1>2, <1>3, <1>4, <1>5, <2>1, Undisturbed DEF Inv
<1>6. /\ phase'[j] \in {"verify", "charge", "finish", "done"}
      /\ phase'[j] \in {"verify", "charge"} => phase[j] \in {"configure", "verify"}
      /\ phase'[j] = "finish" => phase[j] = "charge" /\ Charge(j)
  <2>1. CASE Configure(j)
    BY <2>1, ConfigureTo DEF Inv, Configure
  <2>2. CASE Verify(j)
    BY <2>2, VerifyTo DEF Inv, Verify
  <2>3. CASE Charge(j)
    BY <2>3, ChargeTo DEF Inv, Charge
  <2>4. CASE Finish(j)
    BY <2>4, FinishTo DEF Inv
  <2>5. CASE CallFails(j)
    BY <2>5, CallFailsTo DEF Inv
  <2> QED BY <2>1, <2>2, <2>3, <2>4, <2>5
<1>7. PlanInv(j)'
  <2>1. \A i \in plan[j].known : Shared(j, i) => Shared(j, i)'
    BY <1>2 DEF Shared
  <2> QED BY <1>1, <1>2, <1>3, <1>6, <2>1 DEF JobInv, PlanInv, Early, Before
<1>8. MadeInv(j)'
  <2>1. ASSUME phase'[j] = "finish", NEW i \in existing', maker'[i] = j
        PROVE  i \in Charged'
    <3>1. i \in result[j].created
      BY <1>1, <1>2, <1>6, <2>1 DEF JobInv, MadeInv
    <3>2. costs' = costs \cup Entries(j)
      BY <1>1, <1>6, <2>1, ChargeTo
    <3>3. CASE i \in Charged
      BY <1>4, <3>3 DEF Charged
    <3>4. CASE i \notin Charged
      <4>1. [account |-> i, job |-> j] \in Entries(j)
        BY <3>1, <3>4 DEF Entries
      <4> QED BY <3>2, <4>1 DEF Charged
    <3> QED BY <3>3, <3>4
  <2> QED BY <1>1, <1>2, <1>6, <2>1 DEF JobInv, MadeInv, Before
<1>9. LateInv(j)'
  <2>1. j <= submitted
    BY <1>1, HasRun
  <2> QED BY <1>1, <1>2, <1>6, <2>1 DEF JobInv, LateInv, Before, TypeOK, Jobs
<1> QED BY <1>5, <1>7, <1>8, <1>9 DEF JobInv

\* Steps that belong to no run.
LEMMA SurroundingsInv ==
  ASSUME Inv, \/ \E j \in Jobs : SubmissionFails(j)
              \/ \E i \in Ids : PoolChanges(i)
  PROVE  \A k \in Jobs : JobInv(k)'
<1>1. TypeOK /\ TypeOK'
  BY SubmissionFailsType, PoolChangesType DEF Inv
<1>2. /\ UNCHANGED <<owner, maker, late, content, recovery, submitted, costs, plan, result, phase>>
      /\ existing' \subseteq existing
  BY DEF SubmissionFails, PoolChanges, kept, sub2api, runVars
<1>3. PoolKept /\ submitted' >= submitted
  BY <1>1, <1>2 DEF PoolKept, GivenOut, TypeOK
<1> QED BY <1>1, <1>2, <1>3, Undisturbed DEF Inv

\* A restart ends all runs there are.
LEMMA RestartInv ==
  ASSUME Inv, Restart, NEW k \in Jobs
  PROVE  JobInv(k)'
<1>1. TypeOK /\ TypeOK' /\ JobInv(k)
  BY RestartType DEF Inv
<1>2. /\ UNCHANGED <<owner, existing, maker, late, content, recovery, submitted, costs, plan, result>>
      /\ phase'[k] = IF phase[k] = "none" THEN "none" ELSE "done"
  BY DEF Restart, sub2api
<1>3. PoolKept /\ submitted' >= submitted
  BY <1>1, <1>2 DEF PoolKept, GivenOut, TypeOK
<1>4. CASE phase[k] = "none"
  BY <1>1, <1>2, <1>3, <1>4, Undisturbed
<1>5. CASE phase[k] # "none"
  BY <1>1, <1>2, <1>3, <1>5, RunOver
<1> QED BY <1>4, <1>5

-----------------------------------------------------------------------------
(* The ledger *)

\* Only a job that charges changes the ledger, and a plan that was charged for
\* stands.
LEMMA LedgerInv ==
  ASSUME Inv, PoolKept, \A k \in Jobs : \A e \in costs : e.job = k => plan'[k] = plan[k],
         costs' = costs \/ \E j \in Jobs : costs' = costs \cup Entries(j) /\ UNCHANGED <<plan, owner>>
  PROVE  (ChargedOnce /\ ChargesOnlyNew)'
<1>1. TypeOK /\ ChargedOnce /\ ChargesOnlyNew /\ \A j \in Jobs : JobInv(j)
  BY DEF Inv
<1>2. CASE costs' = costs
  <2>1. ChargedOnce'
    BY <1>1, <1>2 DEF ChargedOnce
  <2>2. ASSUME NEW e \in costs, e.account \in plan'[e.job].known
        PROVE  \E i \in plan'[e.job].known \ {e.account} : owner'[i] = owner'[e.account]
    <3>1. e.job \in Jobs /\ plan'[e.job] = plan[e.job]
      BY <1>1 DEF TypeOK
    <3>2. plan[e.job].known \subseteq GivenOut
      BY <1>1, <3>1 DEF JobInv, PlanInv
    <3>3. PICK i \in plan[e.job].known \ {e.account} : owner[i] = owner[e.account]
      BY <1>1, <2>2, <3>1 DEF ChargesOnlyNew
    <3>4. owner'[i] = owner[i] /\ owner'[e.account] = owner[e.account]
      BY <2>2, <3>1, <3>2, <3>3 DEF PoolKept
    <3> QED BY <3>1, <3>3, <3>4
  <2> QED BY <1>2, <2>1, <2>2 DEF ChargesOnlyNew
<1>3. ASSUME NEW j \in Jobs, costs' = costs \cup Entries(j), UNCHANGED <<plan, owner>>
      PROVE  (ChargedOnce /\ ChargesOnlyNew)'
  <2>1. \A e \in Entries(j) : e.account \in result[j].created \ Charged /\ e.job = j
    BY DEF Entries
  <2>2. \A e, f \in Entries(j) : e.account = f.account => e = f
    BY DEF Entries
  <2>3. \A e \in costs : e.account \in Charged
    BY DEF Charged
  <2>4. ChargedOnce'
    BY <1>1, <1>3, <2>1, <2>2, <2>3 DEF ChargedOnce
  <2>5. ChargesOnlyNew'
    BY <1>1, <1>3, <2>1 DEF ChargesOnlyNew, JobInv, PlanInv, Shared
  <2> QED BY <2>4, <2>5
<1> QED BY <1>2, <1>3

\* A plan changes only before the call of its job, when nothing is charged.
LEMMA PlanStands ==
  ASSUME Inv, NEW j \in Jobs, phase[j] \in Before,
         \A k \in Jobs \ {j} : plan'[k] = plan[k]
  PROVE  \A k \in Jobs : \A e \in costs : e.job = k => plan'[k] = plan[k]
  BY DEF Inv, JobInv, PlanInv, Early

LEMMA NextInv == Inv /\ [Next]_vars => Inv'
<1> SUFFICES ASSUME Inv, [Next]_vars PROVE Inv'
  OBVIOUS
<1> USE DEF Inv
<1>1. CASE UNCHANGED vars
  <2>1. TypeOK' /\ ChargedOnce' /\ ChargesOnlyNew'
    BY <1>1 DEF vars, sub2api, kept, runVars, bounds, TypeOK, ChargedOnce, ChargesOnlyNew
  <2>2. \A k \in Jobs : JobInv(k)'
    BY <1>1 DEF vars, sub2api, kept, runVars, JobInv, PlanInv, MadeInv, LateInv, GivenOut, Shared, Charged
  <2> QED BY <2>1, <2>2
<1>2. ASSUME NEW users \in (SUBSET Users) \ {{}}, NEW revives \in BOOLEAN, Submit(users, revives)
      PROVE  Inv'
  <2>1. PoolKept /\ UNCHANGED <<plan, costs>>
    BY <1>2, PoolStands DEF Submit
  <2>2. (ChargedOnce /\ ChargesOnlyNew)'
    BY <2>1, LedgerInv
  <2> QED BY <1>2, <2>2, SubmitType, SubmitInv
<1>3. ASSUME NEW j \in Jobs, Start(j) \/ FirstPreflight(j) \/ Correct(j) \/ Recheck(j)
      PROVE  Inv'
  <2>1. TypeOK' /\ phase[j] \in Before
    BY <1>3, StartType, FirstPreflightType, CorrectType, RecheckType
       DEF Start, FirstPreflight, Correct, Recheck, Before
  <2>2. PoolKept /\ costs' = costs
    BY <1>3 DEF Start, FirstPreflight, Correct, Recheck, sub2api, PoolKept, GivenOut
  <2>3. \A k \in Jobs \ {j} : plan'[k] = plan[k]
    BY <1>3 DEF Start, FirstPreflight, Correct, Recheck, TypeOK
  <2>4. (ChargedOnce /\ ChargesOnlyNew)'
    BY <2>1, <2>2, <2>3, PlanStands, LedgerInv
  <2> QED BY <1>3, <2>1, <2>4, BeforeCallInv
<1>4. ASSUME NEW j \in Jobs, Import(j)
      PROVE  Inv'
  <2>1. phase[j] = "import" /\ plan[j].todo \subseteq content[j]
    BY <1>4 DEF Import, JobInv, PlanInv
  <2>2. TypeOK' /\ PoolKept
    BY <1>4, <2>1, ImportTo
  <2>3. UNCHANGED <<plan, costs>>
    BY <1>4 DEF Import
  <2>4. (ChargedOnce /\ ChargesOnlyNew)'
    BY <2>2, <2>3, LedgerInv
  <2> QED BY <1>4, <2>2, <2>4, ImportInv
<1>5. ASSUME NEW j \in Jobs, Reconcile(j)
      PROVE  Inv'
  <2>1. PoolKept /\ UNCHANGED <<plan, costs>>
    BY <1>5, PoolStands DEF Reconcile
  <2>2. (ChargedOnce /\ ChargesOnlyNew)'
    BY <2>1, LedgerInv
  <2> QED BY <1>5, <2>2, ReconcileTo, ReconcileInv
<1>6. ASSUME NEW j \in Jobs, NEW u \in Users, LateWrite(j, u)
      PROVE  Inv'
  <2>1. TypeOK' /\ PoolKept
    BY <1>6, LateWriteTo
  <2>2. UNCHANGED <<plan, costs>>
    BY <1>6 DEF LateWrite, runVars
  <2>3. (ChargedOnce /\ ChargesOnlyNew)'
    BY <2>1, <2>2, LedgerInv
  <2> QED BY <1>6, <2>1, <2>3, LateWriteInv
<1>7. ASSUME NEW j \in Jobs, Configure(j) \/ Verify(j) \/ Charge(j) \/ Finish(j) \/ CallFails(j)
      PROVE  Inv'
  <2>1. TypeOK'
    BY <1>7, ConfigureTo, VerifyTo, ChargeTo, FinishTo, CallFailsTo
  <2>2. UNCHANGED <<plan, owner>> /\ PoolKept
    BY <1>7 DEF Configure, Verify, Charge, Finish, CallFails, sub2api, PoolKept, GivenOut
  <2>3. costs' = costs \/ costs' = costs \cup Entries(j)
    BY <1>7 DEF Configure, Verify, Charge, Finish, CallFails
  <2>4. (ChargedOnce /\ ChargesOnlyNew)'
    BY <2>2, <2>3, LedgerInv
  <2> QED BY <1>7, <2>1, <2>4, AfterCallInv
<1>8. ASSUME \/ \E j \in Jobs : SubmissionFails(j)
             \/ \E i \in Ids : PoolChanges(i)
      PROVE  Inv'
  <2>1. TypeOK'
    BY <1>8, SubmissionFailsType, PoolChangesType
  <2>2. PoolKept /\ UNCHANGED <<plan, costs>>
    BY <1>8 DEF SubmissionFails, PoolChanges, sub2api, runVars, PoolKept, GivenOut
  <2>3. (ChargedOnce /\ ChargesOnlyNew)'
    BY <2>2, LedgerInv
  <2> QED BY <1>8, <2>1, <2>3, SurroundingsInv
<1>9. CASE Restart
  <2>1. PoolKept /\ UNCHANGED <<plan, costs>>
    BY <1>9 DEF Restart, sub2api, PoolKept, GivenOut
  <2>2. (ChargedOnce /\ ChargesOnlyNew)'
    BY <2>1, LedgerInv
  <2> QED BY <1>9, <2>2, RestartType, RestartInv
<1> QED BY <1>1, <1>2, <1>3, <1>4, <1>5, <1>6, <1>7, <1>8, <1>9 DEF Next

-----------------------------------------------------------------------------
(* Theorems *)

\* Every account that a job has made, and what it is charged for, is accounted
\* for in each phase of its run, for any number of jobs and failures.
THEOREM InvariantHolds == Spec => []Inv
<1>1. Init => Inv
  BY InitInv
<1>2. Inv /\ [Next]_vars => Inv'
  BY NextInv
<1> QED BY <1>1, <1>2, PTL DEF Spec

\* The variables of AccountImport keep their types.
THEOREM TypesHold == Spec => []TypeOK
<1>1. Inv => TypeOK
  BY DEF Inv
<1> QED BY <1>1, InvariantHolds, PTL

\* recordAccountImportCosts() never charges an account twice.
THEOREM AccountsAreChargedOnce == Spec => []ChargedOnce
<1>1. Inv => ChargedOnce
  BY DEF Inv
<1> QED BY <1>1, InvariantHolds, PTL

\* recoveredImportOutput() takes an account for new that was there before only if
\* its user had another one.
THEOREM OnlyNewAccountsAreCharged == Spec => []ChargesOnlyNew
<1>1. Inv => ChargesOnlyNew
  BY DEF Inv
<1> QED BY <1>1, InvariantHolds, PTL

\* run() reports success only when what its calls made is in the ledger.
THEOREM SuccessHasBeenCharged == Spec => SuccessIsFullyCharged
<1> DEFINE A == \A j \in Jobs :
                  state[j] # "succeeded" /\ state'[j] = "succeeded" =>
                    \A i \in existing : maker[i] = j => i \in Charged
<1>1. Inv /\ [Next]_vars => [A]_vars
  <2> SUFFICES ASSUME Inv, Next, NEW j \in Jobs,
                      state[j] # "succeeded", state'[j] = "succeeded",
                      NEW i \in existing, maker[i] = j
               PROVE  i \in Charged
    BY DEF vars
  <2>1. i \in Ids /\ phase[j] \notin Before \cup {"import"}
    BY DEF Inv, JobInv, MadeInv, TypeOK
  <2>2. PICK k \in Jobs :
          \/ SubmissionFails(k) \/ Start(k) \/ FirstPreflight(k) \/ Correct(k) \/ Recheck(k)
          \/ Import(k) \/ Reconcile(k) \/ Configure(k) \/ Verify(k) \/ Charge(k) \/ Finish(k)
          \/ CallFails(k)
    BY DEF Next, Submit, LateWrite, PoolChanges, Restart
  <2>3. CASE SubmissionFails(k)
    BY <2>3 DEF SubmissionFails, Inv, TypeOK
  <2>4. CASE Start(k)
    BY <2>4, StartType DEF Inv
  <2>5. CASE FirstPreflight(k) \/ Recheck(k)
    <3>1. phase[k] \in Before
      BY <2>5 DEF FirstPreflight, Recheck, Before
    <3>2. k # j
      BY <2>1, <3>1
    <3>3. state'[j] = state[j] \/ state'[j] # "succeeded"
      <4>1. ASSUME NEW s \in States, Ends(k, s) PROVE state'[j] = state[j]
        BY <3>2, <4>1, EndsTo DEF Inv
      <4>2. ASSUME NEW p \in Running, Persists(k, p) PROVE state'[j] # "succeeded"
        BY <4>2, PersistsTo DEF Inv
      <4>3. ASSUME Continues(k, Preflight(k)) PROVE state'[j] = state[j]
        BY <3>2, <4>3, ContinuesTo DEF Inv
      <4>4. "failed" \in States /\ "correct" \in Running
        BY DEF States, Running
      <4> QED BY <2>5, <4>1, <4>2, <4>3, <4>4 DEF FirstPreflight, Recheck
    <3> QED BY <3>3
  <2>6. CASE Correct(k)
    BY <2>6 DEF Correct
  <2>7. CASE Import(k)
    <3>1. plan[k].todo \subseteq content[k]
      BY <2>7 DEF Import, Inv, JobInv, PlanInv
    <3> QED BY <2>7, <3>1, ImportTo DEF Inv, Called
  <2>8. CASE Reconcile(k) \/ Configure(k) \/ Verify(k) \/ Charge(k) \/ CallFails(k)
    BY <2>8, ReconcileTo, ConfigureTo, VerifyTo, ChargeTo, CallFailsTo DEF Inv
  <2>9. CASE Finish(k)
    <3>1. k = j
      BY <2>9, FinishTo DEF Inv
    <3>2. phase[j] = "finish"
      BY <2>9, <3>1 DEF Finish
    <3> QED BY <3>2 DEF Inv, JobInv, MadeInv
  <2> QED BY <2>2, <2>3, <2>4, <2>5, <2>6, <2>7, <2>8, <2>9
<1> QED BY <1>1, InvariantHolds, PTL DEF Spec, SuccessIsFullyCharged
=============================================================================
