---------------------------- MODULE PublicRecovery ----------------------------
(***************************************************************************)
(* Public recovery jobs: the command line revives an OAuth account with a  *)
(* redemption code and imports what it gets as a copy of the old account   *)
(* (PublicRecoveryJobManager of src/src/public-recovery-job.ts and         *)
(* PublicRecoveryClient of src/src/public-recovery-client.ts).             *)
(*                                                                         *)
(* The job is a file that `continue` reads, and that `retry` and a detached*)
(* worker process read, change and write.  Nothing keeps two workers of a job  *)
(* apart: the latest write of the file wins.                               *)
(***************************************************************************)
EXTENDS Integers, Sequences

CONSTANTS
  Workers,            \* worker processes
  MaxImports,         \* bound: imports of a job
  MaxRecoveryFaults   \* bound: failing calls, processes that end, stages asked for by name

VARIABLES
  recoveryJob,    \* the file of the job
  worker,         \* each worker: its stage, how far it is, its copy of the job
  card,           \* the service of the card: does it need a reclaim, was it reclaimed
  retries,        \* stages asked for by name (retry --stage)
  output,         \* the downloaded file
  imports,        \* imports the API accepted: state and whether the file was whole
  verified,       \* imports whose accounts were seen with the captured configuration
  recoveryFaults

recoveryVars == <<recoveryJob, worker, card, retries, output, imports, verified, recoveryFaults>>

Stages == {"health", "reclaim", "status", "download", "import-submit", "import-status", "verify"}
Steps == {"free", "named", "begin", "started", "act", "save"}
NoImport == 0
\* `revived` stands for revivedAccountIds: the import that created them.
NewJob == [state |-> "queued", next |-> "health", import |-> NoImport, revived |-> NoImport]
Free == [stage |-> "health", step |-> "free", job |-> NewJob]

\* create(): the configuration of the account is frozen with the job.
Init ==
  /\ recoveryJob = NewJob
  /\ worker = [w \in Workers |-> Free]
  /\ card \in [needs : BOOLEAN, reclaimed : {FALSE}]
  /\ retries = {}
  /\ output = "none"
  /\ imports = <<>>
  /\ verified = {}
  /\ recoveryFaults = 0

Fault == recoveryFaults < MaxRecoveryFaults /\ recoveryFaults' = recoveryFaults + 1

-----------------------------------------------------------------------------
(* launch() *)

Launch(w, stage) ==
  worker' = [worker EXCEPT ![w] = [stage |-> stage, step |-> "begin", job |-> NewJob]]

Continue(w) ==
  /\ worker[w].step = "free" /\ recoveryJob.state # "succeeded" /\ recoveryJob.next \in Stages
  /\ Launch(w, recoveryJob.next)
  /\ UNCHANGED <<recoveryJob, card, retries, output, imports, verified, recoveryFaults>>

\* retry names the stage: it reads the job, and saves it before the worker starts.
Retry(w, stage) ==
  /\ worker[w].step = "free" /\ recoveryJob.state # "succeeded"
  /\ Fault
  /\ retries' = retries \cup {stage}
  /\ worker' = [worker EXCEPT ![w] =
       [stage |-> stage, step |-> "named", job |-> [recoveryJob EXCEPT !.next = stage]]]
  /\ UNCHANGED <<recoveryJob, card, output, imports, verified>>

SaveNamed(w) ==
  /\ worker[w].step = "named"
  /\ recoveryJob' = worker[w].job
  /\ Launch(w, worker[w].stage)
  /\ UNCHANGED <<card, retries, output, imports, verified, recoveryFaults>>

-----------------------------------------------------------------------------
(* run() *)

\* The worker reads the job, and saves that it runs.
Begin(w) ==
  /\ worker[w].step = "begin"
  /\ worker' = [worker EXCEPT ![w].step = "started", ![w].job = [recoveryJob EXCEPT !.state = "running"]]
  /\ UNCHANGED <<recoveryJob, card, retries, output, imports, verified, recoveryFaults>>

SaveStarted(w) ==
  /\ worker[w].step = "started"
  /\ recoveryJob' = worker[w].job
  /\ worker' = [worker EXCEPT ![w].step = "act"]
  /\ UNCHANGED <<card, retries, output, imports, verified, recoveryFaults>>

\* What the worker will save when its stage is over.
Done(w, job) == worker' = [worker EXCEPT ![w].step = "save", ![w].job = job]

Then(w, stage) == [worker[w].job EXCEPT !.state = "waiting", !.next = stage]

\* A stage that fails comes next.
Failed(w) == [worker[w].job EXCEPT !.state = "failed", !.next = worker[w].stage]

Acts(w, stage) == worker[w].step = "act" /\ worker[w].stage = stage

\* Faulty: whatever the health check says, the card is reclaimed.
AlwaysReclaims == "reclaim"

AfterHealth == IF card.needs THEN "reclaim" ELSE "status"

Health(w) ==
  /\ Acts(w, "health")
  /\ Done(w, Then(w, AfterHealth))
  /\ UNCHANGED <<recoveryJob, card, retries, output, imports, verified, recoveryFaults>>

Reclaim(w) ==
  /\ Acts(w, "reclaim")
  /\ card' = [card EXCEPT !.reclaimed = TRUE]
  /\ \/ Done(w, Then(w, "status")) /\ UNCHANGED recoveryFaults
     \/ Fault /\ Done(w, Failed(w))
  /\ UNCHANGED <<recoveryJob, retries, output, imports, verified>>

Status(w) ==
  /\ Acts(w, "status")
  /\ Done(w, Then(w, "download"))
  /\ UNCHANGED <<recoveryJob, card, retries, output, imports, verified, recoveryFaults>>

\* Faulty: the file is written in place.
Linked == output' \in {"partial", "whole"}

\* link(): the file is there as a whole, or not at all.
Published == output' = "whole"

\* download(): an output that is there is an error, not a result.
Download(w) ==
  /\ Acts(w, "download") /\ output = "none"
  /\ Published
  /\ Done(w, Then(w, "import-submit"))
  /\ UNCHANGED <<recoveryJob, card, retries, imports, verified, recoveryFaults>>

\* accountImport() with allowDuplicate: accepted, even when the answer gets lost.
ImportSubmit(w) ==
  /\ Acts(w, "import-submit") /\ output # "none" /\ Len(imports) < MaxImports
  /\ imports' = Append(imports, [state |-> "queued", whole |-> output = "whole"])
  /\ \/ Done(w, [Then(w, "import-status") EXCEPT !.import = Len(imports')]) /\ UNCHANGED recoveryFaults
     \/ Fault /\ Done(w, Failed(w))
  /\ UNCHANGED <<recoveryJob, card, retries, output, verified>>

ImportEnds(i) ==
  /\ i \in DOMAIN imports /\ imports[i].state = "queued"
  /\ \E s \in {"succeeded", "failed"} : imports' = [imports EXCEPT ![i].state = s]
  /\ UNCHANGED <<recoveryJob, worker, card, retries, output, verified, recoveryFaults>>

\* accountImportStatus(): there is no state without the id of an import.
StateOf(job) == IF job.import = NoImport THEN "none" ELSE imports[job.import].state

ImportStatus(w) ==
  /\ Acts(w, "import-status")
  /\ LET job == worker[w].job
     IN \/ /\ StateOf(job) = "succeeded"
           /\ Done(w, [Then(w, "verify") EXCEPT !.revived = job.import])
        \/ /\ StateOf(job) = "queued"
           /\ Done(w, Then(w, "import-status"))
  /\ UNCHANGED <<recoveryJob, card, retries, output, imports, verified, recoveryFaults>>

Verify(w) ==
  /\ Acts(w, "verify") /\ worker[w].job.revived # NoImport
  /\ verified' = verified \cup {worker[w].job.revived}
  /\ Done(w, [worker[w].job EXCEPT !.state = "succeeded", !.next = "none"])
  /\ UNCHANGED <<recoveryJob, card, retries, output, imports, recoveryFaults>>

\* What a stage cannot do without; the verification may fail for what it sees.
CannotAct(w) ==
  \/ Acts(w, "download") /\ output # "none"
  \/ Acts(w, "import-submit") /\ output = "none"
  \/ Acts(w, "import-status") /\ StateOf(worker[w].job) \in {"none", "failed"}
  \/ Acts(w, "verify")

Fails(w) ==
  /\ worker[w].step = "act"
  /\ \/ CannotAct(w) /\ UNCHANGED recoveryFaults
     \/ Fault
  /\ Done(w, Failed(w))
  /\ UNCHANGED <<recoveryJob, card, retries, output, imports, verified>>

Save(w) ==
  /\ worker[w].step = "save"
  /\ recoveryJob' = worker[w].job
  /\ worker' = [worker EXCEPT ![w] = Free]
  /\ UNCHANGED <<card, retries, output, imports, verified, recoveryFaults>>

\* The process of a worker, or of the command that names a stage, ends.
Ends(w) ==
  /\ worker[w].step # "free" /\ Fault
  /\ worker' = [worker EXCEPT ![w] = Free]
  /\ UNCHANGED <<recoveryJob, card, retries, output, imports, verified>>

Next ==
  \/ \E w \in Workers :
       \/ Continue(w) \/ Begin(w) \/ Health(w) \/ Reclaim(w) \/ Status(w) \/ Download(w)
       \/ ImportSubmit(w) \/ ImportStatus(w) \/ Verify(w) \/ Fails(w) \/ Save(w) \/ Ends(w)
       \/ SaveNamed(w) \/ SaveStarted(w) \/ \E stage \in Stages : Retry(w, stage)
  \/ \E i \in 1 .. MaxImports : ImportEnds(i)

-----------------------------------------------------------------------------
(* Properties *)

\* run() and download(), with two workers on one file that each save what they read
\* earlier: every import had the whole download; a job that succeeded has an import that
\* succeeded and whose accounts were verified; and a card is reclaimed because it needs
\* it or because a user named the stage.
RecoveriesAreSound ==
  /\ \A i \in DOMAIN imports : imports[i].whole
  /\ recoveryJob.state = "succeeded" =>
       recoveryJob.revived \in verified /\ imports[recoveryJob.revived].state = "succeeded"
  /\ card.reclaimed => card.needs \/ "reclaim" \in retries

-----------------------------------------------------------------------------
(* The inductive invariant behind the properties *)

Copies ==
  [state : {"queued", "running", "waiting", "failed", "succeeded"}, next : Stages \cup {"none"},
   import : Nat, revived : Nat]

\* Imports of the whole file.
Accepted == [state : {"queued", "succeeded", "failed"}, whole : {TRUE}]

TypeInv ==
  /\ recoveryJob \in Copies
  /\ worker \in [Workers -> [stage : Stages, step : Steps, job : Copies]]
  /\ card \in [needs : BOOLEAN, reclaimed : BOOLEAN]
  /\ output \in {"none", "whole"}
  /\ imports \in Seq(Accepted)

MayReclaim == card.needs \/ "reclaim" \in retries

\* What holds of a copy of the job, however old it is.
CopyInv(job) ==
  /\ job.import \in 0 .. Len(imports) /\ job.revived \in 0 .. Len(imports)
  /\ job.revived # NoImport => imports[job.revived].state = "succeeded"
  /\ job.state = "succeeded" => job.revived # NoImport /\ job.revived \in verified
  /\ job.next = "reclaim" => MayReclaim

RecoveryInv ==
  /\ TypeInv
  /\ CopyInv(recoveryJob)
  /\ \A w \in Workers : CopyInv(worker[w].job) /\ (worker[w].stage = "reclaim" => MayReclaim)
  /\ card.reclaimed => MayReclaim
=============================================================================
