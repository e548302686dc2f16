------------------------------ MODULE Purchases ------------------------------
(***************************************************************************)
(* Purchases of accounts from BugTeam (class BugTeamPurchaseImportService  *)
(* of src/src/bugteam-purchase-import-service.ts and BugTeamClient of      *)
(* src/src/bugteam-client.ts): quote, order under an idempotency key, wait *)
(* for the fulfilment, download, import at the price that was settled.     *)
(*                                                                         *)
(* Jobs live in the memory of the API process, which also executes the one *)
(* activity attempt of each; the import itself is module AccountImport,    *)
(* of which only the outcome matters here.  Amounts are in fen.            *)
(***************************************************************************)
EXTENDS Integers, FiniteSets

CONSTANTS
  JobCount,           \* bound: purchases that are submitted, numbered in order
  KeptJobs,           \* how many jobs the service keeps: 20
  Quantity,           \* accounts in an order
  Totals,             \* what an order may cost
  MaxPurchaseFaults   \* bound: failing calls and restarts

VARIABLES
  bought,      \* jobs submitted so far
  purchase,    \* the job as the API keeps it
  submission,  \* what the caller of submit() was told
  run,         \* the activity attempt: its stage and its copy of the job
  order,       \* the order BugTeam has under the key of the job
  download,    \* the downloaded file
  import,      \* the import job
  purchaseFaults

purchaseVars == <<bought, purchase, submission, run, order, download, import, purchaseFaults>>

PurchaseJobs == 1 .. JobCount
Gone == [state |-> "gone", known |-> FALSE, unit |-> 0]
Queued == [state |-> "queued", known |-> FALSE, unit |-> 0]
NoRun == [stage |-> "none", job |-> Queued]
NoOrder == [state |-> "none", total |-> 0]
NoImport == [state |-> "none", unit |-> 0]

Init ==
  /\ bought = 0
  /\ purchase = [j \in PurchaseJobs |-> Gone]
  /\ submission = [j \in PurchaseJobs |-> "none"]
  /\ run = [j \in PurchaseJobs |-> NoRun]
  /\ order = [j \in PurchaseJobs |-> NoOrder]
  /\ download = [j \in PurchaseJobs |-> "none"]
  /\ import = [j \in PurchaseJobs |-> NoImport]
  /\ purchaseFaults = 0

Fault == purchaseFaults < MaxPurchaseFaults /\ purchaseFaults' = purchaseFaults + 1

-----------------------------------------------------------------------------
(* submit() *)

Submit ==
  /\ bought < JobCount
  /\ bought' = bought + 1
  /\ purchase' = [j \in PurchaseJobs |->
       IF j = bought' THEN Queued ELSE IF j <= bought' - KeptJobs THEN Gone ELSE purchase[j]]
  /\ submission' = [submission EXCEPT ![bought'] = "pending"]
  /\ UNCHANGED <<run, order, download, import, purchaseFaults>>

\* Temporal starts the workflow, whether or not submit() learns of it.
Started(j) ==
  /\ submission[j] = "pending" /\ run[j].stage = "none"
  /\ run' = [run EXCEPT ![j].stage = "start"]
  /\ UNCHANGED <<bought, purchase, submission, order, download, import, purchaseFaults>>

Submitted(j) ==
  /\ submission[j] = "pending" /\ run[j].stage # "none"
  /\ submission' = [submission EXCEPT ![j] = "accepted"]
  /\ UNCHANGED <<bought, purchase, run, order, download, import, purchaseFaults>>

\* The deadline of submit() passes: the job fails, even if it has started.
SubmissionFails(j) ==
  /\ submission[j] = "pending" /\ Fault
  /\ submission' = [submission EXCEPT ![j] = IF run[j].stage \in {"none", "start"} THEN "refused" ELSE "failed"]
  /\ purchase' = IF purchase[j] = Gone THEN purchase ELSE [purchase EXCEPT ![j].state = "failed"]
  /\ UNCHANGED <<bought, run, order, download, import>>

-----------------------------------------------------------------------------
(* runWorker() *)

\* persist() replaces the job; it throws for a job that is no longer kept, and so
\* does the persist() of the catch block.
Persist(j, job, stage) ==
  IF purchase[j] = Gone
  THEN run' = [run EXCEPT ![j].stage = "done"] /\ UNCHANGED purchase
  ELSE /\ purchase' = [purchase EXCEPT ![j] = job]
       /\ run' = [run EXCEPT ![j] = [stage |-> stage, job |-> job]]

Fails(j) == Persist(j, [run[j].job EXCEPT !.state = "failed"], "done")

\* A call of a step fails.
StepFails(j) ==
  /\ run[j].stage \in {"quote", "order", "wait", "download", "import", "imported"}
  /\ Fault
  /\ Fails(j)
  /\ UNCHANGED <<bought, submission, order, download, import>>

\* Faulty: a job that has failed is run as well.
RunsAny(j) == purchase[j] # Gone

Runs(j) == purchase[j].state \notin {"gone", "succeeded", "failed"}

Read(j) ==
  /\ run[j].stage = "start"
  /\ IF Runs(j)
     THEN Persist(j, [purchase[j] EXCEPT !.state = "running"], "quote")
     ELSE run' = [run EXCEPT ![j].stage = "done"] /\ UNCHANGED purchase
  /\ UNCHANGED <<bought, submission, order, download, import, purchaseFaults>>

\* The lowest shelf that has the whole quantity; without one the job fails.
Quote(j) ==
  /\ run[j].stage = "quote"
  /\ Persist(j, run[j].job, "order") \/ Fails(j)
  /\ UNCHANGED <<bought, submission, order, download, import, purchaseFaults>>

\* The key of the order is the job: BugTeam creates one order for it.
CreateOrder(j) ==
  /\ run[j].stage = "order"
  /\ \E total \in Totals :
       order' = IF order[j] = NoOrder THEN [order EXCEPT ![j] = [state |-> "open", total |-> total]] ELSE order
  /\ \/ Persist(j, [run[j].job EXCEPT !.known = TRUE], "wait") /\ UNCHANGED purchaseFaults
     \/ Fault /\ Fails(j)
  /\ UNCHANGED <<bought, submission, download, import>>

Fulfil(j) ==
  /\ order[j].state = "open"
  /\ \E s \in {"completed", "cancelled"} : order' = [order EXCEPT ![j].state = s]
  /\ UNCHANGED <<bought, purchase, submission, run, download, import, purchaseFaults>>

\* Faulty: the price of an account is cut off.
UnitCut(total) == total \div Quantity

\* The price of an account, rounded to a fen.
Unit(total) == (2 * total + Quantity) \div (2 * Quantity)

OrderStatus(j) ==
  /\ run[j].stage = "wait" /\ order[j].state # "open"
  /\ IF order[j].state = "completed"
     THEN Persist(j, [run[j].job EXCEPT !.unit = Unit(order[j].total)], "download")
     ELSE Fails(j)
  /\ UNCHANGED <<bought, submission, order, download, import, purchaseFaults>>

\* writeResponseFile() creates the file before it has the bytes; a file that is
\* there is used as it is.
Download(j) ==
  /\ run[j].stage = "download"
  /\ \/ download[j] = "none" /\ download' = [download EXCEPT ![j] = "whole"]
        /\ Persist(j, run[j].job, "import") /\ UNCHANGED purchaseFaults
     \/ download[j] = "none" /\ download' = [download EXCEPT ![j] = "partial"] /\ Fault /\ Fails(j)
     \/ download[j] # "none" /\ Persist(j, run[j].job, "import") /\ UNCHANGED <<download, purchaseFaults>>
  /\ UNCHANGED <<bought, submission, order, import>>

SubmitImport(j) ==
  /\ run[j].stage = "import"
  /\ IF download[j] = "whole"
     THEN /\ import' = [import EXCEPT ![j] = [state |-> "queued", unit |-> run[j].job.unit]]
          /\ Persist(j, run[j].job, "imported")
     ELSE Fails(j) /\ UNCHANGED import
  /\ UNCHANGED <<bought, submission, order, download, purchaseFaults>>

ImportEnds(j) ==
  /\ import[j].state = "queued"
  /\ \E s \in {"succeeded", "failed"} : import' = [import EXCEPT ![j].state = s]
  /\ UNCHANGED <<bought, purchase, submission, run, order, download, purchaseFaults>>

ImportStatus(j) ==
  /\ run[j].stage = "imported" /\ import[j].state # "queued"
  /\ IF import[j].state = "succeeded"
     THEN Persist(j, [run[j].job EXCEPT !.state = "succeeded"], "done")
     ELSE Fails(j)
  /\ UNCHANGED <<bought, submission, order, download, import, purchaseFaults>>

\* The jobs and their runs end with the process.
Restart ==
  /\ Fault
  /\ purchase' = [j \in PurchaseJobs |-> Gone]
  /\ run' = [j \in PurchaseJobs |-> IF run[j].stage \in {"none", "start"} THEN run[j] ELSE [run[j] EXCEPT !.stage = "done"]]
  /\ submission' = [j \in PurchaseJobs |-> IF submission[j] = "pending" THEN "lost" ELSE submission[j]]
  /\ UNCHANGED <<bought, order, download, import>>

Next ==
  \/ Submit \/ Restart
  \/ \E j \in PurchaseJobs :
       \/ Started(j) \/ Submitted(j) \/ SubmissionFails(j) \/ StepFails(j) \/ Read(j) \/ Quote(j)
       \/ CreateOrder(j) \/ Fulfil(j) \/ OrderStatus(j) \/ Download(j) \/ SubmitImport(j)
       \/ ImportEnds(j) \/ ImportStatus(j)

-----------------------------------------------------------------------------
(* Properties *)

\* runWorker(): a job that succeeded has a fulfilled order, whose accounts were all
\* imported at what they cost, up to the rounding of one price; a job that submit()
\* reported as failed before it ran buys nothing, whatever Temporal does; and a job
\* that is kept names its order as soon as BugTeam has told.
PurchasesAreAccounted ==
  \A j \in PurchaseJobs :
    /\ purchase[j].state = "succeeded" =>
         /\ order[j].state = "completed" /\ import[j].state = "succeeded"
         /\ 2 * (Quantity * import[j].unit - order[j].total) \in - Quantity .. Quantity
    /\ submission[j] = "refused" => order[j] = NoOrder
    /\ run[j].stage \in {"wait", "download", "import", "imported"} /\ purchase[j] # Gone => purchase[j].known

-----------------------------------------------------------------------------
(* The inductive invariant behind the properties *)

Jobs == [state : {"gone", "queued", "running", "succeeded", "failed"}, known : BOOLEAN, unit : Int]
RunStages == {"none", "start", "quote", "order", "wait", "download", "import", "imported", "done"}

TypeInv ==
  /\ bought \in 0 .. JobCount
  /\ purchase \in [PurchaseJobs -> Jobs]
  /\ submission \in [PurchaseJobs -> {"none", "pending", "accepted", "refused", "failed", "lost"}]
  /\ run \in [PurchaseJobs -> [stage : RunStages, job : Jobs]]
  /\ order \in [PurchaseJobs -> [state : {"none", "open", "completed", "cancelled"}, total : Nat]]
  /\ import \in [PurchaseJobs -> [state : {"none", "queued", "succeeded", "failed"}, unit : Int]]

\* What was not submitted has not begun; what was refused does not begin.
BeginInv(j) ==
  /\ j > bought => submission[j] = "none" /\ run[j].stage = "none"
  /\ submission[j] = "refused" => run[j].stage \in {"none", "start", "done"} /\ order[j] = NoOrder
                                  /\ purchase[j].state \in {"gone", "failed"}
  /\ run[j].stage \in {"none", "start", "quote"} => order[j] = NoOrder

\* How far a run is, and what it has in hand.
RunInv(j) ==
  /\ purchase[j].state = "gone" => purchase[j] = Gone
  /\ run[j].stage \in RunStages \ {"none", "start", "done"} => run[j].job.state = "running"
  /\ run[j].stage \in {"wait", "download", "import", "imported"} =>
       /\ run[j].job.known /\ order[j] # NoOrder
       /\ purchase[j] # Gone => purchase[j].known
  /\ run[j].stage \in {"download", "import", "imported"} =>
       order[j].state = "completed" /\ run[j].job.unit = Unit(order[j].total)
  /\ run[j].stage = "imported" => import[j].unit = Unit(order[j].total)
  /\ purchase[j].state = "succeeded" =>
       /\ run[j].stage = "done" /\ order[j].state = "completed"
       /\ import[j].state = "succeeded" /\ import[j].unit = Unit(order[j].total)

PurchaseInv == TypeInv /\ \A j \in PurchaseJobs : BeginInv(j) /\ RunInv(j)
=============================================================================
