-------------------------------- MODULE Lottery --------------------------------
(***************************************************************************)
(* The lottery: LotteryService (src/src/lottery-service.ts) and its SQLite *)
(* store (src/src/store.ts).                                               *)
(*                                                                         *)
(* A draw holds the mutex of the service from the check for a chance to    *)
(* the answer of Sub2API about the credit.  Administrators reset the       *)
(* chances and delete records without the mutex.  The store survives a     *)
(* restart, the draws under way do not.                                    *)
(***************************************************************************)
EXTENDS Integers, FiniteSets, Sequences, SequencesExt

CONSTANTS
  Draws,         \* requests to draw
  InitialCount,  \* chances when the store is new
  PerDay,        \* chances granted each day
  MaxDay,        \* bound: days that pass
  MaxResets,     \* bound: resets by administrators, to 0 or 1 chances
  MaxFailures    \* bound: failing calls and restarts

VARIABLES
  creditMode,  \* configuration of the automatic credit
  day,         \* day of the latest grant
  lastGrant,   \* last_grant_key, 0 when there is none
  remaining,   \* remaining_draws
  records,     \* creditStatus of the record of each draw
  line,        \* the mutex: draws that wait for it, its holder first
  stage,       \* where each draw is
  paid,        \* how often Sub2API has added the prize of a draw
  overdue,     \* draws whose failed credit may still take effect
  base,        \* chances when they were last set, and on which day
  spent,       \* chances used since
  resets,
  failures

lotteryVars == <<creditMode, day, lastGrant, remaining, records, line, stage,
                 paid, overdue, base, spent, resets, failures>>
counters == <<remaining, lastGrant, base, spent>>

Init ==
  /\ creditMode \in {"disabled", "dry_run", "live"}
  /\ day = 1 /\ lastGrant = 0 /\ remaining = 0
  /\ records = [d \in Draws |-> "none"]
  /\ line = <<>>
  /\ stage = [d \in Draws |-> "idle"]
  /\ paid = [d \in Draws |-> 0]
  /\ overdue = {}
  /\ base = [count |-> 0, day |-> 0] /\ spent = 0
  /\ resets = 0 /\ failures = 0

Fails == failures < MaxFailures /\ failures' = failures + 1

\* Setting the chances starts a new account of them.
SetChances(n) ==
  /\ remaining' = n /\ lastGrant' = day
  /\ base' = [count |-> n, day |-> day] /\ spent' = 0

\* reconcileGrants(): the days since the last grant are granted together.
ReconcileGrants ==
  IF lastGrant = 0 THEN SetChances(InitialCount)
  ELSE /\ remaining' = remaining + PerDay * (day - lastGrant)
       /\ lastGrant' = day
       /\ UNCHANGED <<base, spent>>

Leave(d, s) == line' = Tail(line) /\ stage' = [stage EXCEPT ![d] = s]

-----------------------------------------------------------------------------
(* draw() *)

Request(d) ==
  /\ stage[d] = "idle"
  /\ stage' = [stage EXCEPT ![d] = "waiting"]
  /\ line' = Append(line, d)
  /\ UNCHANGED <<creditMode, day, counters, records, paid, overdue, resets, failures>>

\* The holder of the mutex looks for a chance and asks for the eligible users.
Enter(d) ==
  /\ stage[d] = "waiting" /\ Head(line) = d
  /\ ReconcileGrants
  /\ IF remaining' < 1 THEN Leave(d, "refused")
     ELSE stage' = [stage EXCEPT ![d] = "listing"] /\ UNCHANGED line
  /\ UNCHANGED <<creditMode, day, records, paid, overdue, resets, failures>>

\* Faulty: the chance seen before the users were listed is relied upon.
CreateDrawUnchecked(d) ==
  /\ remaining' = remaining - 1 /\ spent' = spent + 1
  /\ records' = [records EXCEPT ![d] = IF creditMode = "live" THEN "pending" ELSE creditMode]

\* Faulty: the record waits for the credit.
CreateDrawLater(d) ==
  /\ remaining > 0
  /\ remaining' = remaining - 1 /\ spent' = spent + 1
  /\ records' = [records EXCEPT ![d] = IF creditMode = "live" THEN "none" ELSE creditMode]

\* createDraw(): the record and its chance, in one transaction.
CreateDraw(d) ==
  /\ remaining > 0
  /\ remaining' = remaining - 1 /\ spent' = spent + 1
  /\ records' = [records EXCEPT ![d] = IF creditMode = "live" THEN "pending" ELSE creditMode]

\* The users are listed: somebody wins, or the draw ends with an error.
Draw(d) ==
  /\ stage[d] = "listing"
  /\ CreateDraw(d)
  /\ IF creditMode = "live" THEN stage' = [stage EXCEPT ![d] = "crediting"] /\ UNCHANGED line
                            ELSE Leave(d, "drawn")
  /\ UNCHANGED <<creditMode, day, lastGrant, base, paid, overdue, resets, failures>>

NoDraw(d) ==
  /\ stage[d] = "listing"
  /\ Leave(d, "refused")
  /\ \/ remaining < 1 /\ UNCHANGED failures
     \/ Fails
  /\ UNCHANGED <<creditMode, day, counters, records, paid, overdue, resets>>

\* updateCredit() finds no record that was deleted meanwhile and throws.
Credited(d, status) ==
  IF records[d] = "deleted" THEN Leave(d, "unrecorded") /\ UNCHANGED records
  ELSE Leave(d, "drawn") /\ records' = [records EXCEPT ![d] = status]

\* addBalance() answers, or fails before, after or long before it takes effect.
Credit(d) ==
  /\ stage[d] = "crediting"
  /\ \/ /\ Credited(d, "succeeded")
        /\ paid' = [paid EXCEPT ![d] = @ + 1]
        /\ UNCHANGED <<overdue, failures>>
     \/ /\ Credited(d, "failed")
        /\ \/ UNCHANGED <<paid, overdue>>
           \/ paid' = [paid EXCEPT ![d] = @ + 1] /\ UNCHANGED overdue
           \/ overdue' = overdue \cup {d} /\ UNCHANGED paid
        /\ Fails
  /\ UNCHANGED <<creditMode, day, counters, resets>>

LateCredit(d) ==
  /\ d \in overdue
  /\ overdue' = overdue \ {d}
  /\ paid' = [paid EXCEPT ![d] = @ + 1]
  /\ UNCHANGED <<creditMode, day, counters, records, line, stage, resets, failures>>

-----------------------------------------------------------------------------
(* Administrators, time, restarts *)

\* status() is read by anybody at any time.
Status ==
  /\ ReconcileGrants
  /\ UNCHANGED <<creditMode, day, records, line, stage, paid, overdue, resets, failures>>

Reset(n, withRecords) ==
  /\ resets < MaxResets /\ resets' = resets + 1
  /\ SetChances(n)
  /\ records' = IF withRecords THEN [d \in Draws |-> IF records[d] = "none" THEN "none" ELSE "deleted"]
                               ELSE records
  /\ UNCHANGED <<creditMode, day, line, stage, paid, overdue, failures>>

DeleteRecord(d) ==
  /\ records[d] \notin {"none", "deleted"}
  /\ records' = [records EXCEPT ![d] = "deleted"]
  /\ UNCHANGED <<creditMode, day, counters, line, stage, paid, overdue, resets, failures>>

DayPasses ==
  /\ day < MaxDay /\ day' = day + 1
  /\ UNCHANGED <<creditMode, counters, records, line, stage, paid, overdue, resets, failures>>

\* A credit under way may have reached Sub2API.
Restart ==
  /\ Fails
  /\ line' = <<>>
  /\ stage' = [d \in Draws |-> IF stage[d] \in {"waiting", "listing", "crediting"} THEN "lost" ELSE stage[d]]
  /\ overdue' = overdue \cup {d \in Draws : stage[d] = "crediting"}
  /\ UNCHANGED <<creditMode, day, counters, records, paid, resets>>

Next ==
  \/ \E d \in Draws : Request(d) \/ Enter(d) \/ Draw(d) \/ NoDraw(d) \/ Credit(d) \/ LateCredit(d)
                        \/ DeleteRecord(d)
  \/ Status
  \/ \E n \in 0 .. 1, withRecords \in BOOLEAN : Reset(n, withRecords)
  \/ DayPasses
  \/ Restart

-----------------------------------------------------------------------------
(* Properties *)

\* draw() runs under the mutex: from the look for a chance to the answer about the
\* credit no two draws overlap, and a restart leaves no holder behind.
OneDrawAtATime ==
  \A d \in Draws : stage[d] \in {"listing", "crediting"} => line # <<>> /\ Head(line) = d

\* store.ts: every chance comes from the initial count, a reset or a day, each
\* granted once however many readers reconcile, and is used by one draw; a draw
\* that was overtaken by a reset does not overdraw.
ChancesAreAccounted ==
  /\ remaining >= 0
  /\ remaining + spent = base.count + PerDay * (lastGrant - base.day)

\* draw(): a prize is paid once and never without a record made before; what a
\* record reports as succeeded was paid; no draw under way loses its record but
\* to an administrator.
PrizesAreRecorded ==
  \A d \in Draws :
    /\ paid[d] + (IF d \in overdue THEN 1 ELSE 0) <= 1
    /\ paid[d] = 1 => records[d] \in {"pending", "succeeded", "failed", "deleted"}
    /\ records[d] = "succeeded" => paid[d] = 1

-----------------------------------------------------------------------------
(* Inductive invariants *)

ChancesTypeInv ==
  /\ day \in Nat /\ lastGrant \in Nat /\ remaining \in Nat /\ spent \in Nat
  /\ base \in [count : Nat, day : Nat]

\* The grants of the past are never later than today, so that reconciling takes no
\* chance away.
ChancesInv == ChancesTypeInv /\ lastGrant <= day /\ ChancesAreAccounted

Modes == {"disabled", "dry_run", "live"}
Statuses == {"none", "pending", "succeeded", "failed", "deleted"} \cup Modes
Stages == {"idle", "waiting", "listing", "crediting", "drawn", "refused", "unrecorded", "lost"}

PrizesTypeInv ==
  /\ creditMode \in Modes
  /\ records \in [Draws -> Statuses]
  /\ stage \in [Draws -> Stages]
  /\ paid \in [Draws -> Nat]
  /\ overdue \subseteq Draws

\* A prize is due from its record on: none before, and none paid while Sub2API has
\* not answered; a credit that is overdue was not paid, whatever its record says.
DueInv ==
  \A d \in Draws :
    /\ stage[d] \in {"idle", "waiting", "listing"} =>
         records[d] = "none" /\ paid[d] = 0 /\ d \notin overdue
    /\ stage[d] = "crediting" =>
         records[d] \in {"pending", "deleted"} /\ paid[d] = 0 /\ d \notin overdue
    /\ d \in overdue => paid[d] = 0 /\ records[d] \in {"pending", "failed", "deleted"}

PrizesInv == PrizesTypeInv /\ DueInv /\ PrizesAreRecorded

\* The line holds the draws under way, each once, and only its first has gone on.
MutexInv ==
  /\ line \in Seq(Draws)
  /\ \A i, j \in 1 .. Len(line) : line[i] = line[j] => i = j
  /\ \A i \in 1 .. Len(line) : i > 1 => stage[line[i]] = "waiting"
  /\ \A i \in 1 .. Len(line) : stage[line[i]] \in {"waiting", "listing", "crediting"}
  /\ \A d \in Draws : stage[d] \in {"waiting", "listing", "crediting"} =>
       \E i \in 1 .. Len(line) : line[i] = d

LotteryInv == ChancesInv /\ PrizesInv /\ MutexInv
=============================================================================
