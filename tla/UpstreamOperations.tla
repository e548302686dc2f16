-------------------------- MODULE UpstreamOperations --------------------------
(***************************************************************************)
(* Operations on API-key upstreams: UpstreamManagementService submits them *)
(* to Temporal and keeps their content in memory                           *)
(* (src/src/upstream-management.ts); the worker sends them back to the API,*)
(* which executes them (src/src/worker-operation.ts,                       *)
(* src/src/upstream-onboarding.ts) and books recharges in a file           *)
(* (src/src/upstream-recharge-ledger.ts).                                  *)
(*                                                                         *)
(* An execution is one activity attempt.  Every call to Sub2API may fail   *)
(* before or after it took effect.  Attempts of one operation may overlap, *)
(* because a worker gives up on an answer the API still works on.          *)
(***************************************************************************)
EXTENDS Integers, FiniteSets, Sequences

CONSTANTS
  Ops,          \* operation ids, as callers choose them
  Execs,        \* attempts
  Requests,     \* what the operations may ask for: each an action, an upstream (base
                \* URL and suffix), a rate ("given" or "boot") and the amount of a
                \* recharge
  MaxAccounts,  \* bound: accounts Sub2API creates
  MaxFaults     \* bound: failing calls, lost answers, restarts

VARIABLES
  request,      \* content of each operation
  registering,  \* operations that Temporal accepted, not yet in the map
  pending,      \* pendingOperations
  accounts,     \* accounts of Sub2API
  keyed,        \* account each idempotency key of Sub2API has created
  entries,      \* the recharge ledger
  exec,         \* the attempts
  faults

operationVars == <<request, registering, pending, accounts, keyed, entries, exec, faults>>

Ids == 1 .. MaxAccounts
NoAccount == 0
Absent == [who |-> "nobody"]
Free == [stage |-> "free"]

Existing == {id \in Ids : accounts[id] # Absent}
\* accountQueryByIdentity(): base URL and suffix, whatever the rate; newest first.
ByIdentity(who) ==
  LET found == {id \in Existing : accounts[id].who = who}
  IN  IF found = {} THEN NoAccount ELSE CHOOSE id \in found : \A other \in found : other <= id

Init ==
  /\ request \in Requests
  /\ registering = {} /\ pending = {}
  /\ accounts = [id \in Ids |-> Absent]
  /\ keyed = [op \in Ops |-> NoAccount]
  /\ entries = <<>>
  /\ exec = [e \in Execs |-> Free]
  /\ faults = 0

-----------------------------------------------------------------------------
(* Steps of an attempt *)

Fault == faults < MaxFaults /\ faults' = faults + 1
At(e, stage) == exec[e].stage = stage
Req(e) == request[exec[e].op]
Account(e) == accounts[exec[e].account]

GoTo(e, stage) == exec' = [exec EXCEPT ![e].stage = stage]
Fail(e) == GoTo(e, "failed")
\* The action ends well: completeOperation() forgets its content.
Finish(e, status) ==
  /\ exec' = [exec EXCEPT ![e].stage = "done", ![e].status = status]
  /\ pending' = pending \ {exec[e].op}

Begin(op) ==
  \E e \in Execs :
    /\ exec[e] = Free /\ \A f \in Execs : exec[f] = Free => e = CHOOSE g \in Execs : exec[g] = Free
    /\ exec' = [exec EXCEPT ![e] = [stage |-> "claim", op |-> op, account |-> NoAccount, status |-> "none",
                                    warned |-> FALSE]]

-----------------------------------------------------------------------------
(* Submission *)

\* What the callers sent is checked before anything is submitted: a recharge has a
\* positive amount, a creation one or none.
ValidAmount(amount) == amount \in Nat \ {0}
Valid(req) == req.action = "recharge" \/ req.amount # 0 => ValidAmount(req.amount)

\* submitOperation(): an operation with this id is answered from the map; a new
\* one is started in Temporal, whose answer may be lost.
SubmitOperation(op) ==
  /\ op \notin pending /\ Valid(request[op])
  /\ Begin(op)
  /\ \/ registering' = registering \cup {op} /\ UNCHANGED faults
     \/ Fault /\ UNCHANGED registering
  /\ UNCHANGED <<request, pending, accounts, keyed, entries>>

Register(op) ==
  /\ op \in registering
  /\ registering' = registering \ {op} /\ pending' = pending \cup {op}
  /\ UNCHANGED <<request, accounts, keyed, entries, exec, faults>>

\* prunePendingOperations(), half an hour later.
Prune(op) ==
  /\ op \in pending /\ pending' = pending \ {op}
  /\ UNCHANGED <<request, registering, accounts, keyed, entries, exec, faults>>

\* A restart of the API ends every execution and forgets the operations.
Restart ==
  /\ Fault
  /\ registering' = {} /\ pending' = {}
  /\ exec' = [e \in Execs |-> IF At(e, "free") \/ At(e, "done") THEN exec[e]
                               ELSE [exec[e] EXCEPT !.stage = "failed"]]
  /\ UNCHANGED <<request, accounts, keyed, entries>>

\* The worker retries an attempt that failed or whose answer it no longer awaits.
Retry(e) ==
  /\ exec[e] # Free /\ ~ At(e, "done")
  /\ Begin(exec[e].op)
  /\ IF At(e, "failed") THEN UNCHANGED faults ELSE Fault
  /\ UNCHANGED <<request, registering, pending, accounts, keyed, entries>>

\* claimOperation()
Claim(e) ==
  /\ At(e, "claim")
  /\ IF exec[e].op \in pending THEN GoTo(e, Req(e).action) ELSE Fail(e)
  /\ UNCHANGED <<request, registering, pending, accounts, keyed, entries, faults>>

-----------------------------------------------------------------------------
(* create() *)

Aligned(id, req) == accounts[id].tuned /\ req.rate = "given"

\* An account with this identity is taken over; one that already looks as wanted
\* and needs no booking is not touched before its initialisation.
Lookup(e) ==
  /\ At(e, "create")
  /\ LET id == ByIdentity(Req(e).who) IN
     exec' = [exec EXCEPT ![e].account = id,
                          ![e].stage = IF id = NoAccount THEN "post"
                                       ELSE IF Req(e).amount = 0 /\ Aligned(id, Req(e)) THEN "template"
                                       ELSE "configure"]
  /\ UNCHANGED <<request, registering, pending, accounts, keyed, entries, faults>>

NewAccount(req) ==
  [who |-> req.who, rate |-> req.rate, tuned |-> TRUE, template |-> FALSE,
   bound |-> FALSE, isolated |-> FALSE, active |-> TRUE]

\* POST /admin/accounts/batch: Sub2API answers a known key with what it created,
\* and refuses a name that exists.
CreateAccount(e) ==
  /\ At(e, "post")
  /\ LET op == exec[e].op
         taken == {id \in Existing : accounts[id].who = Req(e).who /\ accounts[id].rate = Req(e).rate}
         fresh == Cardinality(Existing) + 1
         effect == /\ keyed[op] = NoAccount /\ taken = {} /\ fresh \in Ids
                   /\ accounts' = [accounts EXCEPT ![fresh] = NewAccount(Req(e))]
                   /\ keyed' = [keyed EXCEPT ![op] = fresh]
     IN \/ /\ effect
           /\ \/ exec' = [exec EXCEPT ![e].stage = "resolve", ![e].account = fresh] /\ UNCHANGED faults
              \/ GoTo(e, "resolve") /\ Fault
        \/ /\ keyed[op] # NoAccount
           /\ exec' = [exec EXCEPT ![e].stage = "resolve", ![e].account = keyed[op]]
           /\ UNCHANGED <<accounts, keyed, faults>>
        \/ keyed[op] = NoAccount /\ taken # {} /\ GoTo(e, "resolve") /\ UNCHANGED <<accounts, keyed, faults>>
        \/ GoTo(e, "resolve") /\ Fault /\ UNCHANGED <<accounts, keyed>>
  /\ UNCHANGED <<request, registering, pending, entries>>

\* resolveCreatedAccount(): by id, then three times by identity.
Resolved(e) == IF exec[e].account # NoAccount THEN exec[e].account ELSE ByIdentity(Req(e).who)

Resolve(e) ==
  /\ At(e, "resolve")
  /\ IF Resolved(e) = NoAccount THEN Fail(e)
     ELSE exec' = [exec EXCEPT ![e].stage = "configure", ![e].account = Resolved(e)]
  /\ UNCHANGED <<request, registering, pending, accounts, keyed, entries, faults>>

\* configureApiKeyAccounts() on some accounts: it takes effect or not, answered or not.
Configure(ids, fields) ==
  [id \in Ids |-> IF id \in ids \cap Existing
                  THEN [f \in DOMAIN accounts[id] |-> IF f \in DOMAIN fields THEN fields[f] ELSE accounts[id][f]]
                  ELSE accounts[id]]
Call(ids, fields) ==
  \/ accounts' = Configure(ids, fields)
  \/ UNCHANGED accounts

\* The settings of the account, the group of its probe among them; without them
\* the creation goes on with a warning.
PostProcess(e) ==
  /\ At(e, "configure")
  /\ LET fields == [tuned |-> TRUE, template |-> TRUE, isolated |-> Account(e).bound]
         next == IF Req(e).amount > 0 THEN "book" ELSE "detect"
     IN \/ accounts' = Configure({exec[e].account}, fields) /\ GoTo(e, next) /\ UNCHANGED faults
        \/ /\ Call({exec[e].account}, fields) /\ Fault
           /\ exec' = [exec EXCEPT ![e].stage = next, ![e].warned = TRUE]
  /\ UNCHANGED <<request, registering, pending, keyed, entries>>

-----------------------------------------------------------------------------
(* The recharge ledger *)

Entry(op, id, amount) == [op |-> op, account |-> id, amount |-> amount]

\* Faulty: an entry is looked up by its account.
RecordByAccount(op, id, amount) ==
  IF \E i \in DOMAIN entries : entries[i].account = id /\ entries[i].amount = amount THEN entries
  ELSE Append(entries, Entry(op, id, amount))

\* recordUpstreamRechargeCost(): one entry for an operation id.
RecordRecharge(op, id, amount) ==
  IF \E i \in DOMAIN entries : entries[i].op = op THEN entries
  ELSE Append(entries, Entry(op, id, amount))

\* An operation id that was used for another account is refused.
Conflicts(op, id, amount) ==
  \E i \in DOMAIN entries : entries[i].op = op /\ <<entries[i].account, entries[i].amount>> # <<id, amount>>

Book(e) ==
  /\ At(e, "book") \/ At(e, "recharge")
  /\ LET op == exec[e].op
         id == IF At(e, "book") THEN exec[e].account ELSE ByIdentity(Req(e).who)
         amount == Req(e).amount
     IN IF id = NoAccount \/ Conflicts(op, id, amount) THEN Fail(e) /\ UNCHANGED entries
        ELSE /\ entries' = RecordRecharge(op, id, amount)
             /\ exec' = [exec EXCEPT ![e].account = id, ![e].stage = IF At(e, "book") THEN "detect" ELSE "recover"]
  /\ UNCHANGED <<request, registering, pending, accounts, keyed, faults>>

\* Accounts to recover: those of the wallet that are off after a recharge, or the
\* account asked for.
RecoveryTargets(e) ==
  IF Req(e).action = "recharge" THEN {id \in Existing : ~ accounts[id].active}
  ELSE {ByIdentity(Req(e).who)} \ {NoAccount}

Recover(e) ==
  /\ At(e, "recover")
  /\ LET ids == RecoveryTargets(e)
     IN \/ accounts' = Configure(ids, [active |-> TRUE]) /\ Finish(e, "ok") /\ UNCHANGED faults
        \/ ids # {} /\ Call(ids, [active |-> TRUE]) /\ Fail(e) /\ Fault /\ UNCHANGED pending
  /\ UNCHANGED <<request, registering, keyed, entries>>

-----------------------------------------------------------------------------
(* Usage and rates *)

\* synchronizeDetectedRates(): the rate in the name of the account is the detected
\* one; without a multiplier a rate that nobody chose falls back.
DetectedRate(e, multiplier) ==
  IF multiplier THEN "detected"
  ELSE IF Req(e).action = "create" /\ Req(e).rate = "boot" THEN "fallback"
  ELSE Account(e).rate

Detect(e) ==
  /\ At(e, "detect")
  /\ \E multiplier \in BOOLEAN :
       LET rate == DetectedRate(e, multiplier)
       IN \/ accounts' = Configure({exec[e].account}, [rate |-> rate]) /\ UNCHANGED faults
          \/ Call({exec[e].account}, [rate |-> rate]) /\ Fault
  /\ IF Req(e).action = "create" THEN GoTo(e, "template") /\ UNCHANGED pending ELSE Finish(e, "ok")
  /\ UNCHANGED <<request, registering, keyed, entries>>

\* update(): a name, groups, and the template every time.  New groups replace the
\* old ones, that of the probe included.
Update(e) ==
  /\ At(e, "update")
  /\ LET id == ByIdentity(Req(e).who)
         fields == [rate |-> Req(e).rate, template |-> TRUE, tuned |-> FALSE, isolated |-> FALSE]
     IN IF id = NoAccount THEN Fail(e) /\ UNCHANGED <<accounts, faults, pending>>
        ELSE \/ accounts' = Configure({id}, fields) /\ Finish(e, "ok") /\ UNCHANGED faults
             \/ Call({id}, fields) /\ Fail(e) /\ Fault /\ UNCHANGED pending
  /\ UNCHANGED <<request, registering, keyed, entries>>

-----------------------------------------------------------------------------
(* initializeUpstreams() and verifyOnboardingProbes() *)

\* The accounts of an initialisation, a template, an isolation or a usage query;
\* one account stands for the several they may name.
Target(e) ==
  /\ exec[e].stage \in {"initialize", "align", "isolation", "usage"}
  /\ LET id == ByIdentity(Req(e).who)
         next == CASE At(e, "isolation") -> "isolate" [] At(e, "usage") -> "detect" [] OTHER -> "template"
     IN IF id # NoAccount
        THEN exec' = [exec EXCEPT ![e].account = id, ![e].stage = next] /\ UNCHANGED pending
        ELSE IF At(e, "initialize") THEN Fail(e) /\ UNCHANGED pending
        ELSE Finish(e, IF At(e, "isolation") THEN "partial" ELSE "ok")
  /\ UNCHANGED <<request, registering, accounts, keyed, entries, faults>>

\* The initialisation of an account that fails leaves it as it is.
Partial(e) == Finish(e, "partial")

Template(e) ==
  /\ At(e, "template")
  /\ \/ /\ accounts' = Configure({exec[e].account}, [template |-> TRUE]) /\ UNCHANGED faults
        /\ IF Req(e).action = "align" THEN Finish(e, "ok") ELSE GoTo(e, "isolate") /\ UNCHANGED pending
     \/ Call({exec[e].account}, [template |-> TRUE]) /\ Partial(e) /\ Fault
  /\ UNCHANGED <<request, registering, keyed, entries>>

Isolate(e) ==
  /\ At(e, "isolate")
  /\ \/ /\ accounts' = Configure({exec[e].account}, [bound |-> TRUE, isolated |-> TRUE]) /\ UNCHANGED faults
        /\ IF Req(e).action = "isolation" THEN Finish(e, "ok") ELSE GoTo(e, "verify") /\ UNCHANGED pending
     \/ Call({exec[e].account}, [bound |-> TRUE, isolated |-> TRUE]) /\ Partial(e) /\ Fault
  /\ UNCHANGED <<request, registering, keyed, entries>>

\* The account is read back before it is probed.
Verify(e) ==
  /\ At(e, "verify")
  /\ IF Account(e).template /\ Account(e).isolated THEN GoTo(e, "probe") /\ UNCHANGED pending ELSE Partial(e)
  /\ UNCHANGED <<request, registering, accounts, keyed, entries, faults>>

Probe(e) ==
  /\ At(e, "probe")
  /\ \/ Finish(e, "ready") /\ UNCHANGED faults
     \/ Partial(e) /\ Fault
  /\ UNCHANGED <<request, registering, accounts, keyed, entries>>

\* Sub2API switches an account off.
Suspend(id) ==
  /\ id \in Existing /\ accounts[id].active
  /\ Fault
  /\ accounts' = [accounts EXCEPT ![id].active = FALSE]
  /\ UNCHANGED <<request, registering, pending, keyed, entries, exec>>

Next ==
  \/ \E op \in Ops : SubmitOperation(op) \/ Register(op) \/ Prune(op)
  \/ \E e \in Execs :
       \/ Retry(e) \/ Claim(e)
       \/ Lookup(e) \/ CreateAccount(e) \/ Resolve(e) \/ PostProcess(e) \/ Book(e)
       \/ Recover(e) \/ Detect(e) \/ Update(e)
       \/ Target(e) \/ Template(e) \/ Isolate(e) \/ Verify(e) \/ Probe(e)
  \/ Restart
  \/ \E id \in Ids : Suspend(id)

-----------------------------------------------------------------------------
(* Properties *)

\* recordUpstreamRechargeCost() and completeOperation(): however often an
\* operation is submitted, retried or overlaps with itself, its recharge is
\* booked once, and one that ended well has booked it on the account it worked on.
RechargesBookedOnce ==
  /\ \A i, j \in DOMAIN entries : i # j => entries[i].op # entries[j].op
  /\ \A e \in Execs :
       exec[e] # Free /\ At(e, "done") /\ Req(e).amount > 0 =>
         Entry(exec[e].op, exec[e].account, Req(e).amount) \in {entries[i] : i \in DOMAIN entries}

-----------------------------------------------------------------------------
(* The inductive invariant *)

Actions == {"create", "recharge", "update", "usage", "recover", "initialize", "align", "isolation"}
Stages == Actions \cup {"claim", "post", "resolve", "configure", "book", "detect", "template", "isolate",
                        "verify", "probe", "done", "failed"}
Attempts == [stage : Stages, op : Ops, account : Ids \cup {NoAccount},
             status : {"none", "ok", "partial", "ready"}, warned : BOOLEAN]
Entries == [op : Ops, account : Ids \cup {NoAccount}, amount : Int]

TypeInv ==
  /\ request \in Requests
  /\ keyed \in [Ops -> Ids \cup {NoAccount}]
  /\ entries \in Seq(Entries)
  /\ exec \in [Execs -> {Free} \cup Attempts]

OneEntryInv == \A i, j \in DOMAIN entries : i # j => entries[i].op # entries[j].op

IsBooked(op, id, amount) == \E i \in DOMAIN entries : entries[i] = Entry(op, id, amount)

\* An attempt with a recharge has nothing else to do until it is booked, and works on
\* the account of the booking from then on.
AfterBooking == {"detect", "recover", "template", "isolate", "verify", "probe", "done"}
Elsewhere == {"update", "usage", "initialize", "align", "isolation"}

IsInOrder(attempt) ==
  request[attempt.op].amount > 0 =>
    /\ attempt.stage \notin Elsewhere
    /\ attempt.stage \in AfterBooking => IsBooked(attempt.op, attempt.account, request[attempt.op].amount)

BookingInv == \A e \in Execs : exec[e] # Free => IsInOrder(exec[e])

OperationsInv == TypeInv /\ OneEntryInv /\ BookingInv
=============================================================================
