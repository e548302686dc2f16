------------------------------- MODULE ModelSync -------------------------------
(***************************************************************************)
(* The model synchronisation of one scope: modelSyncPlan() and             *)
(* runModelSync() of OperationsService (src/src/operations-service.ts) and *)
(* the tables of rounds and their accounts (src/src/operations-store.ts).  *)
(*                                                                         *)
(* Automatic rounds take the accounts in turn, a batch each, and remember  *)
(* in their row where the next one goes on.  Operators sync accounts of    *)
(* their choice at any time; priorities change; processes end.             *)
(***************************************************************************)
EXTENDS Integers, FiniteSets, Sequences, SequencesExt

CONSTANTS
  Accounts,       \* 1 .. n
  Runners,        \* calls of runModelSync()
  BatchSize,
  MaxEvents,      \* bound: manual rounds, changes of the order, restarts
  NoCursor,
  Idle

VARIABLES
  eligible,  \* the accounts of the scope, by priority
  cursor,    \* cursor_after of the round finished last
  rows,      \* the rounds of api2business_upstream_model_sync_rounds that are open, by runner
  run,       \* the round each call works on
  finished,  \* the row that was finished last
  turn,      \* automatic rounds since an account's turn, while nothing disturbs them
  events

syncVars == <<eligible, cursor, rows, run, finished, turn, events>>

NoRow == [status |-> "none"]

Init ==
  /\ eligible = [a \in Accounts |-> a]
  /\ cursor = NoCursor
  /\ rows = [r \in Runners |-> NoRow]
  /\ run = [r \in Runners |-> Idle]
  /\ finished = NoRow
  /\ turn = [a \in Accounts |-> 0]
  /\ events = 0

Undisturbed == turn' = [a \in Accounts |-> 0]
Event == events < MaxEvents /\ events' = events + 1 /\ Undisturbed

\* The place after an account; the first one when the account is gone.
After(q, account) ==
  LET at == {i \in DOMAIN q : q[i] = account} IN IF at = {} THEN 1 ELSE 1 + CHOOSE i \in at : TRUE

\* Faulty: the account of the cursor is taken again.
StartAtCursor == IF cursor \in ToSet(eligible) THEN CHOOSE i \in DOMAIN eligible : eligible[i] = cursor ELSE 1

\* Where a round begins.
Start == After(eligible, cursor)

Batch(q) == SubSeq(q, 1, IF BatchSize < Len(q) THEN BatchSize ELSE Len(q))

\* The accounts from the beginning of the round on, then those before it.
Rotated == SubSeq(eligible, Start, Len(eligible)) \o SubSeq(eligible, 1, Start - 1)

\* The accounts asked for, by priority.
Place(a) == CHOOSE i \in DOMAIN eligible : eligible[i] = a
Asked(requested) ==
  {q \in SetToSeqs(requested) : \A i, j \in DOMAIN q : i < j => Place(q[i]) < Place(q[j])}

\* modelSyncPlan(): the accounts asked for, or the next ones of the rotation.
Selected(requested) == {Batch(q) : q \in IF requested # {} THEN Asked(requested) ELSE {Rotated}}

\* createModelSyncRound(): the round and its accounts, in one transaction.
CreateRound(r, selected) ==
  rows' = [rows EXCEPT ![r] = [status |-> "running", accounts |-> [a \in ToSet(selected) |-> "planned"]]]

UpdateAccount(r, a, status) == rows' = [rows EXCEPT ![r].accounts[a] = status]

\* runModelSync().  Only one automatic round runs at a time.
Begin(r, requested) ==
  /\ run[r] = Idle
  /\ requested \subseteq ToSet(eligible)
  /\ \E selected \in Selected(requested) :
     /\ CreateRound(r, selected)
     /\ run' = [run EXCEPT ![r] = [automatic |-> requested = {}, todo |-> selected, synced |-> {}, attempted |-> 0,
                                   failed |-> 0, cursorAfter |-> IF selected = <<>> THEN cursor ELSE Last(selected)]]
     /\ IF requested = {}
        THEN /\ \A s \in Runners : run[s] # Idle => ~run[s].automatic
             /\ turn' = [a \in Accounts |-> IF a \in ToSet(eligible) THEN turn[a] + 1 ELSE 0]
             /\ UNCHANGED events
        ELSE Event
  /\ UNCHANGED <<eligible, cursor, finished>>

\* The row of an account is running before Sub2API is asked.
Account(r) ==
  /\ run[r] # Idle /\ run[r].todo # <<>> /\ rows[r].accounts[Head(run[r].todo)] = "planned"
  /\ UpdateAccount(r, Head(run[r].todo), "running")
  /\ UNCHANGED <<eligible, cursor, run, finished, turn, events>>

\* Faulty: a failure ends the round.
StopsAtFailure(todo, ok) == IF ok THEN Tail(todo) ELSE <<>>

\* One account's failure does not keep the others from their turn.
Remaining(todo, ok) == Tail(todo)

Answer(r, ok) ==
  /\ run[r] # Idle /\ run[r].todo # <<>> /\ rows[r].accounts[Head(run[r].todo)] = "running"
  /\ LET a == Head(run[r].todo) IN
     /\ UpdateAccount(r, a, IF ok THEN "succeeded" ELSE "failed")
     /\ run' = [run EXCEPT ![r].todo = Remaining(@, ok),
                           ![r].attempted = @ + 1,
                           ![r].synced = IF ok THEN @ \cup {a} ELSE @,
                           ![r].failed = @ + (IF ok THEN 0 ELSE 1)]
     /\ turn' = [turn EXCEPT ![a] = 0]
  /\ UNCHANGED <<eligible, cursor, finished, events>>

RoundStatus(failed, succeeded) ==
  IF failed = 0 THEN "succeeded" ELSE IF succeeded = 0 THEN "failed" ELSE "partial"

\* finishModelSyncRound().
FinishRound(r, status) ==
  /\ finished' = [status |-> status, accounts |-> rows[r].accounts, synced |-> run[r].synced]
  /\ rows' = [rows EXCEPT ![r] = NoRow]

\* latestModelSyncCursor() reads the row completed last, whoever asked for the
\* round: a manual one moves the rotation as well.
LatestCursor(r) == cursor' = run[r].cursorAfter

Finish(r) ==
  /\ run[r] # Idle /\ run[r].todo = <<>>
  /\ FinishRound(r, RoundStatus(run[r].failed, run[r].attempted - run[r].failed))
  /\ LatestCursor(r)
  /\ IF run[r].automatic THEN UNCHANGED turn ELSE Undisturbed
  /\ run' = [run EXCEPT ![r] = Idle]
  /\ UNCHANGED <<eligible, events>>

-----------------------------------------------------------------------------
(* Outside *)

\* Accounts join, leave and change their priority.
Reorder ==
  /\ Event
  /\ \E accounts \in SUBSET Accounts : eligible' \in SetToSeqs(accounts)
  /\ UNCHANGED <<cursor, rows, run, finished>>

\* The process ends: open rows stay "running" and are no cursor.
Restart ==
  /\ Event
  /\ run' = [r \in Runners |-> Idle]
  /\ rows' = [r \in Runners |-> NoRow]
  /\ UNCHANGED <<eligible, cursor, finished>>

Next ==
  \/ \E r \in Runners :
       \/ Begin(r, {}) \/ \E requested \in (SUBSET Accounts) \ {{}} : Begin(r, requested)
       \/ Account(r) \/ \E ok \in BOOLEAN : Answer(r, ok)
       \/ Finish(r)
  \/ Reorder \/ Restart

-----------------------------------------------------------------------------
(* Properties *)

\* runModelSync(): everybody has a turn.  While automatic rounds follow each other
\* undisturbed, failing accounts included, no account waits longer than it takes
\* to go round once.
EverybodyHasATurn ==
  \A a \in Accounts : (turn[a] - 1) * BatchSize < Len(eligible)

\* A finished round says of its accounts what happened: none is left planned or
\* running, and only a round that synced all of them has succeeded.
RoundsTellTheirAccounts ==
  finished # NoRow =>
    /\ \A a \in DOMAIN finished.accounts :
         finished.accounts[a] = IF a \in finished.synced THEN "succeeded" ELSE "failed"
    /\ finished.status = "succeeded" <=> finished.synced = DOMAIN finished.accounts
    /\ finished.status = "partial" => finished.synced # {}

-----------------------------------------------------------------------------
(* The inductive invariant behind what rounds tell *)

Statuses == {"planned", "running", "succeeded", "failed"}

RunRecord == [automatic : BOOLEAN, todo : Seq(Accounts), synced : SUBSET Accounts, attempted : Nat,
              failed : Nat, cursorAfter : Accounts \cup {NoCursor}]
RowRecord == [status : {"running"}, accounts : UNION {[accounts -> Statuses] : accounts \in SUBSET Accounts}]

TypeInv ==
  /\ eligible \in Seq(Accounts)
  /\ cursor \in Accounts \cup {NoCursor}
  /\ rows \in [Runners -> RowRecord \cup {NoRow}]
  /\ run \in [Runners -> RunRecord \cup {Idle}]

\* The row of a round agrees with what its call has done, and what is neither done nor
\* to do is not in it.
Agrees(row, call) ==
  LET accounts == row.accounts IN
  /\ row \in RowRecord /\ call \in RunRecord
  /\ ToSet(call.todo) \subseteq DOMAIN accounts
  /\ \A a \in DOMAIN accounts : accounts[a] \in {"planned", "running"} => a \in ToSet(call.todo)
  /\ call.synced = {a \in DOMAIN accounts : accounts[a] = "succeeded"}
  /\ call.failed = 0 <=> \A a \in DOMAIN accounts : accounts[a] # "failed"
  /\ call.failed <= call.attempted
  /\ call.failed = call.attempted <=> call.synced = {}

\* The accounts before the i-th one when a round begins after the given account.
Before(q, i, account) ==
  IF i >= After(q, account) THEN i - After(q, account) ELSE i - After(q, account) + Len(q)

\* The rounds since an account's turn have all come closer to it, by a batch each.
Comes(i, account) == turn[eligible[i]] * BatchSize + Before(eligible, i, account) < Len(eligible)

Automatic(r) == run[r] # Idle /\ run[r].automatic

\* The next automatic round goes on where the latest one ends, and the accounts of the
\* one under way have their turn before it ends.
TurnInv ==
  /\ turn \in [Accounts -> Nat]
  /\ \A i, j \in DOMAIN eligible : eligible[i] = eligible[j] => i = j
  /\ \A a \in Accounts : turn[a] # 0 => a \in ToSet(eligible)
  /\ \A r, s \in Runners : Automatic(r) /\ Automatic(s) => r = s
  /\ (\A r \in Runners : ~Automatic(r)) => \A i \in DOMAIN eligible : Comes(i, cursor)
  /\ \A r \in Runners : Automatic(r) =>
       \A i \in DOMAIN eligible :
         \/ Comes(i, run[r].cursorAfter)
         \/ eligible[i] \in ToSet(run[r].todo) /\ (turn[eligible[i]] - 1) * BatchSize < Len(eligible)

SyncInv ==
  /\ TypeInv
  /\ \A r \in Runners : run[r] # Idle => Agrees(rows[r], run[r])
  /\ RoundsTellTheirAccounts
=============================================================================
