---------------------------- MODULE ScoreReadModel ----------------------------
(***************************************************************************)
(* The read model of account scores (class AccountScoreService,            *)
(* src/src/account-score-service.ts): one refresh at a time collects the   *)
(* scores and keeps them in the operations store, or in a file where there *)
(* is no store; everybody reads what was kept last.                        *)
(*                                                                         *)
(* The contents of a snapshot are the number of the collection it came     *)
(* from.  A call is a refresh (rank(), the scheduled activity) or a read.  *)
(***************************************************************************)
EXTENDS Integers, FiniteSets

CONSTANTS
  Calls,
  MaxScoreFaults  \* bound: failures and restarts

VARIABLES
  persistent,   \* there is an operations store
  row,          \* the row of the store: payload, refresh_started_at, last_error
  file,         \* the cache file
  memory,       \* this.snapshot
  inFlight,     \* where the refresh under way is, or "none"
  collections,  \* collections made
  resolved,     \* collection of the latest refresh that succeeded
  call,         \* what each call is, what it got
  shown,        \* newest collection shown as ready
  scoreFaults

scoreVars == <<persistent, row, file, memory, inFlight, collections, resolved, call, shown, scoreFaults>>

Unavailable == [version |-> 0, status |-> "unavailable"]
NoRow == [version |-> 0, refreshing |-> FALSE, error |-> FALSE]

Init ==
  /\ persistent \in BOOLEAN
  /\ row = NoRow /\ file = Unavailable /\ memory = Unavailable
  /\ inFlight = "none"
  /\ collections = 0 /\ resolved = 0 /\ shown = 0
  /\ call \in [Calls -> [kind : {"refresh", "read"}, stage : {"idle"}, after : {0}, floor : {0}, got : {Unavailable}]]
  /\ scoreFaults = 0

Fault == scoreFaults < MaxScoreFaults /\ scoreFaults' = scoreFaults + 1

\* beginSnapshotRefresh() and failSnapshotRefresh() leave the payload alone.
BegunRow == [row EXCEPT !.refreshing = TRUE, !.error = FALSE]
FailedRow == [row EXCEPT !.refreshing = FALSE, !.error = TRUE]

\* readPersistentSnapshot(): a row without a payload keeps the contents in memory.
FromRow(r, m) ==
  IF r.version > 0
  THEN [version |-> r.version,
        status |-> IF r.refreshing THEN "refreshing" ELSE IF r.error THEN "stale" ELSE "ready"]
  ELSE IF r.refreshing THEN [m EXCEPT !.status = "refreshing"]
  ELSE IF r.error THEN [m EXCEPT !.status = "unavailable"]
  ELSE m

Joined == {c \in Calls : call[c].stage = "joined"}
MoveAll(C, stage) == call' = [c \in Calls |-> IF c \in C THEN [call[c] EXCEPT !.stage = stage] ELSE call[c]]

\* Faulty: who awaits a failed refresh is given what there is.
RejectQuietly == inFlight' = "none" /\ MoveAll(Joined, "reading")

\* The refresh fails, and with it everybody who awaits it.
Reject == inFlight' = "none" /\ MoveAll(Joined, "failed")

Resolve == inFlight' = "none" /\ MoveAll(Joined, "reading") /\ resolved' = collections

-----------------------------------------------------------------------------
(* Calls *)

\* refresh() joins the refresh under way, whatever limit that one has.
Refresh(c) ==
  /\ call[c].kind = "refresh" /\ call[c].stage = "idle"
  /\ call' = [call EXCEPT ![c].stage = "joined", ![c].after = resolved, ![c].floor = shown]
  /\ IF inFlight = "none"
     THEN inFlight' = "begin" /\ memory' = [memory EXCEPT !.status = "refreshing"]
     ELSE UNCHANGED <<inFlight, memory>>
  /\ UNCHANGED <<persistent, row, file, collections, resolved, shown, scoreFaults>>

ReadLatest(c) ==
  /\ call[c].kind = "read" /\ call[c].stage = "idle"
  /\ call' = [call EXCEPT ![c].stage = "reading", ![c].floor = shown]
  /\ UNCHANGED <<persistent, row, file, memory, inFlight, collections, resolved, shown, scoreFaults>>

\* What state() answers; a snapshot past its nextRefreshAt is stale.
StateOf(m) ==
  IF inFlight # "none" THEN {"refreshing"}
  ELSE IF m.status = "ready" THEN {"ready", "stale"} ELSE {m.status}

State(c) ==
  /\ call[c].stage = "reading"
  /\ memory' = IF persistent THEN FromRow(row, memory)
               ELSE IF inFlight = "none" /\ file.version > 0 THEN file ELSE memory
  /\ \E s \in StateOf(memory') :
       /\ call' = [call EXCEPT ![c].stage = "answered", ![c].got = [version |-> memory'.version, status |-> s]]
       /\ shown' = IF s = "ready" /\ memory'.version > shown THEN memory'.version ELSE shown
  /\ UNCHANGED <<persistent, row, file, inFlight, collections, resolved, scoreFaults>>

StateFails(c) ==
  /\ call[c].stage = "reading" /\ persistent
  /\ Fault
  /\ MoveAll({c}, "failed")
  /\ UNCHANGED <<persistent, row, file, memory, inFlight, collections, resolved, shown>>

-----------------------------------------------------------------------------
(* performRefresh() *)

\* beginSnapshotRefresh() is outside the try block: its failure marks nothing.
Begin ==
  /\ inFlight = "begin"
  /\ \/ row' = IF persistent THEN BegunRow ELSE row
     \/ persistent /\ UNCHANGED row
  /\ \/ inFlight' = "collect" /\ (persistent => row'.refreshing) /\ UNCHANGED <<call, scoreFaults>>
     \/ persistent /\ Fault /\ Reject
  /\ UNCHANGED <<persistent, file, memory, collections, resolved, shown>>

Collect ==
  /\ inFlight = "collect"
  /\ \/ /\ collections' = collections + 1
        /\ memory' = [version |-> collections', status |-> "ready"]
        /\ inFlight' = "complete"
        /\ UNCHANGED scoreFaults
     \/ Fault /\ inFlight' = "fail" /\ UNCHANGED <<collections, memory>>
  /\ UNCHANGED <<persistent, row, file, resolved, call, shown>>

\* The payload is the snapshot just collected, whatever memory has become.
Kept == [version |-> collections, refreshing |-> FALSE, error |-> FALSE]

\* completeSnapshot() or writeCache(); a write that fails may have been executed.
Complete ==
  /\ inFlight = "complete"
  /\ \/ /\ Resolve
        /\ IF persistent THEN row' = Kept /\ UNCHANGED file ELSE file' = [version |-> collections, status |-> "ready"] /\ UNCHANGED row
        /\ UNCHANGED scoreFaults
     \/ /\ Fault
        /\ inFlight' = "fail"
        /\ \/ persistent /\ row' = Kept
           \/ UNCHANGED row
        /\ UNCHANGED <<file, resolved, call>>
  /\ UNCHANGED <<persistent, memory, collections, shown>>

\* The catch block: last_error is set, the payload stays; the write may fail too, done
\* or not, or the read of the row after it.
Fail ==
  /\ inFlight = "fail"
  /\ LET status(m) == IF m.version = 0 THEN "unavailable" ELSE "stale"
         failed(m) == [m EXCEPT !.status = status(m)]
     IN \/ /\ persistent
           /\ row' = FailedRow
           /\ memory' = failed(FromRow(row', memory))
           /\ UNCHANGED <<file, scoreFaults>>
        \/ persistent /\ Fault /\ row' \in {row, FailedRow} /\ UNCHANGED <<file, memory>>
        \/ /\ ~ persistent
           /\ memory' = failed(memory)
           /\ file' = memory'
           /\ UNCHANGED <<row, scoreFaults>>
        \/ ~ persistent /\ Fault /\ memory' = failed(memory) /\ UNCHANGED <<row, file>>
  /\ Reject
  /\ UNCHANGED <<persistent, collections, resolved, shown>>

\* The row of a refresh that a restart cut off says "refreshing" until the next.
Restart ==
  /\ Fault
  /\ inFlight' = "none"
  /\ memory' = file
  /\ MoveAll({c \in Calls : call[c].stage \in {"joined", "reading"}}, "lost")
  /\ UNCHANGED <<persistent, row, file, collections, resolved, shown>>

Next ==
  \/ \E c \in Calls : Refresh(c) \/ ReadLatest(c) \/ State(c) \/ StateFails(c)
  \/ Begin \/ Collect \/ Complete \/ Fail \/ Restart

-----------------------------------------------------------------------------
(* Properties *)

\* performRefresh(): "fail the refresh operation so its caller and Temporal
\* activity cannot mistake stale data for success": who asks for a refresh and is
\* answered gets scores that were kept after it asked, also when it joined the
\* refresh of another; nobody who comes after scores were shown as ready gets
\* older ones, through failures and restarts.
ScoresAreFresh ==
  \A c \in Calls : call[c].stage = "answered" =>
    /\ call[c].kind = "refresh" => call[c].got.version > call[c].after
    /\ call[c].got.version >= call[c].floor

-----------------------------------------------------------------------------
(* The inductive invariant behind the properties *)

Statuses == {"unavailable", "refreshing", "stale", "ready"}
Snapshots == [version : Nat, status : Statuses]

TypeInv ==
  /\ persistent \in BOOLEAN
  /\ row \in [version : Nat, refreshing : BOOLEAN, error : BOOLEAN]
  /\ file \in Snapshots /\ memory \in Snapshots
  /\ inFlight \in {"none", "begin", "collect", "complete", "fail"}
  /\ collections \in Nat /\ resolved \in Nat /\ shown \in Nat
  /\ call \in [Calls -> [kind : {"refresh", "read"}, after : Nat, floor : Nat, got : Snapshots,
                         stage : {"idle", "joined", "reading", "answered", "failed", "lost"}]]

\* The collection that is kept where readers look.
KeptVersion == IF persistent THEN row.version ELSE file.version

\* Whatever succeeded or was shown is kept.
KeptInv ==
  /\ resolved <= KeptVersion /\ shown <= KeptVersion /\ KeptVersion <= collections
  /\ inFlight = "complete" => resolved < collections

\* With a store: what is in memory and not in the row is not shown as ready.
RowInv ==
  persistent =>
    /\ file.version = 0
    /\ inFlight = "collect" => row.refreshing
    /\ row.version = 0 /\ memory.version > 0 => row.refreshing \/ row.error

\* Without one: the memory is as new as the file, and no readier.
FileInv ==
  ~ persistent =>
    /\ file.version <= memory.version /\ memory.version <= collections
    /\ inFlight = "complete" => memory.version = collections
    /\ inFlight = "none" /\ file.version = 0 /\ memory.version > 0 => memory.status # "ready"

CallInv(c) ==
  /\ call[c].stage \in {"joined", "reading"} => call[c].floor <= shown
  /\ call[c].stage = "joined" => call[c].after <= resolved
  /\ call[c].stage = "reading" /\ call[c].kind = "refresh" => call[c].after < KeptVersion

ScoreInv ==
  /\ TypeInv /\ KeptInv /\ RowInv /\ FileInv /\ ScoresAreFresh
  /\ \A c \in Calls : CallInv(c)
=============================================================================
