----------------------------- MODULE ReadBroker -----------------------------
(***************************************************************************)
(* The read broker of the API process: SingleConnectionSub2ApiReadExecutor *)
(* (src/src/sub2api-read-executor.ts).  Every analytic read of the Sub2API *)
(* database goes through it: two FIFO queues in front of one connection,   *)
(* one shared promise per key, a bounded result cache, a queue timeout, a  *)
(* watchdog around each statement and one retry on a lost connection.      *)
(*                                                                         *)
(* A call is a member of Calls and issues one query.  The task it creates, *)
(* and the promise of that task, carry the name of the call.  The rows of  *)
(* a result are abstracted to the version of the database they were read   *)
(* at, so that an old answer can be told from a new one.                   *)
(***************************************************************************)
EXTENDS Naturals, Sequences, FiniteSets

CONSTANTS
    Calls,       \* the query() calls that are ever made
    Keys,        \* the request keys
    CacheMax,    \* options.cacheMaxEntries
    MaxVersion,  \* bound: how often the foreign database changes
    NoCall,      \* no task: activeTask === null, inFlight.get(key) undefined
    Unissued,    \* the call has not been made
    Pending,     \* the promise is not settled
    Rejected     \* the promise is settled with an error

ASSUME CallsAssumption == NoCall \notin Calls /\ Keys # {}
ASSUME BoundAssumption == CacheMax \in Nat \ {0} /\ MaxVersion \in Nat
ASSUME OutcomeAssumption ==
    /\ {Unissued, Pending, Rejected} \cap Nat = {}
    /\ Unissued # Pending /\ Unissued # Rejected /\ Pending # Rejected

Versions   == 0..MaxVersion
Priorities == {"manual", "automatic"}
CacheModes == {"prefer-cache", "bypass-cache"}

VARIABLES
    manualQueue,     \* tasks waiting, as pushed; cancelled ones are not taken out
    automaticQueue,
    task,            \* life of each task: none, queued, cancelled, active, done
    keyOf,           \* request.key of each task
    promiseOf,       \* the task whose promise a call was given
    outcome,         \* how the promise of a task (or of a cache hit) settled
    inFlight,        \* key -> the task whose promise is shared
    cache,           \* the result cache, oldest entry first
    activeTask,      \* the task that execute() works on
    attempt,         \* the loop variable of execute()
    recycling,       \* execute() awaits recycleDatabase(): "no", or what follows
    draining,        \* a drain() loop is running
    closePhase,      \* "open", "closing" (closed is set), "closed" (close returned)
    generation,      \* how many connections recycleDatabase() has retired
    ops,             \* database operations that have not ended
    dbVersion        \* what the foreign database holds now

queueVars == <<manualQueue, automaticQueue>>
callVars  == <<keyOf, promiseOf>>
execVars  == <<attempt, recycling>>
vars == <<manualQueue, automaticQueue, task, keyOf, promiseOf, outcome,
          inFlight, cache, activeTask, attempt, recycling, draining,
          closePhase, generation, ops, dbVersion>>

closed == closePhase # "open"

Entry     == [key : Keys, version : Versions]
Operation == [task : Calls, conn : Nat,
              phase : {"setup", "running"}, version : Versions]

TypeOK ==
    /\ manualQueue \in Seq(Calls)
    /\ automaticQueue \in Seq(Calls)
    /\ task \in [Calls -> {"none", "queued", "cancelled", "active", "done"}]
    /\ keyOf \in [Calls -> Keys]
    /\ promiseOf \in [Calls -> Calls \cup {NoCall}]
    /\ outcome \in [Calls -> Versions \cup {Unissued, Pending, Rejected}]
    /\ inFlight \in [Keys -> Calls \cup {NoCall}]
    /\ cache \in Seq(Entry)
    /\ activeTask \in Calls \cup {NoCall}
    /\ attempt \in {0, 1}
    /\ recycling \in {"no", "retry", "fail"}
    /\ draining \in BOOLEAN
    /\ closePhase \in {"open", "closing", "closed"}
    /\ generation \in Nat
    /\ ops \in SUBSET Operation
    /\ dbVersion \in Versions

Init ==
    /\ manualQueue = <<>>
    /\ automaticQueue = <<>>
    /\ task = [c \in Calls |-> "none"]
    /\ keyOf \in [Calls -> {CHOOSE k \in Keys : TRUE}]
    /\ promiseOf = [c \in Calls |-> NoCall]
    /\ outcome = [c \in Calls |-> Unissued]
    /\ inFlight = [k \in Keys |-> NoCall]
    /\ cache = <<>>
    /\ activeTask = NoCall
    /\ attempt = 0
    /\ recycling = "no"
    /\ draining = FALSE
    /\ closePhase = "open"
    /\ generation = 0
    /\ ops = {}
    /\ dbVersion = 0

-----------------------------------------------------------------------------
(* The result cache: a Map in insertion order.                             *)

Cached(k)  == \E i \in DOMAIN cache : cache[i].key = k
IndexOf(k) == CHOOSE i \in DOMAIN cache : cache[i].key = k
Stored(k)  == cache[IndexOf(k)].version

Without(k) ==
    IF Cached(k)
    THEN SubSeq(cache, 1, IndexOf(k) - 1) \o SubSeq(cache, IndexOf(k) + 1, Len(cache))
    ELSE cache

Evict(entries) ==
    IF Len(entries) > CacheMax
    THEN SubSeq(entries, Len(entries) - CacheMax + 1, Len(entries))
    ELSE entries

\* Faulty: an entry that exists is kept instead of replaced.
RememberFirst(k, v) ==
    IF closed \/ Cached(k) THEN cache ELSE Evict(Append(cache, [key |-> k, version |-> v]))

Remember(k, v) ==
    IF closed THEN cache
    ELSE Evict(Append(Without(k), [key |-> k, version |-> v]))

\* All entries live equally long, so they expire in the order they went in.
ExpireOldest ==
    /\ cache # <<>>
    /\ cache' = Tail(cache)
    /\ UNCHANGED <<queueVars, task, callVars, outcome, inFlight, activeTask,
                   execVars, draining, closePhase, generation, ops, dbVersion>>

-----------------------------------------------------------------------------
(* The queues and the drain loop.                                          *)

\* The i-th task is the one nextTask() takes from q: all before it are cancelled.
IsNext(q, i) ==
    /\ i \in DOMAIN q
    /\ task[q[i]] # "cancelled"
    /\ \A j \in 1..(i - 1) : task[q[j]] = "cancelled"
NothingIn(q) == \A i \in DOMAIN q : task[q[i]] = "cancelled"

After(q, i) == SubSeq(q, i + 1, Len(q))

\* execute() up to its first await: the operation is handed to the connection.
Execute(t) ==
    /\ activeTask' = t
    /\ attempt' = 0
    /\ recycling' = "no"
    /\ ops' = ops \cup {[task |-> t, conn |-> generation,
                         phase |-> "setup", version |-> 0]}

\* The drain loop resumes after execute(): the next task, manual ones first.
TakeManual ==
    \E i \in DOMAIN manualQueue :
        /\ IsNext(manualQueue, i)
        /\ manualQueue' = After(manualQueue, i)
        /\ UNCHANGED automaticQueue
        /\ task' = [task EXCEPT ![manualQueue[i]] = "active"]
        /\ Execute(manualQueue[i])

\* Faulty: the automatic queue is not made to wait.
TakeAutomaticUnordered ==
    \E i \in DOMAIN automaticQueue :
        /\ IsNext(automaticQueue, i)
        /\ automaticQueue' = After(automaticQueue, i)
        /\ UNCHANGED manualQueue
        /\ task' = [task EXCEPT ![automaticQueue[i]] = "active"]
        /\ Execute(automaticQueue[i])

TakeAutomatic ==
    /\ NothingIn(manualQueue)
    /\ \E i \in DOMAIN automaticQueue :
        /\ IsNext(automaticQueue, i)
        /\ manualQueue' = <<>>
        /\ automaticQueue' = After(automaticQueue, i)
        /\ task' = [task EXCEPT ![automaticQueue[i]] = "active"]
        /\ Execute(automaticQueue[i])

DrainNext ==
    /\ draining /\ activeTask = NoCall /\ ~closed
    /\ TakeManual \/ TakeAutomatic
    /\ UNCHANGED <<callVars, outcome, inFlight, cache, draining, closePhase,
                   generation, dbVersion>>

DrainEnd ==
    /\ draining /\ activeTask = NoCall
    /\ closed \/ (NothingIn(manualQueue) /\ NothingIn(automaticQueue))
    /\ draining' = FALSE
    /\ manualQueue' = <<>>
    /\ automaticQueue' = <<>>
    /\ UNCHANGED <<task, callVars, outcome, inFlight, cache, activeTask,
                   execVars, closePhase, generation, ops, dbVersion>>

-----------------------------------------------------------------------------
(* query()                                                                 *)

\* Faulty: a request that bypasses the cache bypasses the shared promise as well.
JoinsUnlessBypassing(k, mode) == mode = "prefer-cache" /\ inFlight[k] # NoCall

Hits(k, mode)  == mode = "prefer-cache" /\ Cached(k)
Joins(k, mode) == inFlight[k] # NoCall

QueryRejected(c) ==
    /\ closed
    /\ promiseOf' = [promiseOf EXCEPT ![c] = c]
    /\ outcome' = [outcome EXCEPT ![c] = Rejected]
    /\ task' = [task EXCEPT ![c] = "done"]
    /\ UNCHANGED <<queueVars, keyOf, inFlight, cache, activeTask, execVars,
                   draining, closePhase, generation, ops, dbVersion>>

QueryCached(c, k, mode) ==
    /\ ~closed
    /\ Hits(k, mode)
    /\ keyOf' = [keyOf EXCEPT ![c] = k]
    /\ promiseOf' = [promiseOf EXCEPT ![c] = c]
    /\ outcome' = [outcome EXCEPT ![c] = Stored(k)]
    /\ task' = [task EXCEPT ![c] = "done"]
    /\ UNCHANGED <<queueVars, inFlight, cache, activeTask, execVars, draining,
                   closePhase, generation, ops, dbVersion>>

\* A second request for a key in flight gets the promise that is already there,
\* whatever its own priority and cache mode.
QueryJoined(c, k, mode) ==
    /\ ~closed
    /\ ~Hits(k, mode) /\ Joins(k, mode)
    /\ keyOf' = [keyOf EXCEPT ![c] = k]
    /\ promiseOf' = [promiseOf EXCEPT ![c] = inFlight[k]]
    /\ UNCHANGED <<queueVars, task, outcome, inFlight, cache, activeTask,
                   execVars, draining, closePhase, generation, ops, dbVersion>>

\* The task is queued; with no drain loop running, drain() starts at once and
\* has begun to execute it before query() returns (the queues then hold no task
\* that is not cancelled).
QueryQueued(c, k, p, mode) ==
    /\ ~closed
    /\ ~Hits(k, mode) /\ ~Joins(k, mode)
    /\ keyOf' = [keyOf EXCEPT ![c] = k]
    /\ promiseOf' = [promiseOf EXCEPT ![c] = c]
    /\ outcome' = [outcome EXCEPT ![c] = Pending]
    /\ inFlight' = [inFlight EXCEPT ![k] = c]
    /\ \/ /\ draining
          /\ task' = [task EXCEPT ![c] = "queued"]
          /\ IF p = "manual"
             THEN manualQueue' = Append(manualQueue, c) /\ UNCHANGED automaticQueue
             ELSE automaticQueue' = Append(automaticQueue, c) /\ UNCHANGED manualQueue
          /\ UNCHANGED <<activeTask, execVars, draining, ops>>
       \/ /\ ~draining
          /\ draining' = TRUE
          /\ task' = [task EXCEPT ![c] = "active"]
          /\ Execute(c)
          /\ UNCHANGED queueVars
    /\ UNCHANGED <<cache, closePhase, generation, dbVersion>>

Query(c) ==
    /\ promiseOf[c] = NoCall
    /\ \/ QueryRejected(c)
       \/ \E k \in Keys, mode \in CacheModes :
            \/ QueryCached(c, k, mode)
            \/ QueryJoined(c, k, mode)
            \/ \E p \in Priorities : QueryQueued(c, k, p, mode)

\* The setTimeout of query(): the task stays in its queue, cancelled.
QueueTimeout(t) ==
    /\ task[t] = "queued"
    /\ task' = [task EXCEPT ![t] = "cancelled"]
    /\ outcome' = [outcome EXCEPT ![t] = Rejected]
    /\ UNCHANGED <<queueVars, callVars, inFlight, cache, activeTask, execVars,
                   draining, closePhase, generation, ops, dbVersion>>

\* The finally() on the shared promise: a later microtask, so a call may still
\* find the promise although it is settled.
Forget(k) ==
    /\ inFlight[k] # NoCall
    /\ outcome[inFlight[k]] # Pending
    /\ inFlight' = [inFlight EXCEPT ![k] = NoCall]
    /\ UNCHANGED <<queueVars, task, callVars, outcome, cache, activeTask,
                   execVars, draining, closePhase, generation, ops, dbVersion>>

-----------------------------------------------------------------------------
(* execute() after its first await.                                        *)

\* The operation whose end execute() awaits; all others are abandoned.
Awaited(o) == o.task = activeTask /\ o.conn = generation /\ recycling = "no"

\* BEGIN READ ONLY and the setup statements are done: the read takes its snapshot.
Running(o) ==
    /\ o.phase = "setup"
    /\ ops' = (ops \ {o}) \cup {[o EXCEPT !.phase = "running", !.version = dbVersion]}
    /\ UNCHANGED <<queueVars, task, callVars, outcome, inFlight, cache,
                   activeTask, execVars, draining, closePhase, generation, dbVersion>>

Finish(t, result) ==
    /\ outcome' = [outcome EXCEPT ![t] = result]
    /\ task' = [task EXCEPT ![t] = "done"]
    /\ activeTask' = NoCall
    /\ UNCHANGED <<queueVars, callVars, inFlight, draining, closePhase, dbVersion>>

Succeed(o) ==
    /\ Awaited(o) /\ o.phase = "running"
    /\ ops' = ops \ {o}
    /\ cache' = Remember(keyOf[o.task], o.version)
    /\ Finish(o.task, o.version)
    /\ UNCHANGED <<execVars, generation>>

\* A statement timeout or any error that says nothing about the connection.
Fail(o) ==
    /\ Awaited(o)
    /\ ops' = ops \ {o}
    /\ Finish(o.task, Rejected)
    /\ UNCHANGED <<execVars, generation, cache>>

\* Faulty: recycleDatabase() keeps the connection.
SameConnection == generation

\* recycleDatabase(): this.database is replaced.
NextConnection == generation + 1

\* recycleDatabase(): a new connection at once, then up to 1.5 s for the old one.
LoseConnection(o) ==
    /\ Awaited(o)
    /\ ops' = ops \ {o}
    /\ generation' = NextConnection
    /\ recycling' = IF attempt = 0 THEN "retry" ELSE "fail"
    /\ UNCHANGED <<queueVars, task, callVars, outcome, inFlight, cache,
                   activeTask, attempt, draining, closePhase, dbVersion>>

\* Faulty: no watchdog.
NoWatchdog == FALSE /\ UNCHANGED vars

\* The watchdog gives up on the operation, which may go on on the old connection.
Watchdog ==
    /\ activeTask # NoCall /\ recycling = "no"
    /\ generation' = NextConnection
    /\ recycling' = "fail"
    /\ UNCHANGED <<queueVars, task, callVars, outcome, inFlight, cache,
                   activeTask, attempt, draining, closePhase, ops, dbVersion>>

Retry ==
    /\ recycling = "retry"
    /\ attempt' = attempt + 1
    /\ recycling' = "no"
    /\ ops' = ops \cup {[task |-> activeTask, conn |-> generation,
                         phase |-> "setup", version |-> 0]}
    /\ UNCHANGED <<queueVars, task, callVars, outcome, inFlight, cache,
                   activeTask, draining, closePhase, generation, dbVersion>>

\* Faulty: activeTask is not reset after the watchdog.
GiveUpStillActive ==
    /\ recycling = "fail"
    /\ outcome[activeTask] = Pending
    /\ outcome' = [outcome EXCEPT ![activeTask] = Rejected]
    /\ UNCHANGED <<queueVars, task, callVars, inFlight, cache, activeTask,
                   execVars, draining, closePhase, generation, ops, dbVersion>>

GiveUp ==
    /\ recycling = "fail"
    /\ recycling' = "no"
    /\ Finish(activeTask, Rejected)
    /\ UNCHANGED <<attempt, generation, cache, ops>>

\* Faulty: rows that come in after the watchdog go into the cache.
AbandonedRemembered(o) ==
    /\ ~Awaited(o) /\ o.phase = "running"
    /\ ops' = ops \ {o}
    /\ cache' = Remember(keyOf[o.task], o.version)
    /\ UNCHANGED <<queueVars, task, callVars, outcome, inFlight, activeTask,
                   execVars, draining, closePhase, generation, dbVersion>>

\* An operation nobody awaits any more ends; its rows are dropped.
AbandonedEnds(o) ==
    /\ ~Awaited(o)
    /\ ops' = ops \ {o}
    /\ UNCHANGED <<queueVars, task, callVars, outcome, inFlight, cache,
                   activeTask, execVars, draining, closePhase, generation, dbVersion>>

-----------------------------------------------------------------------------
(* close(), and the foreign database.                                      *)

\* Faulty: close() empties the queues without rejecting the tasks in them.
CloseSilently ==
    /\ ~closed
    /\ closePhase' = "closing"
    /\ cache' = <<>>
    /\ manualQueue' = <<>>
    /\ automaticQueue' = <<>>
    /\ UNCHANGED <<task, callVars, outcome, inFlight, activeTask, execVars,
                   draining, generation, ops, dbVersion>>

Close ==
    /\ ~closed
    /\ closePhase' = "closing"
    /\ cache' = <<>>
    /\ task' = [t \in Calls |-> IF task[t] = "queued" THEN "cancelled" ELSE task[t]]
    /\ outcome' = [t \in Calls |-> IF task[t] = "queued" THEN Rejected ELSE outcome[t]]
    /\ manualQueue' = <<>>
    /\ automaticQueue' = <<>>
    /\ UNCHANGED <<callVars, inFlight, activeTask, execVars, draining,
                   generation, ops, dbVersion>>

CloseDone ==
    /\ closePhase = "closing"
    /\ activeTask = NoCall
    /\ closePhase' = "closed"
    /\ UNCHANGED <<queueVars, task, callVars, outcome, inFlight, cache,
                   activeTask, execVars, draining, generation, ops, dbVersion>>

\* Sub2API commits something that changes what every read returns.
ForeignCommit ==
    /\ dbVersion < MaxVersion
    /\ dbVersion' = dbVersion + 1
    /\ UNCHANGED <<queueVars, task, callVars, outcome, inFlight, cache,
                   activeTask, execVars, draining, closePhase, generation, ops>>

-----------------------------------------------------------------------------
DatabaseStep ==
    \E o \in ops :
        Running(o) \/ Succeed(o) \/ Fail(o) \/ LoseConnection(o) \/ AbandonedEnds(o)

Next ==
    \/ \E c \in Calls : Query(c) \/ QueueTimeout(c)
    \/ \E k \in Keys : Forget(k)
    \/ ExpireOldest
    \/ DrainNext
    \/ DrainEnd
    \/ DatabaseStep
    \/ Watchdog
    \/ Retry
    \/ GiveUp
    \/ Close
    \/ CloseDone
    \/ ForeignCommit

Spec == Init /\ [][Next]_vars

(* Timers fire and microtasks run; the database owes nothing: it may never *)
(* answer, and close() of the retired connection may never return.         *)
Fairness ==
    /\ WF_vars(Watchdog)
    /\ WF_vars(Retry)
    /\ WF_vars(GiveUp)
    /\ WF_vars(DrainNext)
    /\ WF_vars(DrainEnd)
    /\ WF_vars(CloseDone)
    /\ \A c \in Calls : WF_vars(QueueTimeout(c))

FairSpec == Spec /\ Fairness

-----------------------------------------------------------------------------
(* Properties.                                                             *)

Waiting(c) == promiseOf[c] # NoCall /\ outcome[promiseOf[c]] = Pending

\* A caller that waits, its own task or a shared one, waits for something that
\* is going to be settled: the task execute() works on, or a task in a queue
\* that a running drain() loop will reach.  Neither a queue timeout, a retired
\* connection, a dedup join nor close() leaves a caller behind.
NoLostWaiter ==
    \A c \in Calls : Waiting(c) =>
        LET t == promiseOf[c]
        IN  \/ task[t] = "active" /\ t = activeTask
            \/ /\ task[t] = "queued" /\ draining /\ ~closed
               /\ \/ \E i \in DOMAIN manualQueue : manualQueue[i] = t
                  \/ \E i \in DOMAIN automaticQueue : automaticQueue[i] = t

\* Two reads of one key are never queued or executing together: the second
\* request always finds the first one in inFlight.
OneReadPerKey ==
    \A s, t \in Calls :
        /\ task[s] \in {"queued", "active"} /\ task[t] \in {"queued", "active"}
        /\ keyOf[s] = keyOf[t]
        => s = t

\* The broker never has two operations on one connection, and it never closes a
\* connection under the operation it waits for.
OneOperationPerConnection ==
    /\ \A o, p \in ops : o.conn = p.conn => o = p
    /\ closePhase = "closed" => \A o \in ops : o.conn < generation

\* An entry that is replaced is never replaced by older rows, whatever retired
\* connections still deliver.
CacheNeverGoesBack ==
    [][\A i \in DOMAIN cache : \A j \in DOMAIN cache' :
           cache[i].key = cache'[j].key => cache[i].version <= cache'[j].version]_vars

\* No automatic task is started while a manual task waits.
ManualFirst ==
    [][\A i \in DOMAIN automaticQueue :
           (task[automaticQueue[i]] = "queued" /\ task'[automaticQueue[i]] = "active")
           => \A j \in DOMAIN manualQueue : task[manualQueue[j]] # "queued"]_vars

\* The broker keeps the promises of ReadService: whatever is queued, shared,
\* cached, evicted, retried or abandoned, a later answer for a key is never older
\* than an earlier one, and no caller is answered twice.
Answer(c) == IF promiseOf[c] = NoCall THEN Unissued ELSE outcome[promiseOf[c]]
Service == INSTANCE ReadService WITH answer <- [c \in Calls |-> Answer(c)],
                                     now <- dbVersion
ImplementsService == Service!Spec

\* Every query is answered or rejected, even if the database never answers.
EveryCallSettles == \A c \in Calls : Waiting(c) ~> ~Waiting(c)

\* close() returns, even with a read that hangs.
CloseReturns == (closePhase = "closing") ~> (closePhase = "closed")
=============================================================================
