-------------------------- MODULE ReadBrokerProofs --------------------------
(* TLAPS proofs about ReadBroker, for any number of calls and keys.        *)
EXTENDS ReadBroker, TLAPS, SequenceTheorems

-----------------------------------------------------------------------------
(* The result cache stays a sequence of entries.                           *)

LEMMA StoredType ==
    ASSUME cache \in Seq(Entry), NEW k \in Keys, Cached(k)
    PROVE  Stored(k) \in Versions /\ IndexOf(k) \in DOMAIN cache
<1>1. IndexOf(k) \in DOMAIN cache
  BY DEF Cached, IndexOf
<1>2. cache[IndexOf(k)] \in Entry
  BY <1>1
<1> QED BY <1>1, <1>2 DEF Stored, Entry

LEMMA WithoutType ==
    ASSUME cache \in Seq(Entry), NEW k \in Keys
    PROVE  Without(k) \in Seq(Entry)
<1>1. CASE Cached(k)
  <2>1. IndexOf(k) \in 1..Len(cache)
    BY <1>1, StoredType
  <2>2. SubSeq(cache, 1, IndexOf(k) - 1) \in Seq(Entry)
    BY <2>1
  <2>3. SubSeq(cache, IndexOf(k) + 1, Len(cache)) \in Seq(Entry)
    BY <2>1
  <2> QED BY <1>1, <2>2, <2>3 DEF Without
<1>2. CASE ~Cached(k)
  BY <1>2 DEF Without
<1> QED BY <1>1, <1>2

LEMMA RememberType ==
    ASSUME cache \in Seq(Entry), NEW k \in Keys, NEW v \in Versions
    PROVE  Remember(k, v) \in Seq(Entry)
<1> DEFINE longer == Append(Without(k), [key |-> k, version |-> v])
<1>0. [key |-> k, version |-> v] \in Entry
  BY DEF Entry
<1>1. longer \in Seq(Entry)
  BY <1>0, WithoutType
<1>2. Evict(longer) \in Seq(Entry)
  BY <1>1, BoundAssumption DEF Evict
<1> QED BY <1>2 DEF Remember

-----------------------------------------------------------------------------
(* The inductive invariant.                                                *)

Live(t) == task[t] \in {"queued", "active"}

\* Promises: a task is live as long as its promise is pending, the live task of
\* a key is the one the map shares, and a call that was not made has no task.
PromiseInv ==
    /\ \A t \in Calls : (outcome[t] = Pending) <=> Live(t)
    /\ \A t \in Calls : Live(t) => inFlight[keyOf[t]] = t
    /\ \A c \in Calls : promiseOf[c] = NoCall => task[c] = "none"

\* Queues: they hold only tasks that have not started, each in one place, and
\* every queued task is in one of them.
QueueInv ==
    /\ \A i \in DOMAIN manualQueue : task[manualQueue[i]] \in {"queued", "cancelled"}
    /\ \A i \in DOMAIN automaticQueue : task[automaticQueue[i]] \in {"queued", "cancelled"}
    /\ \A i, j \in DOMAIN manualQueue : manualQueue[i] = manualQueue[j] => i = j
    /\ \A i, j \in DOMAIN automaticQueue : automaticQueue[i] = automaticQueue[j] => i = j
    /\ \A i \in DOMAIN manualQueue : \A j \in DOMAIN automaticQueue :
           manualQueue[i] # automaticQueue[j]
    /\ \A t \in Calls : task[t] = "queued" =>
           \/ \E i \in DOMAIN manualQueue : manualQueue[i] = t
           \/ \E i \in DOMAIN automaticQueue : automaticQueue[i] = t

\* The loop: a queued task has a drain loop to take it, which only close() ends.
LoopInv ==
    /\ \A t \in Calls : task[t] = "active" <=> t = activeTask
    /\ activeTask # NoCall => draining
    /\ \A t \in Calls : task[t] = "queued" => draining /\ ~closed
    /\ recycling # "no" => activeTask # NoCall
    /\ recycling = "retry" => attempt = 0
    /\ closePhase = "closed" => activeTask = NoCall

\* Connections: the only operation on the connection in use is the awaited one.
OperationInv ==
    /\ \A o \in ops : o.conn <= generation
    /\ \A o \in ops : o.conn = generation => o.task = activeTask /\ recycling = "no"
    /\ \A o, p \in ops : o.conn = p.conn => o = p

IInv == TypeOK /\ PromiseInv /\ QueueInv /\ LoopInv /\ OperationInv

-----------------------------------------------------------------------------
(* Type correctness.                                                       *)

LEMMA TypeInit == Init => TypeOK
<1> SUFFICES ASSUME Init PROVE TypeOK
  OBVIOUS
<1>1. (CHOOSE k \in Keys : TRUE) \in Keys
  BY CallsAssumption
<1>2. keyOf \in [Calls -> Keys]
  BY <1>1 DEF Init
<1>3. 0 \in Versions /\ dbVersion \in Versions
  BY BoundAssumption DEF Init, Versions
<1>4. manualQueue \in Seq(Calls) /\ automaticQueue \in Seq(Calls) /\ cache \in Seq(Entry)
  BY DEF Init
<1>5. ops \in SUBSET Operation
  BY DEF Init
<1> QED BY <1>2, <1>3, <1>4, <1>5 DEF Init, TypeOK

\* What execute() starts is an operation, and execute() works on its task.
LEMMA ExecuteType ==
    ASSUME TypeOK, NEW t \in Calls, Execute(t)
    PROVE  /\ activeTask' \in Calls \cup {NoCall}
           /\ attempt' \in {0, 1}
           /\ recycling' \in {"no", "retry", "fail"}
           /\ ops' \in SUBSET Operation
<1>1. [task |-> t, conn |-> generation, phase |-> "setup", version |-> 0] \in Operation
  BY BoundAssumption DEF TypeOK, Operation, Versions
<1> QED BY <1>1 DEF TypeOK, Execute

LEMMA TypeQuery ==
    ASSUME TypeOK, NEW c \in Calls, Query(c)
    PROVE  TypeOK'
<1>1. CASE QueryRejected(c)
  BY <1>1 DEF TypeOK, QueryRejected, queueVars, execVars
<1>2. ASSUME NEW k \in Keys, NEW mode \in CacheModes, QueryCached(c, k, mode)
      PROVE  TypeOK'
  <2>1. Stored(k) \in Versions
    BY <1>2, StoredType DEF TypeOK, QueryCached, Hits
  <2> QED BY <1>2, <2>1 DEF TypeOK, QueryCached, queueVars, execVars
<1>3. ASSUME NEW k \in Keys, NEW mode \in CacheModes, QueryJoined(c, k, mode)
      PROVE  TypeOK'
  BY <1>3 DEF TypeOK, QueryJoined, queueVars, execVars
<1>4. ASSUME NEW k \in Keys, NEW mode \in CacheModes, NEW p \in Priorities,
             QueryQueued(c, k, p, mode)
      PROVE  TypeOK'
  <2>1. /\ keyOf' \in [Calls -> Keys]
        /\ promiseOf' \in [Calls -> Calls \cup {NoCall}]
        /\ outcome' \in [Calls -> Versions \cup {Unissued, Pending, Rejected}]
        /\ inFlight' \in [Keys -> Calls \cup {NoCall}]
        /\ task' \in [Calls -> {"none", "queued", "cancelled", "active", "done"}]
        /\ cache' \in Seq(Entry) /\ closePhase' \in {"open", "closing", "closed"}
        /\ generation' \in Nat /\ dbVersion' \in Versions
        /\ draining' \in BOOLEAN
    BY <1>4 DEF TypeOK, QueryQueued
  <2>2. manualQueue' \in Seq(Calls) /\ automaticQueue' \in Seq(Calls)
    <3>1. /\ manualQueue \in Seq(Calls) /\ automaticQueue \in Seq(Calls)
          /\ Append(manualQueue, c) \in Seq(Calls)
          /\ Append(automaticQueue, c) \in Seq(Calls)
      BY DEF TypeOK
    <3>2. /\ manualQueue' \in {manualQueue, Append(manualQueue, c)}
          /\ automaticQueue' \in {automaticQueue, Append(automaticQueue, c)}
      BY <1>4 DEF QueryQueued, queueVars
    <3> QED BY <3>1, <3>2
  <2>3. /\ activeTask' \in Calls \cup {NoCall} /\ attempt' \in {0, 1}
        /\ recycling' \in {"no", "retry", "fail"} /\ ops' \in SUBSET Operation
    <3>1. CASE Execute(c)
      BY <3>1, ExecuteType
    <3>2. CASE UNCHANGED <<activeTask, execVars, ops>>
      BY <3>2 DEF TypeOK, execVars
    <3> QED BY <1>4, <3>1, <3>2 DEF QueryQueued
  <2> QED BY <2>1, <2>2, <2>3 DEF TypeOK
<1> QED BY <1>1, <1>2, <1>3, <1>4 DEF Query

LEMMA TypeDrainNext ==
    ASSUME TypeOK, DrainNext
    PROVE  TypeOK'
<1>1. ASSUME NEW i \in DOMAIN manualQueue,
             manualQueue' = After(manualQueue, i), UNCHANGED automaticQueue,
             task' = [task EXCEPT ![manualQueue[i]] = "active"],
             Execute(manualQueue[i])
      PROVE  TypeOK'
  <2>1. manualQueue[i] \in Calls
    BY DEF TypeOK
  <2>2. After(manualQueue, i) \in Seq(Calls)
    BY DEF TypeOK, After
  <2> QED BY <1>1, <2>1, <2>2, ExecuteType DEF TypeOK, DrainNext, callVars
<1>2. ASSUME NEW i \in DOMAIN automaticQueue,
             manualQueue' = <<>>, automaticQueue' = After(automaticQueue, i),
             task' = [task EXCEPT ![automaticQueue[i]] = "active"],
             Execute(automaticQueue[i])
      PROVE  TypeOK'
  <2>1. automaticQueue[i] \in Calls
    BY DEF TypeOK
  <2>2. After(automaticQueue, i) \in Seq(Calls)
    BY DEF TypeOK, After
  <2>3. <<>> \in Seq(Calls)
    OBVIOUS
  <2> QED BY <1>2, <2>1, <2>2, <2>3, ExecuteType DEF TypeOK, DrainNext, callVars
<1> QED BY <1>1, <1>2 DEF DrainNext, TakeManual, TakeAutomatic

LEMMA TypeOperation ==
    ASSUME TypeOK, NEW o \in ops,
           Running(o) \/ Succeed(o) \/ Fail(o) \/ LoseConnection(o) \/ AbandonedEnds(o)
    PROVE  TypeOK'
<1>0. o \in Operation /\ o.task \in Calls /\ o.version \in Versions
  BY DEF TypeOK, Operation
<1>1. CASE Running(o)
  <2>1. [o EXCEPT !.phase = "running", !.version = dbVersion] \in Operation
    BY <1>0 DEF TypeOK, Operation
  <2> QED BY <1>1, <2>1 DEF TypeOK, Running, queueVars, callVars, execVars
<1>2. CASE Succeed(o)
  <2>1. keyOf[o.task] \in Keys
    BY <1>0 DEF TypeOK
  <2>2. cache' \in Seq(Entry)
    BY <1>0, <1>2, <2>1, RememberType DEF TypeOK, Succeed
  <2> QED BY <1>0, <1>2, <2>2 DEF TypeOK, Succeed, Finish, queueVars, callVars, execVars
<1>3. CASE Fail(o)
  BY <1>0, <1>3 DEF TypeOK, Fail, Finish, queueVars, callVars, execVars
<1>4. CASE LoseConnection(o)
  BY <1>4 DEF TypeOK, LoseConnection, NextConnection, queueVars, callVars
<1>5. CASE AbandonedEnds(o)
  BY <1>5 DEF TypeOK, AbandonedEnds, queueVars, callVars, execVars
<1> QED BY <1>1, <1>2, <1>3, <1>4, <1>5

LEMMA TypeRetry ==
    ASSUME TypeOK, LoopInv, Retry
    PROVE  TypeOK'
<1>1. activeTask \in Calls
  BY DEF TypeOK, LoopInv, Retry
<1>2. [task |-> activeTask, conn |-> generation,
       phase |-> "setup", version |-> 0] \in Operation
  BY <1>1, BoundAssumption DEF TypeOK, Operation, Versions
<1>3. attempt + 1 = 1
  BY DEF LoopInv, Retry
<1> QED BY <1>2, <1>3 DEF TypeOK, Retry, queueVars, callVars

LEMMA TypeStep == TypeOK /\ LoopInv /\ [Next]_vars => TypeOK'
<1> SUFFICES ASSUME TypeOK, LoopInv, [Next]_vars PROVE TypeOK'
  OBVIOUS
<1>1. ASSUME NEW c \in Calls, Query(c) PROVE TypeOK'
  BY <1>1, TypeQuery
<1>2. ASSUME NEW c \in Calls, QueueTimeout(c) PROVE TypeOK'
  BY <1>2 DEF TypeOK, QueueTimeout, queueVars, callVars, execVars
<1>3. ASSUME NEW k \in Keys, Forget(k) PROVE TypeOK'
  BY <1>3 DEF TypeOK, Forget, queueVars, callVars, execVars
<1>4. CASE ExpireOldest
  <2>1. Tail(cache) \in Seq(Entry)
    BY <1>4 DEF TypeOK, ExpireOldest
  <2> QED BY <1>4, <2>1 DEF TypeOK, ExpireOldest, queueVars, callVars, execVars
<1>5. CASE DrainNext
  BY <1>5, TypeDrainNext
<1>6. CASE DrainEnd
  <2>1. <<>> \in Seq(Calls)
    OBVIOUS
  <2> QED BY <1>6, <2>1 DEF TypeOK, DrainEnd, callVars, execVars
<1>7. CASE DatabaseStep
  BY <1>7, TypeOperation DEF DatabaseStep
<1>8. CASE Watchdog
  BY <1>8 DEF TypeOK, Watchdog, NextConnection, queueVars, callVars
<1>9. CASE Retry
  BY <1>9, TypeRetry
<1>10. CASE GiveUp
  BY <1>10 DEF TypeOK, GiveUp, Finish, queueVars, callVars
<1>11. CASE Close
  <2>1. <<>> \in Seq(Calls) /\ <<>> \in Seq(Entry)
    OBVIOUS
  <2> QED BY <1>11, <2>1 DEF TypeOK, Close, callVars, execVars
<1>12. CASE CloseDone
  BY <1>12 DEF TypeOK, CloseDone, queueVars, callVars, execVars
<1>13. CASE ForeignCommit
  <2>1. dbVersion + 1 \in Versions
    BY <1>13, BoundAssumption DEF TypeOK, ForeignCommit, Versions
  <2> QED BY <1>13, <2>1 DEF TypeOK, ForeignCommit, queueVars, callVars, execVars
<1>14. CASE UNCHANGED vars
  BY <1>14 DEF TypeOK, vars
<1> QED BY <1>1, <1>2, <1>3, <1>4, <1>5, <1>6, <1>7, <1>8, <1>9, <1>10, <1>11,
           <1>12, <1>13, <1>14 DEF Next

-----------------------------------------------------------------------------
(* What the steps have in common.                                          *)

\* The two ways in which the drain loop hands over a task, as one fact.
LEMMA DrainNextTakes ==
    ASSUME TypeOK, QueueInv, DrainNext
    PROVE  \E t \in Calls :
               /\ task[t] = "queued"
               /\ task' = [task EXCEPT ![t] = "active"]
               /\ Execute(t)
<1>1. CASE TakeManual
  <2>1. PICK i \in DOMAIN manualQueue :
            /\ IsNext(manualQueue, i)
            /\ task' = [task EXCEPT ![manualQueue[i]] = "active"]
            /\ Execute(manualQueue[i])
    BY <1>1 DEF TakeManual
  <2>2. manualQueue[i] \in Calls
    BY DEF TypeOK
  <2>3. task[manualQueue[i]] = "queued"
    BY <2>1 DEF QueueInv, IsNext
  <2> QED BY <2>1, <2>2, <2>3
<1>2. CASE TakeAutomatic
  <2>1. PICK i \in DOMAIN automaticQueue :
            /\ IsNext(automaticQueue, i)
            /\ task' = [task EXCEPT ![automaticQueue[i]] = "active"]
            /\ Execute(automaticQueue[i])
    BY <1>2 DEF TakeAutomatic
  <2>2. automaticQueue[i] \in Calls
    BY DEF TypeOK
  <2>3. task[automaticQueue[i]] = "queued"
    BY <2>1 DEF QueueInv, IsNext
  <2> QED BY <2>1, <2>2, <2>3
<1> QED BY <1>1, <1>2 DEF DrainNext

\* The end of execute(), on success, failure or after the watchdog.
LEMMA FinishEffect ==
    ASSUME TypeOK, LoopInv, NEW t \in Calls, NEW result, Finish(t, result), t = activeTask
    PROVE  /\ task[t] = "active"
           /\ \A u \in Calls : u # t => task[u] # "active"
           /\ task' = [task EXCEPT ![t] = "done"]
           /\ outcome' = [outcome EXCEPT ![t] = result]
BY DEF LoopInv, Finish

\* Every step that ends execute() ends it with something that is not pending.
LEMMA FinishOutcome ==
    ASSUME TypeOK, LoopInv,
           GiveUp \/ \E o \in ops : Succeed(o) \/ Fail(o)
    PROVE  \E t \in Calls, result \in Versions \cup {Rejected} :
               /\ t = activeTask
               /\ result # Pending
               /\ recycling' = "no"
               /\ Finish(t, result)
<1>1. Rejected # Pending /\ \A v \in Versions : v # Pending
  BY OutcomeAssumption, BoundAssumption DEF Versions
<1>2. CASE GiveUp
  BY <1>1, <1>2 DEF GiveUp, LoopInv, TypeOK
<1>3. ASSUME NEW o \in ops, Succeed(o)
      PROVE  \E t \in Calls, result \in Versions \cup {Rejected} :
                 t = activeTask /\ result # Pending /\ recycling' = "no" /\ Finish(t, result)
  <2>1. o.task \in Calls /\ o.version \in Versions
    BY DEF TypeOK, Operation
  <2> QED BY <1>1, <1>3, <2>1 DEF Succeed, Awaited, execVars
<1>4. ASSUME NEW o \in ops, Fail(o)
      PROVE  \E t \in Calls, result \in Versions \cup {Rejected} :
                 t = activeTask /\ result # Pending /\ recycling' = "no" /\ Finish(t, result)
  <2>1. o.task \in Calls
    BY DEF TypeOK, Operation
  <2> QED BY <1>1, <1>4, <2>1 DEF Fail, Awaited, execVars
<1> QED BY <1>2, <1>3, <1>4

-----------------------------------------------------------------------------
(* PromiseInv.                                                             *)

LEMMA PromiseStep == IInv /\ [Next]_vars => PromiseInv'
<1> SUFFICES ASSUME TypeOK, PromiseInv, QueueInv, LoopInv, [Next]_vars
             PROVE  PromiseInv'
  BY DEF IInv
<1>0. Rejected # Pending /\ \A v \in Versions : v # Pending
  BY OutcomeAssumption, BoundAssumption DEF Versions
<1> USE DEF PromiseInv, Live
<1>1. ASSUME NEW c \in Calls, Query(c) PROVE PromiseInv'
  <2>0. task[c] = "none" /\ outcome[c] # Pending
    BY <1>1 DEF Query
  <2>1. CASE QueryRejected(c)
    BY <1>0, <2>0, <2>1, CallsAssumption DEF TypeOK, QueryRejected
  <2>2. ASSUME NEW k \in Keys, NEW mode \in CacheModes, QueryCached(c, k, mode)
        PROVE  PromiseInv'
    <3>1. Stored(k) \in Versions
      BY <2>2, StoredType DEF TypeOK, QueryCached, Hits
    <3> QED BY <1>0, <2>0, <2>2, <3>1, CallsAssumption DEF TypeOK, QueryCached
  <2>3. ASSUME NEW k \in Keys, NEW mode \in CacheModes, QueryJoined(c, k, mode)
        PROVE  PromiseInv'
    BY <2>0, <2>3, CallsAssumption DEF TypeOK, QueryJoined
  <2>4. ASSUME NEW k \in Keys, NEW mode \in CacheModes, NEW p \in Priorities,
               QueryQueued(c, k, p, mode)
        PROVE  PromiseInv'
    <3>1. /\ task' \in {[task EXCEPT ![c] = "queued"], [task EXCEPT ![c] = "active"]}
          /\ inFlight[k] = NoCall
          /\ keyOf' = [keyOf EXCEPT ![c] = k]
          /\ promiseOf' = [promiseOf EXCEPT ![c] = c]
          /\ outcome' = [outcome EXCEPT ![c] = Pending]
          /\ inFlight' = [inFlight EXCEPT ![k] = c]
      BY <2>4 DEF QueryQueued, Joins
    <3>2. \A t \in Calls : t # c => task'[t] = task[t] /\ outcome'[t] = outcome[t]
                                    /\ keyOf'[t] = keyOf[t] /\ promiseOf'[t] = promiseOf[t]
      BY <3>1 DEF TypeOK
    <3>3. task'[c] \in {"queued", "active"} /\ outcome'[c] = Pending /\ keyOf'[c] = k
          /\ promiseOf'[c] = c /\ inFlight'[k] = c
      BY <3>1 DEF TypeOK
    <3>4. \A t \in Calls : Live(t) => keyOf[t] # k /\ inFlight'[keyOf[t]] = t
      BY <3>1, CallsAssumption DEF TypeOK
    <3> QED BY <3>2, <3>3, <3>4, CallsAssumption
  <2> QED BY <1>1, <2>1, <2>2, <2>3, <2>4 DEF Query
<1>2. ASSUME NEW c \in Calls, QueueTimeout(c) PROVE PromiseInv'
  BY <1>0, <1>2 DEF TypeOK, QueueTimeout, callVars
<1>3. ASSUME NEW k \in Keys, Forget(k) PROVE PromiseInv'
  BY <1>3 DEF TypeOK, Forget, callVars
<1>4. CASE DrainNext
  <2>1. PICK t \in Calls : task[t] = "queued" /\ task' = [task EXCEPT ![t] = "active"]
    BY <1>4, DrainNextTakes
  <2> QED BY <1>4, <2>1 DEF TypeOK, DrainNext, callVars
<1>5. CASE GiveUp \/ \E o \in ops : Succeed(o) \/ Fail(o)
  <2>1. PICK t \in Calls, result \in Versions \cup {Rejected} :
            t = activeTask /\ result # Pending /\ Finish(t, result)
    BY <1>5, FinishOutcome
  <2>2. task[t] = "active"
    BY <2>1 DEF LoopInv
  <2> QED BY <2>1, <2>2 DEF TypeOK, Finish, callVars
<1>6. CASE Close
  BY <1>0, <1>6 DEF TypeOK, Close, callVars
<1>7. CASE \/ ExpireOldest \/ DrainEnd \/ Watchdog \/ Retry \/ CloseDone \/ ForeignCommit
           \/ \E o \in ops : Running(o) \/ LoseConnection(o) \/ AbandonedEnds(o)
           \/ UNCHANGED vars
  <2>1. UNCHANGED <<task, outcome, inFlight, keyOf, promiseOf>>
    BY <1>7 DEF ExpireOldest, DrainEnd, Watchdog, Retry, CloseDone, ForeignCommit,
                Running, LoseConnection, AbandonedEnds, vars, callVars
  <2> QED BY <2>1
<1> QED BY <1>1, <1>2, <1>3, <1>4, <1>5, <1>6, <1>7 DEF Next, DatabaseStep

-----------------------------------------------------------------------------
(* LoopInv.                                                                *)

LEMMA LoopStep == IInv /\ [Next]_vars => LoopInv'
<1> SUFFICES ASSUME TypeOK, PromiseInv, QueueInv, LoopInv, [Next]_vars
             PROVE  LoopInv'
  BY DEF IInv
<1> USE CallsAssumption DEF LoopInv, closed
<1>1. ASSUME NEW c \in Calls, Query(c) PROVE LoopInv'
  <2>0. task[c] = "none"
    BY <1>1 DEF Query, PromiseInv
  <2>1. CASE QueryRejected(c)
    BY <2>0, <2>1 DEF TypeOK, QueryRejected, execVars
  <2>2. ASSUME NEW k \in Keys, NEW mode \in CacheModes, QueryCached(c, k, mode)
        PROVE  LoopInv'
    BY <2>0, <2>2 DEF TypeOK, QueryCached, execVars
  <2>3. ASSUME NEW k \in Keys, NEW mode \in CacheModes, QueryJoined(c, k, mode)
        PROVE  LoopInv'
    BY <2>3 DEF QueryJoined, execVars
  <2>4. ASSUME NEW k \in Keys, NEW mode \in CacheModes, NEW p \in Priorities,
               QueryQueued(c, k, p, mode)
        PROVE  LoopInv'
    <3>1. CASE draining
      BY <2>0, <2>4, <3>1 DEF TypeOK, QueryQueued, execVars
    <3>2. CASE ~draining
      BY <2>0, <2>4, <3>2 DEF TypeOK, QueryQueued, Execute
    <3> QED BY <3>1, <3>2
  <2> QED BY <1>1, <2>1, <2>2, <2>3, <2>4 DEF Query
<1>2. ASSUME NEW c \in Calls, QueueTimeout(c) PROVE LoopInv'
  BY <1>2 DEF TypeOK, QueueTimeout, execVars
<1>3. CASE DrainNext
  <2>1. PICK t \in Calls : task[t] = "queued" /\ task' = [task EXCEPT ![t] = "active"]
                           /\ Execute(t)
    BY <1>3, DrainNextTakes
  <2> QED BY <1>3, <2>1 DEF TypeOK, DrainNext, Execute
<1>4. CASE DrainEnd
  <2>1. \A t \in Calls : task[t] # "queued"
    BY <1>4 DEF DrainEnd, NothingIn, QueueInv
  <2> QED BY <1>4, <2>1 DEF DrainEnd, execVars
<1>5. CASE GiveUp \/ \E o \in ops : Succeed(o) \/ Fail(o)
  <2>1. PICK t \in Calls, result \in Versions \cup {Rejected} :
            t = activeTask /\ recycling' = "no" /\ Finish(t, result)
    BY <1>5, FinishOutcome
  <2> QED BY <2>1 DEF TypeOK, Finish
<1>6. CASE \E o \in ops : LoseConnection(o)
  <2>1. PICK o \in ops : LoseConnection(o)
    BY <1>6
  <2>2. o.task \in Calls
    BY DEF TypeOK, Operation
  <2> QED BY <2>1, <2>2 DEF LoseConnection, Awaited
<1>7. CASE Close
  BY <1>7 DEF TypeOK, Close, execVars
<1>8. CASE Watchdog \/ Retry \/ CloseDone
  BY <1>8 DEF Watchdog, Retry, CloseDone, execVars
<1>9. CASE \/ ExpireOldest \/ ForeignCommit \/ UNCHANGED vars \/ \E k \in Keys : Forget(k)
           \/ \E o \in ops : Running(o) \/ AbandonedEnds(o)
  <2>1. UNCHANGED <<task, activeTask, draining, closePhase, execVars>>
    BY <1>9 DEF ExpireOldest, ForeignCommit, Forget, Running, AbandonedEnds, vars, execVars
  <2> QED BY <2>1 DEF execVars
<1> QED BY <1>1, <1>2, <1>3, <1>4, <1>5, <1>6, <1>7, <1>8, <1>9 DEF Next, DatabaseStep

-----------------------------------------------------------------------------
(* QueueInv.                                                               *)

LEMMA AfterProperties ==
    ASSUME NEW q \in Seq(Calls), NEW i \in DOMAIN q
    PROVE  /\ After(q, i) \in Seq(Calls)
           /\ DOMAIN After(q, i) = 1..(Len(q) - i)
           /\ \A j \in 1..(Len(q) - i) : After(q, i)[j] = q[i + j] /\ i + j \in DOMAIN q
BY DEF After

\* A queue on its own: what may stand in it, and only once.
GoodQueue(q) ==
    /\ \A i \in DOMAIN q : task[q[i]] \in {"queued", "cancelled"}
    /\ \A i, j \in DOMAIN q : q[i] = q[j] => i = j
In(t, q) == \E i \in DOMAIN q : q[i] = t

\* Taking the next task leaves a good queue that holds all other queued tasks.
LEMMA TakeFrom ==
    ASSUME TypeOK, NEW q \in Seq(Calls), GoodQueue(q), NEW i \in DOMAIN q, IsNext(q, i)
    PROVE  /\ \A j \in DOMAIN After(q, i) : In(After(q, i)[j], q) /\ After(q, i)[j] # q[i]
           /\ \A j, l \in DOMAIN After(q, i) : After(q, i)[j] = After(q, i)[l] => j = l
           /\ \A t \in Calls : task[t] = "queued" /\ In(t, q) /\ t # q[i] => In(t, After(q, i))
<1>1. /\ DOMAIN After(q, i) = 1..(Len(q) - i)
      /\ \A j \in 1..(Len(q) - i) : After(q, i)[j] = q[i + j] /\ i + j \in DOMAIN q
  BY AfterProperties
<1>2. i \in 1..Len(q) /\ DOMAIN q = 1..Len(q) /\ Len(q) \in Nat
  OBVIOUS
<1>3. \A j \in DOMAIN After(q, i) : In(After(q, i)[j], q) /\ After(q, i)[j] # q[i]
  BY <1>1, <1>2 DEF In, GoodQueue
<1>4. \A j, l \in DOMAIN After(q, i) : After(q, i)[j] = After(q, i)[l] => j = l
  BY <1>1, <1>2 DEF GoodQueue
<1>5. ASSUME NEW t \in Calls, task[t] = "queued", In(t, q), t # q[i]
      PROVE  In(t, After(q, i))
  <2>1. PICK n \in DOMAIN q : q[n] = t
    BY <1>5 DEF In
  <2>2. n > i
    BY <1>2, <1>5, <2>1 DEF IsNext
  <2>3. n - i \in 1..(Len(q) - i) /\ After(q, i)[n - i] = t
    BY <1>1, <1>2, <2>1, <2>2
  <2> QED BY <1>1, <2>3 DEF In
<1> QED BY <1>3, <1>4, <1>5

LEMMA QueueInvParts ==
    QueueInv <=> /\ GoodQueue(manualQueue) /\ GoodQueue(automaticQueue)
                 /\ \A i \in DOMAIN manualQueue : ~In(manualQueue[i], automaticQueue)
                 /\ \A t \in Calls : task[t] = "queued" => In(t, manualQueue) \/ In(t, automaticQueue)
BY DEF QueueInv, GoodQueue, In

\* The queues stay as they are while no queued or cancelled task changes its
\* state, except that a queued one may be cancelled.
LEMMA QueuesUntouched ==
    ASSUME TypeOK, QueueInv, UNCHANGED queueVars,
           \A t \in Calls : /\ task[t] = "cancelled" => task'[t] = "cancelled"
                            /\ task[t] = "queued" => task'[t] \in {"queued", "cancelled"}
                            /\ task'[t] = "queued" => task[t] = "queued"
    PROVE  QueueInv'
<1>1. /\ \A i \in DOMAIN manualQueue : manualQueue[i] \in Calls
      /\ \A i \in DOMAIN automaticQueue : automaticQueue[i] \in Calls
  BY DEF TypeOK
<1> QED BY <1>1 DEF QueueInv, queueVars

LEMMA QueueDrainNext ==
    ASSUME TypeOK, QueueInv, DrainNext
    PROVE  QueueInv'
<1>0. /\ GoodQueue(manualQueue) /\ GoodQueue(automaticQueue)
      /\ \A i \in DOMAIN manualQueue : ~In(manualQueue[i], automaticQueue)
      /\ \A t \in Calls : task[t] = "queued" => In(t, manualQueue) \/ In(t, automaticQueue)
      /\ manualQueue \in Seq(Calls) /\ automaticQueue \in Seq(Calls)
      /\ \A j \in DOMAIN manualQueue : manualQueue[j] \in Calls
      /\ \A j \in DOMAIN automaticQueue : automaticQueue[j] \in Calls
  BY QueueInvParts DEF TypeOK
<1>1. CASE TakeManual
  <2>1. PICK i \in DOMAIN manualQueue :
            /\ IsNext(manualQueue, i)
            /\ manualQueue' = After(manualQueue, i)
            /\ automaticQueue' = automaticQueue
            /\ task' = [task EXCEPT ![manualQueue[i]] = "active"]
    BY <1>1 DEF TakeManual
  <2> DEFINE q == After(manualQueue, i)
  <2>2. /\ \A j \in DOMAIN q : In(q[j], manualQueue) /\ q[j] # manualQueue[i]
        /\ \A j, l \in DOMAIN q : q[j] = q[l] => j = l
        /\ \A t \in Calls : task[t] = "queued" /\ In(t, manualQueue) /\ t # manualQueue[i] => In(t, q)
    BY <1>0, <2>1, TakeFrom
  <2> HIDE DEF q
  <2>3. \A t \in Calls : task'[t] = IF t = manualQueue[i] THEN "active" ELSE task[t]
    BY <1>0, <2>1 DEF TypeOK
  <2>4. \A j \in DOMAIN q : q[j] \in Calls /\ task[q[j]] \in {"queued", "cancelled"}
                            /\ ~In(q[j], automaticQueue)
    BY <1>0, <2>2 DEF In, GoodQueue
  <2>5. \A j \in DOMAIN automaticQueue : automaticQueue[j] # manualQueue[i]
    BY <1>0 DEF In
  <2>6. \A t \in Calls : task'[t] = "queued" => In(t, q) \/ In(t, automaticQueue)
    BY <1>0, <2>2, <2>3
  <2>7. manualQueue' = q
    BY <2>1 DEF q
  <2> QED BY <1>0, <2>1, <2>2, <2>3, <2>4, <2>5, <2>6, <2>7 DEF QueueInv, GoodQueue, In
<1>2. CASE TakeAutomatic
  <2>1. PICK i \in DOMAIN automaticQueue :
            /\ IsNext(automaticQueue, i)
            /\ manualQueue' = <<>>
            /\ automaticQueue' = After(automaticQueue, i)
            /\ task' = [task EXCEPT ![automaticQueue[i]] = "active"]
    BY <1>2 DEF TakeAutomatic
  <2> DEFINE q == After(automaticQueue, i)
  <2>2. /\ \A j \in DOMAIN q : In(q[j], automaticQueue) /\ q[j] # automaticQueue[i]
        /\ \A j, l \in DOMAIN q : q[j] = q[l] => j = l
        /\ \A t \in Calls : task[t] = "queued" /\ In(t, automaticQueue) /\ t # automaticQueue[i] => In(t, q)
    BY <1>0, <2>1, TakeFrom
  <2> HIDE DEF q
  <2>3. \A t \in Calls : task'[t] = IF t = automaticQueue[i] THEN "active" ELSE task[t]
    BY <1>0, <2>1 DEF TypeOK
  <2>4. \A j \in DOMAIN q : q[j] \in Calls /\ task[q[j]] \in {"queued", "cancelled"}
    BY <1>0, <2>2 DEF In, GoodQueue
  <2>5. \A t \in Calls : task[t] = "queued" => ~In(t, manualQueue)
    BY <1>2 DEF TakeAutomatic, NothingIn, In
  <2>6. \A t \in Calls : task'[t] = "queued" => In(t, q)
    BY <1>0, <2>2, <2>3, <2>5
  <2>7. automaticQueue' = q /\ DOMAIN manualQueue' = {}
    BY <2>1 DEF q
  <2> QED BY <2>2, <2>3, <2>4, <2>6, <2>7 DEF QueueInv, In
<1> QED BY <1>1, <1>2 DEF DrainNext

LEMMA QueueQuery ==
    ASSUME TypeOK, PromiseInv, QueueInv, NEW c \in Calls, Query(c)
    PROVE  QueueInv'
<1>0. task[c] = "none"
  BY DEF Query, PromiseInv
<1>1. CASE QueryRejected(c)
  BY <1>0, <1>1, QueuesUntouched DEF TypeOK, QueryRejected
<1>2. ASSUME NEW k \in Keys, NEW mode \in CacheModes, QueryCached(c, k, mode)
      PROVE  QueueInv'
  BY <1>0, <1>2, QueuesUntouched DEF TypeOK, QueryCached
<1>3. ASSUME NEW k \in Keys, NEW mode \in CacheModes, QueryJoined(c, k, mode)
      PROVE  QueueInv'
  BY <1>3, QueuesUntouched DEF QueryJoined
<1>4. ASSUME NEW k \in Keys, NEW mode \in CacheModes, NEW p \in Priorities,
             QueryQueued(c, k, p, mode)
      PROVE  QueueInv'
  <2>1. CASE ~draining
    <3>1. UNCHANGED queueVars /\ task' = [task EXCEPT ![c] = "active"]
      BY <1>4, <2>1 DEF QueryQueued
    <3> QED BY <1>0, <3>1, QueuesUntouched DEF TypeOK
  <2>2. CASE draining
    <3>1. task' = [task EXCEPT ![c] = "queued"]
      BY <1>4, <2>2 DEF QueryQueued
    <3>2. /\ manualQueue \in Seq(Calls) /\ automaticQueue \in Seq(Calls)
          /\ \A i \in DOMAIN manualQueue : manualQueue[i] \in Calls /\ manualQueue[i] # c
          /\ \A i \in DOMAIN automaticQueue : automaticQueue[i] \in Calls /\ automaticQueue[i] # c
      <4>1. manualQueue \in Seq(Calls) /\ automaticQueue \in Seq(Calls)
        BY DEF TypeOK
      <4>2. /\ \A i \in DOMAIN manualQueue : manualQueue[i] # c
            /\ \A i \in DOMAIN automaticQueue : automaticQueue[i] # c
        BY <1>0 DEF QueueInv
      <4> QED BY <4>1, <4>2
    <3>3. \A t \in Calls : task'[t] = IF t = c THEN "queued" ELSE task[t]
      BY <3>1 DEF TypeOK
    <3>4. CASE manualQueue' = Append(manualQueue, c) /\ automaticQueue' = automaticQueue
      <4>1. DOMAIN manualQueue' = 1..(Len(manualQueue) + 1)
            /\ \A i \in 1..Len(manualQueue) : manualQueue'[i] = manualQueue[i]
            /\ manualQueue'[Len(manualQueue) + 1] = c
            /\ DOMAIN manualQueue = 1..Len(manualQueue) /\ Len(manualQueue) \in Nat
        BY <3>2, <3>4
      <4>2. \A i \in DOMAIN manualQueue' : i = Len(manualQueue) + 1 \/ i \in DOMAIN manualQueue
        BY <4>1
      <4>3. Len(manualQueue) + 1 \in DOMAIN manualQueue'
            /\ \A i \in DOMAIN manualQueue : i \in DOMAIN manualQueue'
        BY <4>1
      <4> QED BY <3>2, <3>3, <3>4, <4>1, <4>2, <4>3 DEF QueueInv
    <3>5. CASE automaticQueue' = Append(automaticQueue, c) /\ manualQueue' = manualQueue
      <4>1. DOMAIN automaticQueue' = 1..(Len(automaticQueue) + 1)
            /\ \A i \in 1..Len(automaticQueue) : automaticQueue'[i] = automaticQueue[i]
            /\ automaticQueue'[Len(automaticQueue) + 1] = c
            /\ DOMAIN automaticQueue = 1..Len(automaticQueue) /\ Len(automaticQueue) \in Nat
        BY <3>2, <3>5
      <4>2. \A i \in DOMAIN automaticQueue' : i = Len(automaticQueue) + 1 \/ i \in DOMAIN automaticQueue
        BY <4>1
      <4>3. Len(automaticQueue) + 1 \in DOMAIN automaticQueue'
            /\ \A i \in DOMAIN automaticQueue : i \in DOMAIN automaticQueue'
        BY <4>1
      <4> QED BY <3>2, <3>3, <3>5, <4>1, <4>2, <4>3 DEF QueueInv
    <3> QED BY <1>4, <2>2, <3>4, <3>5 DEF QueryQueued
  <2> QED BY <2>1, <2>2
<1> QED BY <1>1, <1>2, <1>3, <1>4 DEF Query

LEMMA QueueStep == IInv /\ [Next]_vars => QueueInv'
<1> SUFFICES ASSUME TypeOK, PromiseInv, QueueInv, LoopInv, [Next]_vars
             PROVE  QueueInv'
  BY DEF IInv
<1>1. ASSUME NEW c \in Calls, Query(c) PROVE QueueInv'
  BY <1>1, QueueQuery
<1>2. ASSUME NEW c \in Calls, QueueTimeout(c) PROVE QueueInv'
  BY <1>2, QueuesUntouched DEF TypeOK, QueueTimeout
<1>3. CASE DrainNext
  BY <1>3, QueueDrainNext
<1>4. CASE DrainEnd
  <2>1. \A t \in Calls : task'[t] # "queued"
    BY <1>4 DEF DrainEnd, NothingIn, QueueInv, LoopInv
  <2> QED BY <1>4, <2>1 DEF DrainEnd, QueueInv
<1>5. CASE GiveUp \/ \E o \in ops : Succeed(o) \/ Fail(o)
  <2>1. PICK t \in Calls, result \in Versions \cup {Rejected} :
            t = activeTask /\ Finish(t, result)
    BY <1>5, FinishOutcome
  <2>2. task[t] = "active"
    BY <2>1 DEF LoopInv
  <2> QED BY <2>1, <2>2, QueuesUntouched DEF TypeOK, Finish
<1>6. CASE Close
  BY <1>6 DEF TypeOK, Close, QueueInv
<1>7. CASE \/ ExpireOldest \/ Watchdog \/ Retry \/ CloseDone \/ ForeignCommit
           \/ UNCHANGED vars \/ \E k \in Keys : Forget(k)
           \/ \E o \in ops : Running(o) \/ LoseConnection(o) \/ AbandonedEnds(o)
  <2>1. UNCHANGED <<task, queueVars>>
    BY <1>7 DEF ExpireOldest, Watchdog, Retry, CloseDone, ForeignCommit, Forget,
                Running, LoseConnection, AbandonedEnds, vars, queueVars
  <2> QED BY <2>1, QueuesUntouched
<1> QED BY <1>1, <1>2, <1>3, <1>4, <1>5, <1>6, <1>7 DEF Next, DatabaseStep

-----------------------------------------------------------------------------
(* OperationInv.                                                           *)

\* The operation execute() starts on the connection in use is alone there.
LEMMA StartOperation ==
    ASSUME TypeOK, OperationInv, NEW o, o.conn = generation, ops' = ops \cup {o},
           activeTask = NoCall \/ recycling # "no", UNCHANGED generation,
           o.task = activeTask', recycling' = "no"
    PROVE  OperationInv'
<1>0. /\ generation \in Nat
      /\ \A p \in ops : p.conn \in Nat /\ p.task # NoCall
  BY CallsAssumption DEF TypeOK, Operation
<1>1. \A p \in ops : p.conn # generation
  BY <1>0 DEF OperationInv
<1> QED BY <1>0, <1>1 DEF OperationInv

LEMMA OperationStep == IInv /\ [Next]_vars => OperationInv'
<1> SUFFICES ASSUME TypeOK, LoopInv, PromiseInv, QueueInv, OperationInv, [Next]_vars
             PROVE  OperationInv'
  BY DEF IInv
<1>0. /\ generation \in Nat
      /\ \A o \in ops : o.conn \in Nat /\ o.task \in Calls
  BY DEF TypeOK, Operation
<1>a. ASSUME NEW t \in Calls, activeTask = NoCall, Execute(t), UNCHANGED generation
      PROVE  OperationInv'
  <2> DEFINE o == [task |-> t, conn |-> generation, phase |-> "setup", version |-> 0]
  <2>1. /\ o.conn = generation /\ ops' = ops \cup {o}
        /\ o.task = activeTask' /\ recycling' = "no"
    BY <1>a DEF Execute
  <2> HIDE DEF o
  <2> QED BY <1>a, <2>1, StartOperation
<1>1. ASSUME NEW c \in Calls, Query(c) PROVE OperationInv'
  <2>1. CASE UNCHANGED <<ops, generation, activeTask, execVars>>
    BY <2>1 DEF OperationInv, execVars
  <2>2. CASE Execute(c) /\ ~draining /\ UNCHANGED generation
    <3>1. activeTask = NoCall
      BY <2>2 DEF LoopInv
    <3> QED BY <1>a, <2>2, <3>1
  <2> QED BY <1>1, <2>1, <2>2
          DEF Query, QueryRejected, QueryCached, QueryJoined, QueryQueued, execVars
<1>2. CASE DrainNext
  <2>1. PICK t \in Calls : Execute(t)
    BY <1>2, DrainNextTakes
  <2> QED BY <1>2, <1>a, <2>1 DEF DrainNext
<1>3. ASSUME NEW o \in ops, Running(o) PROVE OperationInv'
  <2> DEFINE r == [o EXCEPT !.phase = "running", !.version = dbVersion]
  <2>1. r.conn = o.conn /\ r.task = o.task
    BY DEF TypeOK, Operation
  <2>2. ops' = (ops \ {o}) \cup {r} /\ UNCHANGED <<generation, activeTask, recycling>>
    BY <1>3 DEF Running, execVars
  <2> HIDE DEF r
  <2> QED BY <2>1, <2>2 DEF OperationInv
<1>4. ASSUME NEW o \in ops, Succeed(o) \/ Fail(o) PROVE OperationInv'
  <2>1. ops' = ops \ {o} /\ UNCHANGED generation /\ o.conn = generation
    BY <1>4 DEF Succeed, Fail, Awaited, execVars
  <2>2. \A p \in ops' : p.conn # generation
    BY <2>1 DEF OperationInv
  <2> QED BY <2>1, <2>2 DEF OperationInv
<1>5. ASSUME generation' = generation + 1, ops' \subseteq ops
      PROVE  OperationInv'
  <2>1. \A p \in ops' : p.conn < generation'
    BY <1>0, <1>5 DEF OperationInv
  <2> QED BY <1>0, <1>5, <2>1 DEF OperationInv
<1>6. CASE Retry
  <2> DEFINE o == [task |-> activeTask, conn |-> generation, phase |-> "setup", version |-> 0]
  <2>1. /\ o.conn = generation /\ ops' = ops \cup {o} /\ recycling # "no"
        /\ o.task = activeTask' /\ recycling' = "no" /\ UNCHANGED generation
    BY <1>6 DEF Retry
  <2> HIDE DEF o
  <2> QED BY <2>1, StartOperation
<1>7. CASE GiveUp
  <2>1. UNCHANGED <<ops, generation>> /\ recycling = "fail"
    BY <1>7 DEF GiveUp
  <2> QED BY <2>1 DEF OperationInv
<1>8. ASSUME NEW o \in ops, AbandonedEnds(o) PROVE OperationInv'
  <2>1. ops' \subseteq ops /\ UNCHANGED <<generation, activeTask, recycling>>
    BY <1>8 DEF AbandonedEnds, execVars
  <2> QED BY <2>1 DEF OperationInv
<1>9. CASE \/ ExpireOldest \/ DrainEnd \/ Close \/ CloseDone \/ ForeignCommit \/ UNCHANGED vars
           \/ \E k \in Keys : Forget(k)
           \/ \E c \in Calls : QueueTimeout(c)
  <2>1. UNCHANGED <<ops, generation, activeTask, recycling>>
    BY <1>9 DEF ExpireOldest, DrainEnd, Close, CloseDone, ForeignCommit, Forget,
                QueueTimeout, vars, execVars
  <2> QED BY <2>1 DEF OperationInv
<1>10. CASE Watchdog
  BY <1>5, <1>10 DEF Watchdog, NextConnection
<1>11. ASSUME NEW o \in ops, LoseConnection(o) PROVE OperationInv'
  BY <1>5, <1>11 DEF LoseConnection, NextConnection
<1>12. CASE DatabaseStep
  BY <1>3, <1>4, <1>8, <1>11, <1>12 DEF DatabaseStep
<1> QED BY <1>1, <1>2, <1>6, <1>7, <1>9, <1>10, <1>12 DEF Next

-----------------------------------------------------------------------------
(* The theorems.                                                           *)

LEMMA InitIInv == Init => IInv
<1> SUFFICES ASSUME Init PROVE IInv
  OBVIOUS
<1>1. TypeOK
  BY TypeInit
<1>2. \A t \in Calls : task[t] = "none" /\ outcome[t] = Unissued
  BY DEF Init
<1>3. PromiseInv
  BY <1>2, OutcomeAssumption DEF PromiseInv, Live
<1>4. QueueInv
  BY <1>2 DEF Init, QueueInv
<1>5. LoopInv
  BY <1>2, CallsAssumption DEF Init, LoopInv, closed
<1>6. OperationInv
  BY DEF Init, OperationInv
<1> QED BY <1>1, <1>3, <1>4, <1>5, <1>6 DEF IInv

\* The inductive invariant: types, promises, queues, the drain loop and the
\* operations of the broker fit together in every reachable state.
THEOREM InvariantHolds == Spec => []IInv
<1>1. IInv /\ [Next]_vars => IInv'
  BY TypeStep, PromiseStep, QueueStep, LoopStep, OperationStep DEF IInv
<1> QED BY InitIInv, <1>1, PTL DEF Spec

\* Every variable of the broker keeps its type, whatever the order of calls,
\* timers, answers and close().
THEOREM TypeCorrect == Spec => []TypeOK
<1>1. IInv => TypeOK
  BY DEF IInv
<1> QED BY InvariantHolds, <1>1, PTL

\* No caller is ever left waiting for a promise that nothing will settle.
THEOREM NoWaiterIsLost == Spec => []NoLostWaiter
<1>1. IInv => NoLostWaiter
  <2> SUFFICES ASSUME IInv, NEW c \in Calls, Waiting(c)
               PROVE  LET t == promiseOf[c]
                      IN  \/ task[t] = "active" /\ t = activeTask
                          \/ /\ task[t] = "queued" /\ draining /\ ~closed
                             /\ \/ \E i \in DOMAIN manualQueue : manualQueue[i] = t
                                \/ \E i \in DOMAIN automaticQueue : automaticQueue[i] = t
    BY DEF NoLostWaiter
  <2> DEFINE t == promiseOf[c]
  <2>1. t \in Calls /\ outcome[t] = Pending
    BY DEF Waiting, IInv, TypeOK
  <2>2. task[t] \in {"queued", "active"}
    BY <2>1 DEF IInv, PromiseInv, Live
  <2>3. CASE task[t] = "active"
    BY <2>1, <2>3 DEF IInv, LoopInv
  <2>4. CASE task[t] = "queued"
    BY <2>1, <2>4 DEF IInv, LoopInv, QueueInv
  <2> QED BY <2>2, <2>3, <2>4
<1> QED BY InvariantHolds, <1>1, PTL

\* Reads of one key are never queued or executing side by side.
THEOREM ReadsAreDeduplicated == Spec => []OneReadPerKey
<1>1. IInv => OneReadPerKey
  BY DEF IInv, PromiseInv, Live, OneReadPerKey
<1> QED BY InvariantHolds, <1>1, PTL

\* A connection never carries two operations, and is not closed under one.
THEOREM ConnectionsAreNotShared == Spec => []OneOperationPerConnection
<1>1. IInv => OneOperationPerConnection
  <2> SUFFICES ASSUME IInv PROVE OneOperationPerConnection
    OBVIOUS
  <2>1. \A o, p \in ops : o.conn = p.conn => o = p
    BY DEF IInv, OperationInv
  <2>2. ASSUME closePhase = "closed", NEW o \in ops PROVE o.conn < generation
    <3>1. o.conn \in Nat /\ o.task # NoCall /\ generation \in Nat
      BY CallsAssumption DEF IInv, TypeOK, Operation
    <3>2. activeTask = NoCall
      BY <2>2 DEF IInv, LoopInv
    <3> QED BY <3>1, <3>2 DEF IInv, OperationInv
  <2> QED BY <2>1, <2>2 DEF OneOperationPerConnection
<1> QED BY InvariantHolds, <1>1, PTL

-----------------------------------------------------------------------------
(* Sharing and freshness.                                                  *)

\* Promises are shared by calls of one key: the task behind a promise is a call
\* that was given its own, and a call that has no task of its own settles nothing.
ShareInv ==
    /\ \A c \in Calls : promiseOf[c] # NoCall =>
           /\ keyOf[promiseOf[c]] = keyOf[c]
           /\ promiseOf[promiseOf[c]] = promiseOf[c]
    /\ \A k \in Keys : inFlight[k] # NoCall =>
           keyOf[inFlight[k]] = k /\ promiseOf[inFlight[k]] = inFlight[k]
    /\ \A c \in Calls : promiseOf[c] = c <=> outcome[c] # Unissued

\* v is not older than what the promises and the cache hold for k.
Told(k, v)   == \A t \in Calls : keyOf[t] = k /\ outcome[t] \in Versions => outcome[t] <= v
Kept(k, v)   == \A i \in DOMAIN cache : cache[i].key = k => cache[i].version <= v
Newest(k, v) == Told(k, v) /\ Kept(k, v)

\* Nothing is newer than the database. The entry of a key is its only one and not
\* older than its answers; the read under way for a key, and its settled promise
\* as long as it is shared, are not older than answers and entry.
PastInv ==
    /\ \A t \in Calls : outcome[t] \in Versions => outcome[t] <= dbVersion
    /\ \A i \in DOMAIN cache : cache[i].version <= dbVersion
    /\ \A o \in ops : o.version <= dbVersion
CacheInv ==
    /\ \A i, j \in DOMAIN cache : cache[i].key = cache[j].key => i = j
    /\ \A i \in DOMAIN cache : Told(cache[i].key, cache[i].version)
    /\ closed => cache = <<>>
ReadInv ==
    \A o \in ops : (o.conn = generation /\ o.phase = "running") => Newest(keyOf[o.task], o.version)
FlightInv ==
    \A k \in Keys : (inFlight[k] # NoCall /\ outcome[inFlight[k]] \in Versions)
                        => Newest(k, outcome[inFlight[k]])

FreshInv == ShareInv /\ PastInv /\ CacheInv /\ ReadInv /\ FlightInv

\* A step that settles nothing with rows, stores nothing and starts no read keeps
\* all of it, whoever asks, forgets, expires or gives up.
LEMMA NothingNew ==
    ASSUME TypeOK, TypeOK', PastInv, CacheInv, ReadInv, FlightInv,
           \A t \in Calls : outcome'[t] \in Versions =>
               outcome'[t] = outcome[t] /\ keyOf'[t] = keyOf[t],
           dbVersion <= dbVersion',
           closed' => closed \/ cache' = <<>>,
           NEW n \in Nat,
           \A i \in DOMAIN cache' : i + n \in DOMAIN cache /\ cache'[i] = cache[i + n],
           \A o \in ops' : o \in ops \/ (o.phase = "setup" /\ o.version = 0),
           \A o \in ops' : o.conn = generation' /\ o.phase = "running" =>
               o \in ops /\ o.conn = generation /\ keyOf'[o.task] = keyOf[o.task],
           \A k \in Keys : inFlight'[k] # NoCall /\ outcome'[inFlight'[k]] \in Versions =>
               inFlight'[k] = inFlight[k]
    PROVE  (PastInv /\ CacheInv /\ ReadInv /\ FlightInv)'
<1>0. /\ Versions \subseteq Nat /\ dbVersion \in Nat /\ dbVersion' \in Nat
      /\ \A i \in DOMAIN cache : cache[i].key \in Keys /\ cache[i].version \in Versions
      /\ \A o \in ops : o.version \in Versions /\ o.task \in Calls
  <2>1. Versions \subseteq Nat /\ dbVersion \in Nat /\ dbVersion' \in Nat
    BY BoundAssumption DEF TypeOK, Versions
  <2>2. ASSUME NEW i \in DOMAIN cache PROVE cache[i].key \in Keys /\ cache[i].version \in Versions
    <3>1. cache[i] \in Entry
      BY DEF TypeOK
    <3> QED BY <3>1 DEF Entry
  <2>3. \A o \in ops : o.version \in Versions /\ o.task \in Calls
    BY DEF TypeOK, Operation
  <2> QED BY <2>1, <2>2, <2>3
<1>1. \A k \in Keys, v \in Versions : Told(k, v) => Told(k, v)'
  BY DEF Told
<1>2. \A k \in Keys, v \in Versions : Kept(k, v) => Kept(k, v)'
  BY DEF Kept
<1>3. \A k \in Keys, v \in Versions : Newest(k, v) => Newest(k, v)'
  BY <1>1, <1>2 DEF Newest
<1>4. PastInv'
  <2>0. \A v \in Versions : v <= dbVersion => v <= dbVersion'
    BY <1>0
  <2>1. \A t \in Calls : outcome'[t] \in Versions => outcome'[t] <= dbVersion'
    BY <2>0 DEF PastInv
  <2>2. \A i \in DOMAIN cache' : cache'[i].version <= dbVersion'
    BY <1>0, <2>0 DEF PastInv
  <2>3. \A o \in ops' : o.version <= dbVersion'
    <3> SUFFICES ASSUME NEW o \in ops' PROVE o.version <= dbVersion'
      OBVIOUS
    <3>1. CASE o \in ops
      BY <1>0, <2>0, <3>1 DEF PastInv
    <3>2. CASE o.version = 0
      BY <1>0, <3>2
    <3> QED BY <3>1, <3>2
  <2> QED BY <2>1, <2>2, <2>3 DEF PastInv
<1>5. CacheInv'
  <2>1. DOMAIN cache' \subseteq Nat
    BY DEF TypeOK
  <2>2. \A i, j \in DOMAIN cache' : cache'[i].key = cache'[j].key => i = j
    <3> SUFFICES ASSUME NEW i \in DOMAIN cache', NEW j \in DOMAIN cache',
                        cache'[i].key = cache'[j].key
                 PROVE  i = j
      OBVIOUS
    <3>1. i + n = j + n
      BY DEF CacheInv
    <3> QED BY <2>1, <3>1
  <2>3. \A i \in DOMAIN cache' : Told(cache[i].key, cache[i].version)'
    <3> SUFFICES ASSUME NEW i \in DOMAIN cache' PROVE Told(cache[i].key, cache[i].version)'
      OBVIOUS
    <3>1. PICK k \in Keys, v \in Versions : cache'[i].key = k /\ cache'[i].version = v
      BY <1>0
    <3>2. Told(k, v)
      BY <3>1 DEF CacheInv
    <3>3. Told(k, v)'
      BY <1>1, <3>2
    <3> QED BY <3>1, <3>3 DEF Told
  <2>4. closed' => cache' = <<>>
    <3>1. CASE cache = <<>>
      <4>1. DOMAIN cache = {}
        BY <3>1
      <4>2. DOMAIN cache' = {}
        BY <4>1
      <4>3. cache' \in Seq(Entry)
        BY DEF TypeOK
      <4> QED BY <4>2, <4>3
    <3> QED BY <3>1 DEF CacheInv
  <2> QED BY <2>2, <2>3, <2>4 DEF CacheInv, Told
<1>6. ReadInv'
  <2> SUFFICES ASSUME NEW o \in ops', o.conn = generation', o.phase = "running"
               PROVE  Newest(keyOf[o.task], o.version)'
    BY DEF ReadInv
  <2>1. o \in ops /\ o.conn = generation /\ keyOf'[o.task] = keyOf[o.task]
    OBVIOUS
  <2>2. PICK k \in Keys, v \in Versions : keyOf[o.task] = k /\ o.version = v
    BY <1>0, <2>1 DEF TypeOK
  <2>3. Newest(k, v)
    BY <2>1, <2>2 DEF ReadInv
  <2> QED BY <1>3, <2>1, <2>2, <2>3 DEF Newest, Told, Kept
<1>7. FlightInv'
  <2> SUFFICES ASSUME NEW k \in Keys, inFlight'[k] # NoCall, outcome'[inFlight'[k]] \in Versions
               PROVE  Newest(k, outcome[inFlight[k]])'
    BY DEF FlightInv
  <2>1. inFlight'[k] = inFlight[k] /\ inFlight[k] \in Calls
    BY DEF TypeOK
  <2>2. outcome'[inFlight'[k]] = outcome[inFlight[k]]
    BY <2>1
  <2>3. PICK v \in Versions : outcome[inFlight[k]] = v
    BY <2>2
  <2>4. Newest(k, v)
    BY <2>1, <2>3 DEF FlightInv
  <2> QED BY <1>3, <2>2, <2>3, <2>4 DEF Newest, Told, Kept
<1> QED BY <1>4, <1>5, <1>6, <1>7

\* Two sequences, one behind the other.
LEMMA JoinedSequences ==
    ASSUME NEW front \in Seq(Entry), NEW back \in Seq(Entry)
    PROVE  /\ front \o back \in Seq(Entry)
           /\ Len(front \o back) = Len(front) + Len(back)
           /\ \A i \in 1..(Len(front) + Len(back)) :
                  (front \o back)[i] = IF i <= Len(front) THEN front[i] ELSE back[i - Len(front)]
OBVIOUS

\* What is behind the n-th of l.
LEMMA Behind ==
    ASSUME NEW l \in Nat, NEW n \in 1..l
    PROVE  /\ l - (n + 1) + 1 = l - n
           /\ ~(n + 1 <= l) => l - n = 0
           /\ \A i \in 1..(l - n) : n + 1 + i - 1 = n + i
OBVIOUS

\* What Remember makes of a cache with one entry for each key: the others, in their
\* order, and the new entry in place of the old one.
LEMMA RememberHolds ==
    ASSUME cache \in Seq(Entry), \A i, j \in DOMAIN cache : cache[i].key = cache[j].key => i = j,
           ~closed, NEW k \in Keys, NEW v \in Versions
    PROVE  LET after == Remember(k, v)
           IN  /\ \A i, j \in DOMAIN after : after[i].key = after[j].key => i = j
               /\ \A j \in DOMAIN after :
                      \/ after[j].key = k /\ after[j].version = v
                      \/ after[j].key # k /\ \E i \in DOMAIN cache : cache[i] = after[j]
<1> DEFINE rest   == Without(k)
           new    == [key |-> k, version |-> v]
           longer == Append(rest, new)
           after  == Remember(k, v)
<1>1. /\ rest \in Seq(Entry)
      /\ \A i, j \in DOMAIN rest : rest[i].key = rest[j].key => i = j
      /\ \A j \in DOMAIN rest : rest[j].key # k /\ \E i \in DOMAIN cache : cache[i] = rest[j]
  <2>1. CASE Cached(k)
    <3>1. PICK n \in 1..Len(cache) : n = IndexOf(k) /\ cache[n].key = k
      <4>1. IndexOf(k) \in DOMAIN cache /\ cache[IndexOf(k)].key = k
        BY <2>1 DEF Cached, IndexOf
      <4> QED BY <4>1
    <3> DEFINE at(i) == IF i < n THEN i ELSE i + 1
    <3>2. Len(cache) \in Nat /\ DOMAIN cache = 1..Len(cache)
      OBVIOUS
    <3>3. /\ SubSeq(cache, 1, n - 1) \in Seq(Entry) /\ Len(SubSeq(cache, 1, n - 1)) = n - 1
          /\ \A i \in 1..(n - 1) : SubSeq(cache, 1, n - 1)[i] = cache[i]
      BY <3>2
    <3>4. /\ SubSeq(cache, n + 1, Len(cache)) \in Seq(Entry)
          /\ Len(SubSeq(cache, n + 1, Len(cache))) = Len(cache) - n
          /\ \A i \in 1..(Len(cache) - n) : SubSeq(cache, n + 1, Len(cache))[i] = cache[n + i]
      <4>1. n + 1 \in Int /\ Len(cache) \in Int /\ \A i \in (n + 1)..Len(cache) : cache[i] \in Entry
        <5>1. \A i \in 1..Len(cache) : cache[i] \in Entry
          OBVIOUS
        <5>2. \A i \in (n + 1)..Len(cache) : i \in 1..Len(cache)
          BY <3>2
        <5> QED BY <3>2, <5>1, <5>2
      <4>2. /\ SubSeq(cache, n + 1, Len(cache)) \in Seq(Entry)
            /\ Len(SubSeq(cache, n + 1, Len(cache))) =
                   IF n + 1 <= Len(cache) THEN Len(cache) - (n + 1) + 1 ELSE 0
            /\ \A i \in 1..(Len(cache) - (n + 1) + 1) :
                   SubSeq(cache, n + 1, Len(cache))[i] = cache[n + 1 + i - 1]
        BY <4>1, SubSeqProperties
      <4>3. /\ Len(cache) - (n + 1) + 1 = Len(cache) - n
            /\ ~(n + 1 <= Len(cache)) => Len(cache) - n = 0
            /\ \A i \in 1..(Len(cache) - n) : n + 1 + i - 1 = n + i
        BY <3>2, Behind
      <4> HIDE DEF rest, at
      <4> QED BY <4>2, <4>3
    <3>5. /\ rest \in Seq(Entry) /\ DOMAIN rest = 1..(Len(cache) - 1)
          /\ \A i \in 1..(Len(cache) - 1) : rest[i] = cache[at(i)]
      <4> DEFINE front == SubSeq(cache, 1, n - 1)
                 back  == SubSeq(cache, n + 1, Len(cache))
      <4>1. rest = front \o back
        BY <2>1, <3>1 DEF Without
      <4> HIDE DEF front, back, rest
      <4>2. front \in Seq(Entry) /\ Len(front) = n - 1 /\ back \in Seq(Entry) /\ Len(back) = Len(cache) - n
        BY <3>3, <3>4 DEF front, back
      <4>3. /\ rest \in Seq(Entry) /\ Len(rest) = Len(cache) - 1
            /\ \A i \in 1..Len(rest) : rest[i] = IF i <= n - 1 THEN front[i] ELSE back[i - (n - 1)]
        <5>1. /\ front \o back \in Seq(Entry) /\ Len(front \o back) = Len(front) + Len(back)
              /\ \A i \in 1..(Len(front) + Len(back)) :
                     (front \o back)[i] = IF i <= Len(front) THEN front[i] ELSE back[i - Len(front)]
          BY <4>2, JoinedSequences
        <5>2. Len(front) + Len(back) = Len(cache) - 1
          BY <3>2, <4>2
        <5> QED BY <4>1, <4>2, <5>1, <5>2
      <4>4. \A i \in 1..(Len(cache) - 1) : rest[i] = cache[at(i)]
        <5> SUFFICES ASSUME NEW i \in 1..(Len(cache) - 1) PROVE rest[i] = cache[at(i)]
          OBVIOUS
        <5>1. CASE i <= n - 1
          BY <3>2, <3>3, <4>3, <5>1 DEF front
        <5>2. CASE ~(i <= n - 1)
          <6>1. i - (n - 1) \in 1..(Len(cache) - n) /\ n + (i - (n - 1)) = i + 1 /\ ~(i < n)
            BY <3>2, <5>2
          <6>2. back[i - (n - 1)] = cache[n + (i - (n - 1))]
            BY <3>4, <6>1 DEF back
          <6> QED BY <3>2, <4>3, <5>2, <6>1, <6>2
        <5> QED BY <5>1, <5>2
      <4> QED BY <3>2, <4>3, <4>4
    <3> HIDE DEF rest
    <3>6. \A i \in 1..(Len(cache) - 1) : at(i) \in DOMAIN cache /\ at(i) # n
      BY <3>2
    <3>7. \A i, j \in 1..(Len(cache) - 1) : at(i) = at(j) => i = j
      BY <3>2
    <3> HIDE DEF at
    <3>8. \A i, j \in DOMAIN rest : rest[i].key = rest[j].key => i = j
      BY <3>5, <3>6, <3>7
    <3>9. \A j \in DOMAIN rest : rest[j].key # k /\ \E i \in DOMAIN cache : cache[i] = rest[j]
      BY <3>1, <3>2, <3>5, <3>6
    <3> QED BY <3>5, <3>8, <3>9
  <2>2. CASE ~Cached(k)
    BY <2>2 DEF Without, Cached
  <2> QED BY <2>1, <2>2
<1>2. new \in Entry /\ new.key = k /\ new.version = v
  BY DEF Entry
<1> HIDE DEF rest, new
<1>3. /\ longer \in Seq(Entry) /\ DOMAIN longer = 1..(Len(rest) + 1) /\ Len(rest) \in Nat
      /\ Len(longer) = Len(rest) + 1 /\ DOMAIN rest = 1..Len(rest)
      /\ \A i \in 1..Len(rest) : longer[i] = rest[i]
      /\ longer[Len(rest) + 1] = new
  BY <1>1, <1>2
<1>4. \A i \in DOMAIN longer : i \in DOMAIN rest \/ i = Len(rest) + 1
  BY <1>3
<1> HIDE DEF longer
<1>5. /\ \A i, j \in DOMAIN longer : longer[i].key = longer[j].key => i = j
      /\ \A j \in DOMAIN longer :
             \/ longer[j].key = k /\ longer[j].version = v
             \/ longer[j].key # k /\ \E i \in DOMAIN cache : cache[i] = longer[j]
  BY <1>1, <1>2, <1>3, <1>4
<1>6. PICK d \in Nat : \A i \in DOMAIN after : i \in Nat /\ i + d \in DOMAIN longer /\ after[i] = longer[i + d]
  <2>1. after = Evict(longer)
    BY DEF Remember, longer, rest, new
  <2>2. CASE Len(longer) > CacheMax
    <3>1. after = SubSeq(longer, Len(longer) - CacheMax + 1, Len(longer))
      BY <2>1, <2>2 DEF Evict
    <3>2. Len(longer) \in Nat /\ CacheMax \in Nat \ {0}
      BY <1>3, BoundAssumption
    <3>3. \A i \in DOMAIN after : /\ i \in Nat /\ i + (Len(longer) - CacheMax) \in DOMAIN longer
                                  /\ after[i] = longer[i + (Len(longer) - CacheMax)]
      <4> HIDE DEF after
      <4> QED BY <1>3, <2>2, <3>1, <3>2
    <3>4. Len(longer) - CacheMax \in Nat
      BY <2>2, <3>2
    <3> QED BY <3>3, <3>4
  <2>3. CASE ~(Len(longer) > CacheMax)
    <3>1. after = longer
      BY <2>1, <2>3 DEF Evict
    <3>2. \A i \in DOMAIN longer : i \in Nat /\ i + 0 = i
      BY <1>3
    <3> HIDE DEF after
    <3> QED BY <3>1, <3>2
  <2> QED BY <2>2, <2>3
<1> HIDE DEF after
<1>7. \A i, j \in DOMAIN after : after[i].key = after[j].key => i = j
  BY <1>5, <1>6
<1>8. \A j \in DOMAIN after :
          \/ after[j].key = k /\ after[j].version = v
          \/ after[j].key # k /\ \E i \in DOMAIN cache : cache[i] = after[j]
  BY <1>5, <1>6
<1> QED BY <1>7, <1>8 DEF after

-----------------------------------------------------------------------------
(* The steps.                                                              *)

LEMMA UnissuedIsNoVersion ==
    /\ Unissued \notin Versions /\ Pending \notin Versions /\ Rejected \notin Versions
    /\ Unissued # Pending /\ Unissued # Rejected /\ Versions \subseteq Nat
BY OutcomeAssumption, BoundAssumption DEF Versions

\* No call is made, and what was settled stays settled.
LEMMA SharingKept ==
    ASSUME TypeOK, ShareInv, UNCHANGED <<keyOf, promiseOf>>,
           \A k \in Keys : inFlight'[k] = inFlight[k] \/ inFlight'[k] = NoCall,
           \A t \in Calls : outcome'[t] = Unissued <=> outcome[t] = Unissued
    PROVE  ShareInv'
BY DEF ShareInv

\* A call that has not been made stands behind no promise.
LEMMA NotYetShared ==
    ASSUME TypeOK, ShareInv, NEW c \in Calls, promiseOf[c] = NoCall
    PROVE  /\ \A d \in Calls : promiseOf[d] # c
           /\ \A k \in Keys : inFlight[k] # c
           /\ outcome[c] = Unissued
BY CallsAssumption DEF TypeOK, ShareInv

LEMMA ShareQuery ==
    ASSUME IInv, ShareInv, NEW c \in Calls, Query(c)
    PROVE  ShareInv'
<1>0. TypeOK /\ promiseOf[c] = NoCall /\ \A d \in Calls : promiseOf[d] # c
      /\ (\A k \in Keys : inFlight[k] # c) /\ outcome[c] = Unissued
  BY NotYetShared DEF IInv, Query
<1>1. CASE QueryRejected(c)
  <2>1. /\ \A d \in Calls : promiseOf'[d] = IF d = c THEN c ELSE promiseOf[d]
        /\ \A d \in Calls : outcome'[d] = IF d = c THEN Rejected ELSE outcome[d]
        /\ UNCHANGED <<keyOf, inFlight>>
    BY <1>0, <1>1 DEF QueryRejected, TypeOK
  <2> QED BY <1>0, <2>1, UnissuedIsNoVersion, CallsAssumption DEF ShareInv, TypeOK
<1>2. ASSUME NEW k \in Keys, NEW mode \in CacheModes, QueryCached(c, k, mode) PROVE ShareInv'
  <2>1. /\ \A d \in Calls : promiseOf'[d] = IF d = c THEN c ELSE promiseOf[d]
        /\ \A d \in Calls : keyOf'[d] = IF d = c THEN k ELSE keyOf[d]
        /\ \A d \in Calls : outcome'[d] = IF d = c THEN Stored(k) ELSE outcome[d]
        /\ UNCHANGED inFlight
    BY <1>0, <1>2 DEF QueryCached, TypeOK
  <2>2. Stored(k) # Unissued
    BY <1>0, <1>2, StoredType, UnissuedIsNoVersion DEF QueryCached, Hits, TypeOK
  <2> QED BY <1>0, <2>1, <2>2, CallsAssumption DEF ShareInv, TypeOK
<1>3. ASSUME NEW k \in Keys, NEW mode \in CacheModes, QueryJoined(c, k, mode) PROVE ShareInv'
  <2>1. /\ \A d \in Calls : promiseOf'[d] = IF d = c THEN inFlight[k] ELSE promiseOf[d]
        /\ \A d \in Calls : keyOf'[d] = IF d = c THEN k ELSE keyOf[d]
        /\ UNCHANGED <<outcome, inFlight>>
    BY <1>0, <1>3 DEF QueryJoined, TypeOK
  <2>2. PICK t \in Calls : inFlight[k] = t /\ t # c /\ keyOf[t] = k /\ promiseOf[t] = t
    BY <1>0, <1>3 DEF QueryJoined, Joins, TypeOK, ShareInv
  <2>3. \A d \in Calls : promiseOf'[d] # NoCall =>
            keyOf'[promiseOf'[d]] = keyOf'[d] /\ promiseOf'[promiseOf'[d]] = promiseOf'[d]
    <3> SUFFICES ASSUME NEW d \in Calls, promiseOf'[d] # NoCall
                 PROVE  keyOf'[promiseOf'[d]] = keyOf'[d] /\ promiseOf'[promiseOf'[d]] = promiseOf'[d]
      OBVIOUS
    <3>1. CASE d = c
      BY <2>1, <2>2, <3>1
    <3>2. CASE d # c
      BY <1>0, <2>1, <3>2 DEF ShareInv, TypeOK
    <3> QED BY <3>1, <3>2
  <2>4. \A l \in Keys : inFlight[l] # NoCall => inFlight[l] \in Calls
    BY <1>0 DEF TypeOK
  <2> QED BY <1>0, <2>1, <2>2, <2>3, <2>4 DEF ShareInv
<1>4. ASSUME NEW k \in Keys, NEW mode \in CacheModes, NEW p \in Priorities,
             QueryQueued(c, k, p, mode)
      PROVE  ShareInv'
  <2>1. /\ \A d \in Calls : promiseOf'[d] = IF d = c THEN c ELSE promiseOf[d]
        /\ \A d \in Calls : keyOf'[d] = IF d = c THEN k ELSE keyOf[d]
        /\ \A d \in Calls : outcome'[d] = IF d = c THEN Pending ELSE outcome[d]
        /\ \A l \in Keys : inFlight'[l] = IF l = k THEN c ELSE inFlight[l]
    BY <1>0, <1>4 DEF QueryQueued, TypeOK
  <2>2. \A d \in Calls : promiseOf'[d] # NoCall =>
            keyOf'[promiseOf'[d]] = keyOf'[d] /\ promiseOf'[promiseOf'[d]] = promiseOf'[d]
    BY <1>0, <2>1 DEF ShareInv, TypeOK
  <2>3. \A l \in Keys : inFlight'[l] # NoCall =>
            keyOf'[inFlight'[l]] = l /\ promiseOf'[inFlight'[l]] = inFlight'[l]
    <3> SUFFICES ASSUME NEW l \in Keys, inFlight'[l] # NoCall
                 PROVE  keyOf'[inFlight'[l]] = l /\ promiseOf'[inFlight'[l]] = inFlight'[l]
      OBVIOUS
    <3>1. CASE l = k
      BY <2>1, <3>1
    <3>2. CASE l # k
      BY <1>0, <2>1, <3>2 DEF ShareInv, TypeOK
    <3> QED BY <3>1, <3>2
  <2>4. \A d \in Calls : promiseOf'[d] = d <=> outcome'[d] # Unissued
    BY <1>0, <2>1, UnissuedIsNoVersion DEF ShareInv
  <2> QED BY <2>2, <2>3, <2>4 DEF ShareInv
<1> QED BY <1>0, <1>1, <1>2, <1>3, <1>4 DEF Query

LEMMA ShareStep ==
    ASSUME IInv, ShareInv, [Next]_vars
    PROVE  ShareInv'
<1>0. TypeOK /\ PromiseInv /\ LoopInv
  BY DEF IInv
<1>1. ASSUME NEW c \in Calls, Query(c) PROVE ShareInv'
  BY <1>1, ShareQuery
<1>2. ASSUME NEW c \in Calls, QueueTimeout(c) PROVE ShareInv'
  <2>1. outcome[c] = Pending
    BY <1>0, <1>2 DEF QueueTimeout, PromiseInv, Live
  <2> QED BY <1>0, <1>2, <2>1, UnissuedIsNoVersion, SharingKept DEF QueueTimeout, TypeOK, callVars
<1>3. CASE GiveUp \/ \E o \in ops : Succeed(o) \/ Fail(o)
  <2>1. PICK t \in Calls, result \in Versions \cup {Rejected} :
            t = activeTask /\ Finish(t, result)
    BY <1>0, <1>3, FinishOutcome
  <2>2. outcome[t] = Pending
    BY <1>0, <2>1 DEF LoopInv, PromiseInv, Live
  <2>3. result # Unissued
    BY UnissuedIsNoVersion
  <2> QED BY <1>0, <2>1, <2>2, <2>3, UnissuedIsNoVersion, SharingKept DEF Finish, TypeOK, callVars
<1>4. CASE Close
  <2>1. \A t \in Calls : task[t] = "queued" => outcome[t] = Pending
    BY <1>0 DEF PromiseInv, Live
  <2> QED BY <1>0, <1>4, <2>1, UnissuedIsNoVersion, SharingKept DEF Close, callVars
<1>5. ASSUME NEW k \in Keys, Forget(k) PROVE ShareInv'
  BY <1>0, <1>5, SharingKept DEF Forget, TypeOK, callVars
<1>6. CASE \/ ExpireOldest \/ DrainNext \/ DrainEnd \/ Watchdog \/ Retry \/ CloseDone
           \/ ForeignCommit \/ UNCHANGED vars
           \/ \E o \in ops : Running(o) \/ LoseConnection(o) \/ AbandonedEnds(o)
  <2>1. UNCHANGED <<keyOf, promiseOf, inFlight, outcome>>
    BY <1>6 DEF ExpireOldest, DrainNext, DrainEnd, Watchdog, Retry, CloseDone, ForeignCommit,
                Running, LoseConnection, AbandonedEnds, vars, callVars
  <2> QED BY <1>0, <2>1, SharingKept
<1> QED BY <1>1, <1>2, <1>3, <1>4, <1>5, <1>6 DEF Next, DatabaseStep

RowsInv == PastInv /\ CacheInv /\ ReadInv /\ FlightInv

\* A call answered from the cache is told what the entry of its key holds.
LEMMA RowsQueryCached ==
    ASSUME IInv, ShareInv, RowsInv, TypeOK', NEW c \in Calls, promiseOf[c] = NoCall,
           NEW k \in Keys, NEW mode \in CacheModes, QueryCached(c, k, mode)
    PROVE  RowsInv'
<1>0. /\ TypeOK /\ OperationInv /\ LoopInv /\ PromiseInv
      /\ outcome[c] = Unissued /\ task[c] = "none" /\ \A l \in Keys : inFlight[l] # c
  BY NotYetShared DEF IInv, PromiseInv
<1>1. PICK n \in DOMAIN cache : cache[n].key = k /\ cache[n].version = Stored(k)
  <2>1. IndexOf(k) \in DOMAIN cache /\ cache[IndexOf(k)].key = k
    BY DEF QueryCached, Hits, Cached, IndexOf
  <2> QED BY <2>1 DEF Stored
<1>2. PICK v \in Versions : v = Stored(k)
  BY <1>0, StoredType DEF QueryCached, Hits, TypeOK
<1>3. /\ \A d \in Calls : keyOf'[d] = IF d = c THEN k ELSE keyOf[d]
      /\ \A d \in Calls : outcome'[d] = IF d = c THEN v ELSE outcome[d]
      /\ UNCHANGED <<cache, ops, inFlight, generation, dbVersion, closePhase>>
  BY <1>0, <1>2 DEF QueryCached, TypeOK
<1>4. v <= v /\ v \in Nat
  BY UnissuedIsNoVersion
<1>5. ASSUME NEW l \in Keys, NEW w \in Versions, Newest(l, w) PROVE Newest(l, w)'
  <2>1. l = k => v <= w
    BY <1>1, <1>2, <1>5 DEF Newest, Kept
  <2>2. Told(l, w)'
    BY <1>3, <1>5, <2>1 DEF Newest, Told
  <2> QED BY <1>3, <1>5, <2>2 DEF Newest, Kept
<1>6. PastInv'
  <2>1. v <= dbVersion
    BY <1>1, <1>2 DEF RowsInv, PastInv
  <2> QED BY <1>3, <2>1 DEF RowsInv, PastInv
<1>7. CacheInv'
  <2>1. \A i \in DOMAIN cache : Told(cache[i].key, cache[i].version)'
    <3> SUFFICES ASSUME NEW i \in DOMAIN cache, NEW t \in Calls,
                        keyOf'[t] = cache[i].key, outcome'[t] \in Versions
                 PROVE  outcome'[t] <= cache[i].version
      BY <1>3 DEF Told
    <3>1. CASE t = c
      <4>1. i = n
        BY <1>1, <1>3, <3>1 DEF RowsInv, CacheInv
      <4> QED BY <1>1, <1>2, <1>3, <1>4, <3>1, <4>1
    <3>2. CASE t # c
      BY <1>3, <3>2 DEF RowsInv, CacheInv, Told
    <3> QED BY <3>1, <3>2
  <2> QED BY <1>3, <2>1 DEF RowsInv, CacheInv, Told, closed
<1>8. ReadInv'
  <2> SUFFICES ASSUME NEW o \in ops, o.conn = generation, o.phase = "running"
               PROVE  Newest(keyOf[o.task], o.version)'
    BY <1>3 DEF ReadInv
  <2>1. o.task \in Calls /\ o.task # c /\ o.version \in Versions
    <3>1. o.task \in Calls /\ o.version \in Versions
      BY <1>0 DEF TypeOK, Operation
    <3>2. task[o.task] = "active"
      BY <1>0, <3>1 DEF OperationInv, LoopInv
    <3> QED BY <1>0, <3>1, <3>2
  <2>2. PICK l \in Keys, w \in Versions : keyOf[o.task] = l /\ o.version = w
    BY <1>0, <2>1 DEF TypeOK
  <2>3. Newest(l, w)' /\ keyOf'[o.task] = l
    BY <1>3, <1>5, <2>1, <2>2 DEF RowsInv, ReadInv
  <2> QED BY <2>2, <2>3 DEF Newest, Told, Kept
<1>9. FlightInv'
  <2> SUFFICES ASSUME NEW l \in Keys, inFlight[l] # NoCall, outcome'[inFlight[l]] \in Versions
               PROVE  Newest(l, outcome[inFlight[l]])'
    BY <1>3 DEF FlightInv
  <2>1. inFlight[l] \in Calls /\ inFlight[l] # c
    BY <1>0 DEF TypeOK
  <2>2. PICK w \in Versions : outcome[inFlight[l]] = w /\ outcome'[inFlight[l]] = w
    BY <1>3, <2>1
  <2>3. Newest(l, w)'
    BY <1>5, <2>2 DEF RowsInv, FlightInv
  <2> QED BY <1>3, <2>2, <2>3 DEF Newest, Told, Kept
<1> QED BY <1>6, <1>7, <1>8, <1>9 DEF RowsInv

\* The other calls: nobody is told anything.
LEMMA RowsQuery ==
    ASSUME IInv, ShareInv, RowsInv, TypeOK', NEW c \in Calls, Query(c)
    PROVE  RowsInv'
<1>0. /\ TypeOK /\ OperationInv /\ LoopInv /\ PromiseInv /\ promiseOf[c] = NoCall
      /\ outcome[c] = Unissued /\ task[c] = "none" /\ \A l \in Keys : inFlight[l] # c
  BY NotYetShared DEF IInv, PromiseInv, Query
<1>1. ASSUME NEW k \in Keys, NEW mode \in CacheModes, QueryCached(c, k, mode) PROVE RowsInv'
  BY <1>0, <1>1, RowsQueryCached
<1>2. ASSUME \A t \in Calls : t # c => outcome'[t] = outcome[t] /\ keyOf'[t] = keyOf[t],
             outcome'[c] \notin Versions,
             \A l \in Keys : inFlight'[l] = inFlight[l] \/ inFlight'[l] = c,
             \A o \in ops' : o \in ops \/ (o.phase = "setup" /\ o.version = 0),
             UNCHANGED <<cache, closePhase, generation, dbVersion>>
      PROVE  RowsInv'
  <2>1. \A t \in Calls : outcome'[t] \in Versions => outcome'[t] = outcome[t] /\ keyOf'[t] = keyOf[t]
    BY <1>0, <1>2, UnissuedIsNoVersion DEF TypeOK
  <2>2. \A o \in ops' : o.conn = generation' /\ o.phase = "running" =>
            o \in ops /\ o.conn = generation /\ keyOf'[o.task] = keyOf[o.task]
    <3> SUFFICES ASSUME NEW o \in ops', o.conn = generation', o.phase = "running"
                 PROVE  o \in ops /\ o.conn = generation /\ keyOf'[o.task] = keyOf[o.task]
      OBVIOUS
    <3>1. o \in ops /\ o.conn = generation
      BY <1>2
    <3>2. o.task \in Calls /\ task[o.task] = "active"
      BY <1>0, <3>1 DEF TypeOK, Operation, OperationInv, LoopInv
    <3> QED BY <1>0, <1>2, <3>1, <3>2 DEF TypeOK
  <2>3. \A l \in Keys : inFlight'[l] # NoCall /\ outcome'[inFlight'[l]] \in Versions =>
            inFlight'[l] = inFlight[l]
    BY <1>0, <1>2 DEF TypeOK
  <2>4. dbVersion <= dbVersion' /\ DOMAIN cache \subseteq Nat
    BY <1>0, <1>2, UnissuedIsNoVersion DEF TypeOK
  <2>5. \A i \in DOMAIN cache' : i + 0 \in DOMAIN cache /\ cache'[i] = cache[i + 0]
    BY <1>2, <2>4
  <2>6. closed' => closed \/ cache' = <<>>
    BY <1>2 DEF closed
  <2> QED BY <1>0, <1>2, <2>1, <2>2, <2>3, <2>4, <2>5, <2>6, NothingNew DEF RowsInv
<1>3. CASE QueryRejected(c)
  <2>1. /\ \A t \in Calls : t # c => outcome'[t] = outcome[t] /\ keyOf'[t] = keyOf[t]
        /\ outcome'[c] = Rejected
        /\ \A l \in Keys : inFlight'[l] = inFlight[l]
        /\ \A o \in ops' : o \in ops
        /\ UNCHANGED <<cache, closePhase, generation, dbVersion>>
    BY <1>0, <1>3 DEF QueryRejected, TypeOK
  <2> QED BY <1>2, <2>1, UnissuedIsNoVersion
<1>4. ASSUME NEW k \in Keys, NEW mode \in CacheModes, QueryJoined(c, k, mode) PROVE RowsInv'
  <2>1. /\ \A t \in Calls : t # c => outcome'[t] = outcome[t] /\ keyOf'[t] = keyOf[t]
        /\ outcome'[c] = Unissued
        /\ \A l \in Keys : inFlight'[l] = inFlight[l]
        /\ \A o \in ops' : o \in ops
        /\ UNCHANGED <<cache, closePhase, generation, dbVersion>>
    BY <1>0, <1>4 DEF QueryJoined, TypeOK
  <2> QED BY <1>2, <2>1, UnissuedIsNoVersion
<1>5. ASSUME NEW k \in Keys, NEW mode \in CacheModes, NEW p \in Priorities,
             QueryQueued(c, k, p, mode)
      PROVE  RowsInv'
  <2>1. /\ \A t \in Calls : t # c => outcome'[t] = outcome[t] /\ keyOf'[t] = keyOf[t]
        /\ outcome'[c] = Pending
        /\ \A l \in Keys : inFlight'[l] = inFlight[l] \/ inFlight'[l] = c
        /\ UNCHANGED <<cache, closePhase, generation, dbVersion>>
    BY <1>0, <1>5 DEF QueryQueued, TypeOK
  <2>2. \A o \in ops' : o \in ops \/ (o.phase = "setup" /\ o.version = 0)
    BY <1>5 DEF QueryQueued, Execute
  <2> QED BY <1>2, <2>1, <2>2, UnissuedIsNoVersion
<1> QED BY <1>1, <1>3, <1>4, <1>5 DEF Query

\* The read takes its snapshot now: it is as new as anything.
LEMMA RowsRunning ==
    ASSUME IInv, RowsInv, NEW o \in ops, Running(o)
    PROVE  RowsInv'
<1>0. TypeOK /\ OperationInv /\ dbVersion \in Nat
  BY UnissuedIsNoVersion DEF IInv, TypeOK
<1> DEFINE r == [o EXCEPT !.phase = "running", !.version = dbVersion]
<1>1. /\ ops' = (ops \ {o}) \cup {r} /\ r.conn = o.conn /\ r.task = o.task /\ r.version = dbVersion
      /\ UNCHANGED <<outcome, keyOf, cache, inFlight, generation, dbVersion, closePhase>>
  BY <1>0 DEF Running, TypeOK, Operation, callVars
<1> HIDE DEF r
<1>2. \A k \in Keys : Newest(k, dbVersion)
  BY DEF RowsInv, PastInv, Newest, Told, Kept
<1>3. PastInv'
  BY <1>0, <1>1 DEF RowsInv, PastInv
<1>4. CacheInv'
  BY <1>1 DEF RowsInv, CacheInv, Told, closed
<1>5. FlightInv'
  BY <1>1 DEF RowsInv, FlightInv, Newest, Told, Kept
<1>6. ReadInv'
  <2> SUFFICES ASSUME NEW q \in ops', q.conn = generation, q.phase = "running"
               PROVE  Newest(keyOf[q.task], q.version)
    BY <1>1 DEF ReadInv, Newest, Told, Kept
  <2>1. CASE q = r
    <3>1. keyOf[q.task] \in Keys
      BY <1>0, <1>1, <2>1 DEF TypeOK, Operation
    <3> QED BY <1>1, <1>2, <2>1, <3>1
  <2>2. CASE q \in ops
    BY <2>2 DEF RowsInv, ReadInv
  <2> QED BY <1>1, <2>1, <2>2
<1> QED BY <1>3, <1>4, <1>5, <1>6 DEF RowsInv

\* What Succeed knows: the read is that of the task, newest for its key, and the
\* cache gets its rows.
LEMMA SucceedFacts ==
    ASSUME IInv, ShareInv, RowsInv, NEW o \in ops, Succeed(o)
    PROVE  \E t \in Calls, k \in Keys, v \in Versions :
               /\ o.task = t /\ keyOf[t] = k /\ o.version = v
               /\ inFlight[k] = t /\ promiseOf[t] = t /\ outcome[t] = Pending
               /\ Newest(k, v) /\ v <= dbVersion
               /\ outcome' = [outcome EXCEPT ![t] = v]
               /\ UNCHANGED <<keyOf, promiseOf, inFlight, generation, closePhase, dbVersion>>
               /\ ops' = ops \ {o} /\ \A q \in ops' : q.conn # generation
               /\ \A i, j \in DOMAIN cache' : cache'[i].key = cache'[j].key => i = j
               /\ \A j \in DOMAIN cache' :
                      \/ cache'[j].key = k /\ cache'[j].version = v
                      \/ cache'[j].key # k /\ \E i \in DOMAIN cache : cache[i] = cache'[j]
               /\ closed => cache' = <<>>
<1>0. TypeOK /\ PromiseInv /\ LoopInv /\ OperationInv
  BY DEF IInv
<1>1. PICK t \in Calls, k \in Keys, v \in Versions : o.task = t /\ keyOf[t] = k /\ o.version = v
  BY <1>0 DEF TypeOK, Operation
<1>2. /\ t = activeTask /\ o.conn = generation /\ o.phase = "running"
      /\ ops' = ops \ {o} /\ cache' = Remember(k, v) /\ outcome' = [outcome EXCEPT ![t] = v]
      /\ UNCHANGED <<keyOf, promiseOf, inFlight, generation, closePhase, dbVersion>>
  BY <1>1 DEF Succeed, Awaited, Finish, callVars
<1>3. inFlight[k] = t /\ outcome[t] = Pending
  BY <1>0, <1>1, <1>2 DEF LoopInv, PromiseInv, Live
<1>4. promiseOf[t] = t
  BY <1>3, CallsAssumption DEF ShareInv
<1>5. Newest(k, v) /\ v <= dbVersion
  BY <1>1, <1>2 DEF RowsInv, ReadInv, PastInv
<1>6. \A q \in ops' : q.conn # generation
  BY <1>2 DEF OperationInv, IInv
<1>7. /\ \A i, j \in DOMAIN cache' : cache'[i].key = cache'[j].key => i = j
      /\ \A j \in DOMAIN cache' :
             \/ cache'[j].key = k /\ cache'[j].version = v
             \/ cache'[j].key # k /\ \E i \in DOMAIN cache : cache[i] = cache'[j]
      /\ closed => cache' = <<>>
  <2>1. CASE closed
    <3>1. cache' = <<>>
      BY <1>2, <2>1 DEF Remember, RowsInv, CacheInv
    <3> QED BY <3>1
  <2>2. CASE ~closed
    <3>1. cache \in Seq(Entry) /\ \A i, j \in DOMAIN cache : cache[i].key = cache[j].key => i = j
      BY <1>0 DEF TypeOK, RowsInv, CacheInv
    <3> QED BY <1>2, <2>2, <3>1, RememberHolds
  <2> QED BY <2>1, <2>2
<1> QED BY <1>1, <1>2, <1>3, <1>4, <1>5, <1>6, <1>7

LEMMA RowsSucceed ==
    ASSUME IInv, ShareInv, RowsInv, NEW o \in ops, Succeed(o)
    PROVE  RowsInv'
<1>0. TypeOK
  BY DEF IInv
<1>1. PICK t \in Calls, k \in Keys, v \in Versions :
          /\ keyOf[t] = k /\ inFlight[k] = t
          /\ Newest(k, v) /\ v <= dbVersion
          /\ outcome' = [outcome EXCEPT ![t] = v]
          /\ UNCHANGED <<keyOf, promiseOf, inFlight, generation, closePhase, dbVersion>>
          /\ ops' = ops \ {o} /\ \A q \in ops' : q.conn # generation
          /\ \A i, j \in DOMAIN cache' : cache'[i].key = cache'[j].key => i = j
          /\ \A j \in DOMAIN cache' :
                 \/ cache'[j].key = k /\ cache'[j].version = v
                 \/ cache'[j].key # k /\ \E i \in DOMAIN cache : cache[i] = cache'[j]
          /\ closed => cache' = <<>>
  BY SucceedFacts
<1>2. \A d \in Calls : outcome'[d] = IF d = t THEN v ELSE outcome[d]
  BY <1>0, <1>1 DEF TypeOK
<1>3. v \in Nat /\ v <= v /\ t # NoCall
  BY UnissuedIsNoVersion, CallsAssumption
<1>4. ASSUME NEW l \in Keys, NEW w \in Versions, Newest(l, w), l = k => v <= w
      PROVE  Newest(l, w)'
  <2>1. Told(l, w)'
    BY <1>1, <1>2, <1>4 DEF Newest, Told
  <2>2. Kept(l, w)'
    BY <1>1, <1>4 DEF Newest, Kept
  <2> QED BY <2>1, <2>2 DEF Newest
<1>5. Newest(k, v)'
  BY <1>1, <1>3, <1>4
<1>6. PastInv'
  <2>1. \A d \in Calls : outcome'[d] \in Versions => outcome'[d] <= dbVersion'
    BY <1>1, <1>2 DEF RowsInv, PastInv
  <2>2. \A i \in DOMAIN cache' : cache'[i].version <= dbVersion'
    BY <1>1 DEF RowsInv, PastInv
  <2>3. \A q \in ops' : q.version <= dbVersion'
    BY <1>1 DEF RowsInv, PastInv
  <2> QED BY <2>1, <2>2, <2>3 DEF PastInv
<1>7. CacheInv'
  <2>1. \A j \in DOMAIN cache' : Told(cache[j].key, cache[j].version)'
    <3> SUFFICES ASSUME NEW j \in DOMAIN cache' PROVE Told(cache[j].key, cache[j].version)'
      OBVIOUS
    <3>1. CASE cache'[j].key = k /\ cache'[j].version = v
      BY <1>5, <3>1 DEF Newest, Told
    <3>2. CASE cache'[j].key # k /\ \E i \in DOMAIN cache : cache[i] = cache'[j]
      <4>1. PICK i \in DOMAIN cache : cache[i] = cache'[j]
        BY <3>2
      <4>2. Told(cache[i].key, cache[i].version)
        BY DEF RowsInv, CacheInv
      <4> QED BY <1>1, <1>2, <3>2, <4>1, <4>2 DEF Told
    <3> QED BY <1>1, <3>1, <3>2
  <2> QED BY <1>1, <2>1 DEF CacheInv, closed
<1>8. ReadInv'
  BY <1>1 DEF ReadInv
<1>9. FlightInv'
  <2> SUFFICES ASSUME NEW l \in Keys, inFlight[l] # NoCall, outcome'[inFlight[l]] \in Versions
               PROVE  Newest(l, outcome[inFlight[l]])'
    BY <1>1 DEF FlightInv
  <2>1. CASE l = k
    <3>1. outcome'[inFlight'[l]] = v
      BY <1>1, <1>2, <2>1
    <3> QED BY <1>5, <2>1, <3>1 DEF Newest, Told, Kept
  <2>2. CASE l # k
    <3>1. inFlight[l] \in Calls /\ inFlight[l] # t
      BY <1>0, <1>1, <2>2 DEF TypeOK, ShareInv
    <3>2. PICK w \in Versions : outcome[inFlight[l]] = w /\ outcome'[inFlight'[l]] = w
      BY <1>1, <1>2, <3>1
    <3>3. Newest(l, w)'
      BY <1>4, <2>2, <3>2 DEF RowsInv, FlightInv
    <3> QED BY <3>2, <3>3 DEF Newest, Told, Kept
  <2> QED BY <2>1, <2>2
<1> QED BY <1>6, <1>7, <1>8, <1>9 DEF RowsInv

LEMMA RowsStep ==
    ASSUME IInv, ShareInv, RowsInv, [Next]_vars
    PROVE  RowsInv'
<1>0. TypeOK /\ PromiseInv /\ LoopInv /\ OperationInv /\ TypeOK'
  BY TypeStep DEF IInv
<1>1. /\ dbVersion \in Nat /\ \A i \in DOMAIN cache : i \in Nat /\ i + 0 = i
      /\ \A o \in ops : o.task \in Calls /\ o.conn \in Nat /\ o.conn <= generation
      /\ generation \in Nat
  BY <1>0, UnissuedIsNoVersion DEF TypeOK, Operation, OperationInv
<1>2. ASSUME UNCHANGED <<keyOf, cache, closePhase>>,
             dbVersion' \in {dbVersion, dbVersion + 1},
             \A t \in Calls : outcome'[t] = outcome[t] \/ outcome'[t] = Rejected,
             \A k \in Keys : inFlight'[k] = inFlight[k] \/ inFlight'[k] = NoCall,
             generation' \in {generation, generation + 1},
             \A o \in ops' : o \in ops \/ (o.phase = "setup" /\ o.version = 0)
      PROVE  RowsInv'
  <2>1. \A t \in Calls : outcome'[t] \in Versions => outcome'[t] = outcome[t] /\ keyOf'[t] = keyOf[t]
    BY <1>2, UnissuedIsNoVersion
  <2>2. \A o \in ops' : o.conn = generation' /\ o.phase = "running" =>
            o \in ops /\ o.conn = generation /\ keyOf'[o.task] = keyOf[o.task]
    BY <1>1, <1>2
  <2>3. dbVersion <= dbVersion'
    BY <1>1, <1>2
  <2>4. \A i \in DOMAIN cache' : i + 0 \in DOMAIN cache /\ cache'[i] = cache[i + 0]
    BY <1>1, <1>2
  <2>5. \A k \in Keys : inFlight'[k] # NoCall /\ outcome'[inFlight'[k]] \in Versions =>
            inFlight'[k] = inFlight[k]
    BY <1>2
  <2>6. closed' => closed \/ cache' = <<>>
    BY <1>2 DEF closed
  <2> QED BY <1>0, <1>2, <2>1, <2>2, <2>3, <2>4, <2>5, <2>6, NothingNew DEF RowsInv
<1>3. ASSUME NEW c \in Calls, Query(c) PROVE RowsInv'
  BY <1>0, <1>3, RowsQuery
<1>4. ASSUME NEW c \in Calls, QueueTimeout(c) PROVE RowsInv'
  <2>1. \A t \in Calls : outcome'[t] = outcome[t] \/ outcome'[t] = Rejected
    BY <1>0, <1>4 DEF QueueTimeout, TypeOK
  <2> QED BY <1>2, <1>4, <2>1 DEF QueueTimeout, callVars
<1>5. ASSUME NEW k \in Keys, Forget(k) PROVE RowsInv'
  <2>1. \A l \in Keys : inFlight'[l] = inFlight[l] \/ inFlight'[l] = NoCall
    BY <1>0, <1>5 DEF Forget, TypeOK
  <2> QED BY <1>2, <1>5, <2>1 DEF Forget, callVars
<1>6. CASE ExpireOldest
  <2>1. /\ UNCHANGED <<keyOf, outcome, inFlight, closePhase, generation, ops, dbVersion>>
        /\ cache # <<>> /\ cache' = Tail(cache)
    BY <1>6 DEF ExpireOldest, callVars
  <2>2. \A i \in DOMAIN cache' : i + 1 \in DOMAIN cache /\ cache'[i] = cache[i + 1]
    BY <1>0, <2>1 DEF TypeOK
  <2>3. dbVersion <= dbVersion'
    BY <1>1, <2>1
  <2>4. closed' => closed \/ cache' = <<>>
    BY <2>1 DEF closed
  <2>5. /\ \A t \in Calls : outcome'[t] \in Versions =>
               outcome'[t] = outcome[t] /\ keyOf'[t] = keyOf[t]
        /\ \A o \in ops' : o \in ops \/ (o.phase = "setup" /\ o.version = 0)
        /\ \A o \in ops' : o.conn = generation' /\ o.phase = "running" =>
               o \in ops /\ o.conn = generation /\ keyOf'[o.task] = keyOf[o.task]
        /\ \A k \in Keys : inFlight'[k] # NoCall /\ outcome'[inFlight'[k]] \in Versions =>
               inFlight'[k] = inFlight[k]
    BY <2>1
  <2> QED BY <1>0, <2>2, <2>3, <2>4, <2>5, NothingNew DEF RowsInv
<1>7. ASSUME NEW o \in ops, Running(o) PROVE RowsInv'
  BY <1>7, RowsRunning
<1>8. ASSUME NEW o \in ops, Succeed(o) PROVE RowsInv'
  BY <1>8, RowsSucceed
<1>9. CASE GiveUp \/ \E o \in ops : Fail(o)
  <2>1. PICK t \in Calls : outcome' = [outcome EXCEPT ![t] = Rejected]
    BY <1>0, <1>9 DEF GiveUp, Fail, Finish, LoopInv, TypeOK, Operation
  <2>2. \A u \in Calls : outcome'[u] = outcome[u] \/ outcome'[u] = Rejected
    BY <1>0, <2>1 DEF TypeOK
  <2>3. /\ UNCHANGED <<keyOf, cache, closePhase, dbVersion, inFlight, generation>>
        /\ ops' \subseteq ops
    BY <1>9 DEF GiveUp, Fail, Finish, callVars
  <2> QED BY <1>2, <2>2, <2>3
<1>10. CASE DrainNext
  <2>1. PICK t \in Calls : Execute(t)
    BY <1>0, <1>10, DrainNextTakes DEF IInv
  <2>2. \A o \in ops' : o \in ops \/ (o.phase = "setup" /\ o.version = 0)
    BY <2>1 DEF Execute
  <2> QED BY <1>2, <1>10, <2>2 DEF DrainNext, callVars
<1>11. CASE Retry
  <2>1. \A o \in ops' : o \in ops \/ (o.phase = "setup" /\ o.version = 0)
    BY <1>11 DEF Retry
  <2> QED BY <1>2, <1>11, <2>1 DEF Retry, callVars
<1>12. CASE Watchdog \/ \E o \in ops : LoseConnection(o) \/ AbandonedEnds(o)
  <2>1. /\ UNCHANGED <<keyOf, cache, closePhase, dbVersion, inFlight, outcome>>
        /\ generation' \in {generation, generation + 1} /\ ops' \subseteq ops
    BY <1>12 DEF Watchdog, LoseConnection, AbandonedEnds, NextConnection, callVars
  <2> QED BY <1>2, <2>1
<1>13. CASE DrainEnd \/ CloseDone \/ ForeignCommit \/ UNCHANGED vars
  <2>1. UNCHANGED <<keyOf, cache, inFlight, outcome, generation, ops>>
    BY <1>13 DEF DrainEnd, CloseDone, ForeignCommit, vars, callVars
  <2>2. CASE UNCHANGED closePhase /\ dbVersion' \in {dbVersion, dbVersion + 1}
    BY <1>2, <2>1, <2>2
  <2>3. CASE CloseDone
    <3>1. closed /\ UNCHANGED dbVersion /\ closed'
      BY <2>3 DEF CloseDone, closed
    <3> QED BY <2>1, <3>1 DEF RowsInv, PastInv, CacheInv, ReadInv, FlightInv, Newest, Told, Kept
  <2> QED BY <1>13, <2>2, <2>3 DEF DrainEnd, ForeignCommit, vars
<1>14. CASE Close
  <2>1. /\ UNCHANGED <<keyOf, inFlight, generation, ops, dbVersion>> /\ cache' = <<>>
        /\ \A t \in Calls : outcome'[t] = outcome[t] \/ outcome'[t] = Rejected
    BY <1>14 DEF Close, callVars
  <2>2. \A t \in Calls : outcome'[t] \in Versions => outcome'[t] = outcome[t] /\ keyOf'[t] = keyOf[t]
    BY <2>1, UnissuedIsNoVersion
  <2>3. \A i \in DOMAIN cache' : i + 0 \in DOMAIN cache /\ cache'[i] = cache[i + 0]
    BY <2>1
  <2>4. dbVersion <= dbVersion'
    BY <1>1, <2>1
  <2>5. /\ \A o \in ops' : o \in ops \/ (o.phase = "setup" /\ o.version = 0)
        /\ \A o \in ops' : o.conn = generation' /\ o.phase = "running" =>
               o \in ops /\ o.conn = generation /\ keyOf'[o.task] = keyOf[o.task]
        /\ \A k \in Keys : inFlight'[k] # NoCall /\ outcome'[inFlight'[k]] \in Versions =>
               inFlight'[k] = inFlight[k]
    BY <2>1
  <2> QED BY <1>0, <2>1, <2>2, <2>3, <2>4, <2>5, NothingNew DEF RowsInv
<1> QED BY <1>3, <1>4, <1>5, <1>6, <1>7, <1>8, <1>9, <1>10, <1>11, <1>12, <1>13, <1>14
        DEF Next, DatabaseStep

\* FreshInv, as ShareInv and what is said about rows.
LEMMA FreshStep ==
    ASSUME IInv, FreshInv, [Next]_vars
    PROVE  FreshInv'
BY ShareStep, RowsStep DEF FreshInv, RowsInv

LEMMA InitFresh == Init => FreshInv
<1> SUFFICES ASSUME Init PROVE FreshInv
  OBVIOUS
<1>1. /\ \A t \in Calls : outcome[t] = Unissued /\ promiseOf[t] = NoCall
      /\ \A k \in Keys : inFlight[k] = NoCall
      /\ cache = <<>> /\ ops = {}
  BY DEF Init
<1>2. \A t \in Calls : outcome[t] \notin Versions
  BY <1>1, UnissuedIsNoVersion
<1>3. DOMAIN cache = {}
  BY <1>1
<1>4. ShareInv
  BY <1>1, CallsAssumption DEF ShareInv
<1> QED BY <1>1, <1>2, <1>3, <1>4 DEF FreshInv, PastInv, CacheInv, ReadInv, FlightInv

\* What is in the cache, in flight or shared is as new as everything its key was
\* told before: the invariant the answers of the broker rest on.
THEOREM FreshnessHolds == Spec => []FreshInv
<1>1. IInv /\ FreshInv /\ [Next]_vars => FreshInv'
  BY FreshStep
<1> QED BY InvariantHolds, InitFresh, <1>1, PTL DEF Spec

-----------------------------------------------------------------------------
(* The cache, the queues and the callers.                                  *)

LEMMA CacheChanges ==
    ASSUME [Next]_vars
    PROVE  \/ cache' = cache
           \/ cache # <<>> /\ cache' = Tail(cache)
           \/ cache' = <<>>
           \/ \E o \in ops : Succeed(o)
<1>1. ASSUME NEW c \in Calls, Query(c) PROVE cache' = cache
  BY <1>1 DEF Query, QueryRejected, QueryCached, QueryJoined, QueryQueued
<1>2. ASSUME NEW c \in Calls, QueueTimeout(c) PROVE cache' = cache
  BY <1>2 DEF QueueTimeout
<1>3. ASSUME NEW k \in Keys, Forget(k) PROVE cache' = cache
  BY <1>3 DEF Forget
<1>4. ASSUME NEW o \in ops, Running(o) \/ Fail(o) \/ LoseConnection(o) \/ AbandonedEnds(o)
      PROVE  cache' = cache
  BY <1>4 DEF Running, Fail, LoseConnection, AbandonedEnds
<1>5. CASE DrainNext \/ DrainEnd \/ Watchdog \/ Retry \/ GiveUp \/ CloseDone \/ ForeignCommit
           \/ UNCHANGED vars
  BY <1>5 DEF DrainNext, DrainEnd, Watchdog, Retry, GiveUp, CloseDone, ForeignCommit, vars
<1>6. CASE ExpireOldest
  BY <1>6 DEF ExpireOldest
<1>7. CASE Close
  BY <1>7 DEF Close
<1> QED BY <1>1, <1>2, <1>3, <1>4, <1>5, <1>6, <1>7 DEF Next, DatabaseStep

\* An entry is never replaced by older rows, for any cache size and any number of
\* calls, retired connections and late answers.
THEOREM RowsNeverGoBack == Spec => CacheNeverGoesBack
<1> DEFINE NeverBack ==
      \A i \in DOMAIN cache : \A j \in DOMAIN cache' :
          cache[i].key = cache'[j].key => cache[i].version <= cache'[j].version
<1>1. IInv /\ FreshInv /\ [Next]_vars => [NeverBack]_vars
  <2> SUFFICES ASSUME IInv, FreshInv, [Next]_vars, NEW i \in DOMAIN cache, NEW j \in DOMAIN cache',
                      cache[i].key = cache'[j].key
               PROVE  cache[i].version <= cache'[j].version
    OBVIOUS
  <2>0. /\ cache \in Seq(Entry) /\ DOMAIN cache \subseteq Nat
        /\ \A n \in DOMAIN cache : cache[n].version \in Nat
        /\ \A m, n \in DOMAIN cache : cache[m].key = cache[n].key => m = n
    <3>1. cache \in Seq(Entry) /\ \A m, n \in DOMAIN cache : cache[m].key = cache[n].key => m = n
      BY DEF IInv, TypeOK, FreshInv, CacheInv
    <3>2. \A n \in DOMAIN cache : cache[n] \in Entry
      BY <3>1
    <3>3. DOMAIN cache \subseteq Nat
      BY <3>1
    <3> QED BY <3>1, <3>2, <3>3, UnissuedIsNoVersion DEF Entry
  <2>1. CASE \E n \in DOMAIN cache : cache'[j] = cache[n]
    BY <2>0, <2>1
  <2>2. CASE cache' = cache
    BY <2>1, <2>2
  <2>3. CASE cache # <<>> /\ cache' = Tail(cache)
    <3>1. j + 1 \in DOMAIN cache /\ cache'[j] = cache[j + 1]
      BY <2>0, <2>3
    <3> QED BY <2>1, <3>1
  <2>4. CASE cache' = <<>>
    BY <2>4
  <2>5. CASE \E o \in ops : Succeed(o)
    <3>1. PICK k \in Keys, v \in Versions :
              /\ Newest(k, v)
              /\ \A l \in DOMAIN cache' :
                     \/ cache'[l].key = k /\ cache'[l].version = v
                     \/ cache'[l].key # k /\ \E n \in DOMAIN cache : cache[n] = cache'[l]
      BY <2>5, SucceedFacts DEF FreshInv, RowsInv
    <3>2. CASE cache'[j].key = k /\ cache'[j].version = v
      BY <3>1, <3>2 DEF Newest, Kept
    <3>3. CASE \E n \in DOMAIN cache : cache[n] = cache'[j]
      BY <2>1, <3>3
    <3> QED BY <3>1, <3>2, <3>3
  <2> QED BY <2>2, <2>3, <2>4, <2>5, CacheChanges
<1>2. [][NeverBack]_vars <=> CacheNeverGoesBack
  BY DEF CacheNeverGoesBack
<1> HIDE DEF NeverBack
<1> QED BY InvariantHolds, FreshnessHolds, <1>1, <1>2, PTL DEF Spec

\* Only the drain loop takes a task out of a queue.
LEMMA StartedByTheLoop ==
    ASSUME IInv, [Next]_vars, NEW t \in Calls, task[t] = "queued", task'[t] = "active"
    PROVE  DrainNext
<1>0. TypeOK /\ PromiseInv
  BY DEF IInv
<1>1. ASSUME NEW c \in Calls, Query(c) PROVE FALSE
  <2>1. c # t
    BY <1>0, <1>1 DEF Query, PromiseInv
  <2>2. task'[t] = task[t]
    BY <1>0, <1>1, <2>1 DEF Query, QueryRejected, QueryCached, QueryJoined, QueryQueued, TypeOK
  <2> QED BY <2>2
<1>2. ASSUME NEW c \in Calls, QueueTimeout(c) PROVE FALSE
  BY <1>0, <1>2 DEF QueueTimeout, TypeOK
<1>3. ASSUME NEW k \in Keys, Forget(k) PROVE FALSE
  BY <1>3 DEF Forget
<1>4. ASSUME NEW o \in ops, Running(o) \/ LoseConnection(o) \/ AbandonedEnds(o)
      PROVE  FALSE
  BY <1>4 DEF Running, LoseConnection, AbandonedEnds
<1>5. ASSUME NEW o \in ops, Succeed(o) \/ Fail(o) PROVE FALSE
  <2>1. o.task \in Calls
    BY <1>0 DEF TypeOK, Operation
  <2> QED BY <1>0, <1>5, <2>1 DEF Succeed, Fail, Finish, TypeOK
<1>6. ~GiveUp
  BY <1>0 DEF GiveUp, Finish, TypeOK
<1>7. ~Close
  BY DEF Close
<1>8. ~(ExpireOldest \/ DrainEnd \/ Watchdog \/ Retry \/ CloseDone \/ ForeignCommit \/ UNCHANGED vars)
  BY DEF ExpireOldest, DrainEnd, Watchdog, Retry, CloseDone, ForeignCommit, vars
<1> QED BY <1>1, <1>2, <1>3, <1>4, <1>5, <1>6, <1>7, <1>8 DEF Next, DatabaseStep

\* No automatic task is started while a manual one waits, for queues of any length.
THEOREM ManualTasksGoFirst == Spec => ManualFirst
<1> DEFINE First ==
      \A i \in DOMAIN automaticQueue :
          (task[automaticQueue[i]] = "queued" /\ task'[automaticQueue[i]] = "active")
          => \A j \in DOMAIN manualQueue : task[manualQueue[j]] # "queued"
<1>1. IInv /\ [Next]_vars => [First]_vars
  <2> SUFFICES ASSUME IInv, [Next]_vars, NEW i \in DOMAIN automaticQueue,
                      task[automaticQueue[i]] = "queued", task'[automaticQueue[i]] = "active",
                      NEW j \in DOMAIN manualQueue
               PROVE  task[manualQueue[j]] # "queued"
    OBVIOUS
  <2>0. TypeOK /\ QueueInv /\ automaticQueue[i] \in Calls
    BY DEF IInv, TypeOK
  <2>1. DrainNext
    BY <2>0, StartedByTheLoop
  <2>2. CASE TakeManual
    <3>1. PICK n \in DOMAIN manualQueue : task' = [task EXCEPT ![manualQueue[n]] = "active"]
      BY <2>2 DEF TakeManual
    <3>2. manualQueue[n] # automaticQueue[i]
      BY <2>0 DEF QueueInv
    <3> QED BY <2>0, <3>1, <3>2 DEF TypeOK
  <2>3. CASE TakeAutomatic
    BY <2>3 DEF TakeAutomatic, NothingIn
  <2> QED BY <2>1, <2>2, <2>3 DEF DrainNext
<1>2. [][First]_vars <=> ManualFirst
  BY DEF ManualFirst
<1> HIDE DEF First
<1> QED BY InvariantHolds, <1>1, <1>2, PTL DEF Spec

-----------------------------------------------------------------------------
(* The refinement: a call's answer is the outcome of the promise it has.   *)

LEMMA AnswersOfPromises ==
    ASSUME TypeOK, ShareInv, NEW c \in Calls
    PROVE  /\ promiseOf[c] = NoCall => Answer(c) = Unissued
           /\ promiseOf[c] # NoCall => /\ promiseOf[c] \in Calls
                                       /\ Answer(c) = outcome[promiseOf[c]]
                                       /\ keyOf[c] = keyOf[promiseOf[c]]
BY DEF TypeOK, ShareInv, Answer

LEMMA NewestIsTellable ==
    ASSUME TypeOK, ShareInv, NEW k \in Keys, NEW v \in Versions, v <= dbVersion, Told(k, v)
    PROVE  Service!Tellable(k, v)
<1>1. v \in 0..dbVersion
  BY BoundAssumption DEF Versions, TypeOK
<1>2. ASSUME NEW c \in Calls, Answer(c) \in Versions, keyOf[c] = k PROVE Answer(c) <= v
  <2>1. promiseOf[c] # NoCall
    BY <1>2, AnswersOfPromises, UnissuedIsNoVersion
  <2> QED BY <1>2, <2>1, AnswersOfPromises DEF Told
<1> QED BY <1>1, <1>2 DEF Service!Tellable, Service!Answered, Versions

\* A call is made: it waits, is refused, or is told the newest rows at once.
LEMMA AskMaps ==
    ASSUME TypeOK, ShareInv, NEW c \in Calls, promiseOf[c] = NoCall, NEW k \in Keys, NEW a,
           a = Pending \/ a = Rejected \/ (a \in Versions /\ a <= dbVersion /\ Told(k, a)),
           keyOf' = [keyOf EXCEPT ![c] = k], Answer(c)' = a,
           \A d \in Calls : d # c => Answer(d)' = Answer(d), UNCHANGED dbVersion
    PROVE  Service!Next
<1>1. Answer(c) = Unissued
  BY AnswersOfPromises
<1>2. a \in {Pending, Rejected} \cup {v \in 0..MaxVersion : Service!Tellable(k, v)}
  BY NewestIsTellable DEF Versions
<1>3. [d \in Calls |-> Answer(d)]' = [[d \in Calls |-> Answer(d)] EXCEPT ![c] = a]
  OBVIOUS
<1>4. Service!Ask(c, k)
  BY <1>1, <1>2, <1>3 DEF Service!Ask
<1> QED BY <1>4 DEF Service!Next

LEMMA RefuseMaps ==
    ASSUME TypeOK, ShareInv, UNCHANGED <<keyOf, promiseOf, dbVersion>>,
           \A t \in Calls : outcome'[t] = outcome[t] \/ (outcome[t] = Pending /\ outcome'[t] = Rejected)
    PROVE  Service!Next
<1> DEFINE S == {c \in Calls : Answer(c) = Pending /\ Answer(c)' = Rejected}
<1>1. \A c \in Calls : Answer(c)' = IF c \in S THEN Rejected ELSE Answer(c)
  BY DEF Answer, TypeOK
<1>2. [c \in Calls |-> Answer(c)]' =
          [c \in Calls |-> IF c \in S THEN Rejected ELSE [d \in Calls |-> Answer(d)][c]]
  <2> HIDE DEF S
  <2> QED BY <1>1
<1>3. Service!Refuse(S)
  BY <1>2 DEF Service!Refuse
<1> QED BY <1>3 DEF Service!Next

LEMMA SucceedMaps ==
    ASSUME IInv, FreshInv, NEW o \in ops, Succeed(o)
    PROVE  Service!Next
<1>0. TypeOK /\ ShareInv
  BY DEF IInv, FreshInv
<1>1. PICK t \in Calls, k \in Keys, v \in Versions :
          /\ keyOf[t] = k /\ promiseOf[t] = t /\ outcome[t] = Pending
          /\ Newest(k, v) /\ v <= dbVersion /\ outcome' = [outcome EXCEPT ![t] = v]
          /\ UNCHANGED <<keyOf, promiseOf, dbVersion>>
  BY SucceedFacts DEF FreshInv, RowsInv
<1> DEFINE S == {c \in Calls : promiseOf[c] = t}
<1>2. \A c \in S : Answer(c) = Pending /\ keyOf[c] = k
  BY <1>0, <1>1, CallsAssumption DEF Answer, ShareInv
<1>3. \A c \in Calls : Answer(c)' = IF c \in S THEN v ELSE Answer(c)
  BY <1>0, <1>1, CallsAssumption DEF Answer, TypeOK
<1>4. [c \in Calls |-> Answer(c)]' =
          [c \in Calls |-> IF c \in S THEN v ELSE [d \in Calls |-> Answer(d)][c]]
  <2> HIDE DEF S
  <2> QED BY <1>3
<1>5. Service!Tellable(k, v)
  BY <1>0, <1>1, NewestIsTellable DEF Newest
<1>6. Service!Answer(S, k, v)
  BY <1>1, <1>2, <1>4, <1>5 DEF Service!Answer
<1> QED BY <1>6 DEF Service!Next, Versions

LEMMA QueryMaps ==
    ASSUME IInv, FreshInv, NEW c \in Calls, Query(c)
    PROVE  Service!Next
<1>0. /\ TypeOK /\ ShareInv /\ promiseOf[c] = NoCall
      /\ \A d \in Calls : promiseOf[d] # c
  BY NotYetShared DEF IInv, FreshInv, Query
<1>1. ASSUME NEW p, p \in Calls, promiseOf' = [promiseOf EXCEPT ![c] = p],
             \A t \in Calls : t # c => outcome'[t] = outcome[t]
      PROVE  /\ Answer(c)' = outcome'[p]
             /\ \A d \in Calls : d # c => Answer(d)' = Answer(d)
  BY <1>0, <1>1, CallsAssumption DEF Answer, TypeOK
<1>2. CASE QueryRejected(c)
  <2>1. /\ promiseOf' = [promiseOf EXCEPT ![c] = c] /\ outcome'[c] = Rejected
        /\ \A t \in Calls : t # c => outcome'[t] = outcome[t]
        /\ UNCHANGED dbVersion
    BY <1>0, <1>2 DEF QueryRejected, TypeOK
  <2>2. PICK k \in Keys : k = keyOf[c]
    BY <1>0 DEF TypeOK
  <2>3. keyOf' = [keyOf EXCEPT ![c] = k]
    BY <1>0, <1>2, <2>2 DEF QueryRejected, TypeOK
  <2>4. Answer(c)' = Rejected /\ \A d \in Calls : d # c => Answer(d)' = Answer(d)
    BY <1>1, <2>1
  <2> QED BY <1>0, <2>1, <2>3, <2>4, AskMaps
<1>3. ASSUME NEW k \in Keys, NEW mode \in CacheModes, QueryCached(c, k, mode)
      PROVE  Service!Next
  <2>1. PICK n \in DOMAIN cache, v \in Versions :
            cache[n].key = k /\ cache[n].version = v /\ Stored(k) = v
    <3>1. IndexOf(k) \in DOMAIN cache /\ cache[IndexOf(k)].key = k
      BY <1>3 DEF QueryCached, Hits, Cached, IndexOf
    <3>2. Stored(k) \in Versions
      BY <1>0, <1>3, StoredType DEF QueryCached, Hits, TypeOK
    <3> QED BY <3>1, <3>2 DEF Stored
  <2>2. v <= dbVersion /\ Told(k, v)
    BY <2>1 DEF FreshInv, PastInv, CacheInv
  <2>3. /\ promiseOf' = [promiseOf EXCEPT ![c] = c] /\ outcome'[c] = v
        /\ \A t \in Calls : t # c => outcome'[t] = outcome[t]
        /\ keyOf' = [keyOf EXCEPT ![c] = k] /\ UNCHANGED dbVersion
    BY <1>0, <1>3, <2>1 DEF QueryCached, TypeOK
  <2>4. Answer(c)' = v /\ \A d \in Calls : d # c => Answer(d)' = Answer(d)
    BY <1>1, <2>3
  <2> QED BY <1>0, <2>2, <2>3, <2>4, AskMaps
<1>4. ASSUME NEW k \in Keys, NEW mode \in CacheModes, QueryJoined(c, k, mode)
      PROVE  Service!Next
  <2>1. PICK p \in Calls : inFlight[k] = p /\ promiseOf[p] = p
    BY <1>0, <1>4 DEF QueryJoined, Joins, ShareInv, TypeOK
  <2>2. /\ promiseOf' = [promiseOf EXCEPT ![c] = p] /\ outcome' = outcome
        /\ keyOf' = [keyOf EXCEPT ![c] = k] /\ UNCHANGED dbVersion
    BY <1>4, <2>1 DEF QueryJoined
  <2>3. Answer(c)' = outcome[p] /\ \A d \in Calls : d # c => Answer(d)' = Answer(d)
    BY <1>1, <2>2
  <2>4. outcome[p] \in Versions => outcome[p] <= dbVersion /\ Told(k, outcome[p])
    BY <2>1, CallsAssumption DEF FreshInv, PastInv, FlightInv, Newest
  <2>5. outcome[p] = Pending \/ outcome[p] = Rejected \/ outcome[p] \in Versions
    BY <1>0, <2>1 DEF ShareInv, TypeOK
  <2> QED BY <1>0, <2>2, <2>3, <2>4, <2>5, AskMaps
<1>5. ASSUME NEW k \in Keys, NEW mode \in CacheModes, NEW p \in Priorities,
             QueryQueued(c, k, p, mode)
      PROVE  Service!Next
  <2>1. /\ promiseOf' = [promiseOf EXCEPT ![c] = c] /\ outcome'[c] = Pending
        /\ \A t \in Calls : t # c => outcome'[t] = outcome[t]
        /\ keyOf' = [keyOf EXCEPT ![c] = k] /\ UNCHANGED dbVersion
    BY <1>0, <1>5 DEF QueryQueued, TypeOK
  <2>2. Answer(c)' = Pending /\ \A d \in Calls : d # c => Answer(d)' = Answer(d)
    BY <1>1, <2>1
  <2> QED BY <1>0, <2>1, <2>2, AskMaps
<1> QED BY <1>2, <1>3, <1>4, <1>5 DEF Query

LEMMA StepMaps ==
    ASSUME IInv, FreshInv, [Next]_vars
    PROVE  [Service!Next]_(Service!vars)
<1>0. TypeOK /\ ShareInv /\ PromiseInv /\ LoopInv
  BY DEF IInv, FreshInv
<1>1. ASSUME NEW c \in Calls, Query(c) PROVE Service!Next
  BY <1>1, QueryMaps
<1>2. ASSUME NEW c \in Calls, QueueTimeout(c) PROVE Service!Next
  <2>1. outcome[c] = Pending
    BY <1>0, <1>2 DEF QueueTimeout, PromiseInv, Live
  <2>2. \A t \in Calls : outcome'[t] = outcome[t] \/ (outcome[t] = Pending /\ outcome'[t] = Rejected)
    BY <1>0, <1>2, <2>1 DEF QueueTimeout, TypeOK
  <2> QED BY <1>0, <1>2, <2>2, RefuseMaps DEF QueueTimeout, callVars
<1>3. ASSUME NEW o \in ops, Succeed(o) PROVE Service!Next
  BY <1>3, SucceedMaps
<1>4. CASE GiveUp \/ \E o \in ops : Fail(o)
  <2>1. PICK t \in Calls : t = activeTask /\ outcome' = [outcome EXCEPT ![t] = Rejected]
    BY <1>0, <1>4 DEF GiveUp, Fail, Awaited, Finish, LoopInv, TypeOK, Operation
  <2>2. outcome[t] = Pending
    BY <1>0, <2>1 DEF LoopInv, PromiseInv, Live
  <2>3. \A u \in Calls : outcome'[u] = outcome[u] \/ (outcome[u] = Pending /\ outcome'[u] = Rejected)
    BY <1>0, <2>1, <2>2 DEF TypeOK
  <2>4. UNCHANGED <<keyOf, promiseOf, dbVersion>>
    BY <1>4 DEF GiveUp, Fail, Finish, callVars
  <2> QED BY <1>0, <2>3, <2>4, RefuseMaps
<1>5. CASE Close
  <2>1. \A t \in Calls : outcome'[t] = outcome[t] \/ (outcome[t] = Pending /\ outcome'[t] = Rejected)
    BY <1>0, <1>5 DEF Close, PromiseInv, Live
  <2> QED BY <1>0, <1>5, <2>1, RefuseMaps DEF Close, callVars
<1>6. CASE ForeignCommit
  <2>1. [c \in Calls |-> Answer(c)]' = [c \in Calls |-> Answer(c)]
    BY <1>6 DEF ForeignCommit, callVars, Answer
  <2>2. Service!Commit
    BY <1>6, <2>1 DEF ForeignCommit, callVars, Service!Commit
  <2> QED BY <2>2 DEF Service!Next
<1>7. CASE \/ ExpireOldest \/ DrainNext \/ DrainEnd \/ Watchdog \/ Retry \/ CloseDone
           \/ UNCHANGED vars \/ \E k \in Keys : Forget(k)
           \/ \E o \in ops : Running(o) \/ LoseConnection(o) \/ AbandonedEnds(o)
  <2>1. UNCHANGED <<keyOf, promiseOf, outcome, dbVersion>>
    BY <1>7 DEF ExpireOldest, DrainNext, DrainEnd, Watchdog, Retry, CloseDone, Forget,
                Running, LoseConnection, AbandonedEnds, vars, callVars
  <2> QED BY <2>1 DEF Service!vars, Answer
<1> QED BY <1>1, <1>2, <1>3, <1>4, <1>5, <1>6, <1>7 DEF Next, DatabaseStep

LEMMA InitMaps == Init => Service!Init
<1> SUFFICES ASSUME Init PROVE Service!Init
  OBVIOUS
<1>1. keyOf \in [Calls -> Keys] /\ dbVersion = 0
  BY CallsAssumption DEF Init
<1>2. [c \in Calls |-> Answer(c)] = [c \in Calls |-> Unissued]
  BY DEF Init, Answer
<1> QED BY <1>1, <1>2 DEF Service!Init

\* The broker is a ReadService, whatever the number of calls and keys, the size of
\* the cache and what the database, its connections and the timers do.
THEOREM BrokerIsAReadService == Spec => ImplementsService
<1>1. IInv /\ FreshInv /\ [Next]_vars => [Service!Next]_(Service!vars)
  BY StepMaps
<1> QED BY InvariantHolds, FreshnessHolds, InitMaps, <1>1, PTL
        DEF Spec, ImplementsService, Service!Spec

=============================================================================
