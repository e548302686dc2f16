----------------------------- MODULE OperationsStore -----------------------------
(***************************************************************************)
(* The connections of the operations store (class OperationsStore of       *)
(* src/src/operations-store.ts).                                           *)
(*                                                                         *)
(* A pool of connections is known by its generation.  A query that times   *)
(* out or loses its connection retires the pool it ran on; a read and an   *)
(* idempotent write run once more on the pool that follows, every other    *)
(* write does not.  PostgreSQL may have executed a write whose answer got  *)
(* lost, and may execute one late that nobody awaits any more.             *)
(***************************************************************************)
EXTENDS Integers, FiniteSets

CONSTANTS
  Queries,   \* calls of the store
  MaxFaults  \* bound: failing connections, timeouts

VARIABLES
  kind,        \* what each query is
  generation,  \* connectionGeneration: `sql` is the pool of this generation
  pool,        \* state of the pool of each generation
  recycling,   \* the generation whose close() the recyclePromise awaits, or NoPromise
  closed,
  closing,     \* where close() is
  query,       \* where each query is: its stage, the generation it observed, its attempt
  stray,       \* writes that PostgreSQL may still execute, one for each lost attempt
  effects,     \* how often PostgreSQL has executed each write
  broken,      \* generations on which a query failed
  connectionFaults

storeVars == <<kind, generation, pool, recycling, closed, closing, query, stray, effects,
               broken, connectionFaults>>

Generations == 0 .. MaxFaults
NoPromise == -1
Settled == {"ok", "failed"}
\* "read": readQuery(); "upsert": setApiCache(); "write": persistQuery();
\* "plain": a write on `sql` itself.
Kinds == {"read", "upsert", "write", "plain"}

Init ==
  /\ kind \in [Queries -> Kinds]
  /\ generation = 0
  /\ pool = [g \in Generations |-> IF g = 0 THEN "open" ELSE "none"]
  /\ recycling = NoPromise
  /\ closed = FALSE /\ closing = "no"
  /\ query = [q \in Queries |-> [stage |-> "idle", observed |-> 0, attempt |-> 1]]
  /\ stray = [q \in Queries |-> 0]
  /\ effects = [q \in Queries |-> 0]
  /\ broken = {}
  /\ connectionFaults = 0

-----------------------------------------------------------------------------
(* Queries *)

GoTo(q, stage) == query' = [query EXCEPT ![q].stage = stage]

\* A call, or its second attempt, takes the pool of the moment.
Run(q, attempt) ==
  query' = [query EXCEPT ![q] = [stage |-> "running", observed |-> generation, attempt |-> attempt]]

Start(q) ==
  /\ query[q].stage = "idle"
  /\ Run(q, 1)
  /\ UNCHANGED <<kind, generation, pool, recycling, closed, closing, stray, effects, broken, connectionFaults>>

Executed(q) == effects' = IF kind[q] = "read" THEN effects ELSE [effects EXCEPT ![q] = @ + 1]

Answer(q) ==
  /\ query[q].stage = "running" /\ pool[query[q].observed] = "open"
  /\ Executed(q)
  /\ GoTo(q, "ok")
  /\ UNCHANGED <<kind, generation, pool, recycling, closed, closing, stray, broken, connectionFaults>>

\* Faulty: the recovery of reads serves every write as well.
RecoveryOfAll(q) == "replay"

\* What a caller does once the pool is recycled: withConnectionRecovery() replays
\* the operation once, persistQuery() never does.
Recovery(q) ==
  IF kind[q] \in {"read", "upsert"} /\ query[q].attempt = 1 THEN "replay" ELSE "failed"

\* readDeadline() gives up, or the connection is lost: a query of a pool that is
\* open, or that another query had recycled, may be executed now, later or never.
\* A write on `sql` itself fails at once and recycles nothing.
Lose(q) ==
  /\ query[q].stage = "running"
  /\ \/ /\ pool[query[q].observed] = "open"
        /\ connectionFaults < MaxFaults /\ connectionFaults' = connectionFaults + 1
        /\ broken' = broken \cup {query[q].observed}
     \/ /\ pool[query[q].observed] # "open"
        /\ UNCHANGED <<connectionFaults, broken>>
  /\ \/ Executed(q) /\ UNCHANGED stray
     \/ kind[q] # "read" /\ stray' = [stray EXCEPT ![q] = @ + 1] /\ UNCHANGED effects
     \/ UNCHANGED <<effects, stray>>
  /\ GoTo(q, IF kind[q] = "plain" THEN "failed" ELSE "recycle")
  /\ UNCHANGED <<kind, generation, pool, recycling, closed, closing>>

LateWrite(q) ==
  /\ stray[q] > 0
  /\ stray' = [stray EXCEPT ![q] = @ - 1]
  /\ Executed(q)
  /\ UNCHANGED <<kind, generation, pool, recycling, closed, closing, query, broken, connectionFaults>>

-----------------------------------------------------------------------------
(* recycleConnections() *)

\* Faulty: whatever pool is in use is replaced.
ReplacesAny(q) == ~ closed /\ recycling = NoPromise

\* The pool the query ran on is still in use, and nobody replaces a pool.
Replaces(q) == ~ closed /\ query[q].observed = generation /\ recycling = NoPromise

\* A pool that is being replaced is awaited, also by a query of the new one.
AwaitsRecycle(q) == ~ closed /\ query[q].observed = generation /\ recycling # NoPromise

Recycle(q) ==
  /\ query[q].stage = "recycle"
  /\ IF Replaces(q)
     THEN /\ generation < MaxFaults
          /\ generation' = generation + 1
          /\ pool' = [pool EXCEPT ![generation] = "closing", ![generation + 1] = "open"]
          /\ recycling' = generation
          /\ GoTo(q, "await")
     ELSE /\ GoTo(q, IF AwaitsRecycle(q) THEN "await" ELSE Recovery(q))
          /\ UNCHANGED <<generation, pool, recycling>>
  /\ UNCHANGED <<kind, closed, closing, stray, effects, broken, connectionFaults>>

\* The old pool is closed, or the recycle stops waiting for it after 1.5 s.
Recycled ==
  /\ recycling # NoPromise
  /\ recycling' = NoPromise
  /\ \/ pool' = [pool EXCEPT ![recycling] = "closed"]
     \/ UNCHANGED pool
  /\ query' = [q \in Queries |->
       IF query[q].stage = "await" THEN [query[q] EXCEPT !.stage = Recovery(q)] ELSE query[q]]
  /\ UNCHANGED <<kind, generation, closed, closing, stray, effects, broken, connectionFaults>>

PoolClosed(g) ==
  /\ pool[g] = "closing" /\ g # recycling
  /\ pool' = [pool EXCEPT ![g] = "closed"]
  /\ UNCHANGED <<kind, generation, recycling, closed, closing, query, stray, effects, broken, connectionFaults>>

Replay(q) ==
  /\ query[q].stage = "replay"
  /\ Run(q, 2)
  /\ UNCHANGED <<kind, generation, pool, recycling, closed, closing, stray, effects, broken, connectionFaults>>

-----------------------------------------------------------------------------
(* close() *)

Close ==
  /\ ~ closed
  /\ closed' = TRUE /\ closing' = "waiting"
  /\ UNCHANGED <<kind, generation, pool, recycling, query, stray, effects, broken, connectionFaults>>

Closed ==
  /\ closing = "waiting" /\ recycling = NoPromise
  /\ closing' = "done"
  /\ pool' = [pool EXCEPT ![generation] = "closed"]
  /\ UNCHANGED <<kind, generation, recycling, closed, query, stray, effects, broken, connectionFaults>>

Next ==
  \/ \E q \in Queries : Start(q) \/ Answer(q) \/ Lose(q) \/ LateWrite(q) \/ Recycle(q) \/ Replay(q)
  \/ \E g \in Generations : PoolClosed(g)
  \/ Recycled \/ Close \/ Closed

-----------------------------------------------------------------------------
(* Properties *)

\* persistQuery(): "A lost write acknowledgement is not permission to replay a
\* business mutation".  However a write fails, it takes effect at most once, and
\* one that was acknowledged did.
WritesAreNotReplayed ==
  \A q \in Queries :
    /\ kind[q] \in {"write", "plain"} => effects[q] + stray[q] <= 1
    /\ kind[q] # "read" /\ query[q].stage = "ok" => effects[q] >= 1

\* recycleConnections() and close(): a pool is retired because a query failed on
\* it or the store closes, a retired pool is never used again, and nothing is left
\* open once close() returns.
PoolsAreRetiredOnce ==
  /\ \A g \in Generations : pool[g] = "open" => g = generation
  /\ \A g \in Generations : pool[g] \in {"closing", "closed"} /\ closing # "done" => g \in broken
  /\ closing = "done" => \A g \in Generations : pool[g] # "open"

-----------------------------------------------------------------------------
(* The inductive invariant *)

TypeInv ==
  /\ kind \in [Queries -> Kinds]
  /\ generation \in Generations
  /\ recycling \in Generations \cup {NoPromise}
  /\ pool \in [Generations -> {"none", "open", "closing", "closed"}]
  /\ closed \in BOOLEAN
  /\ closing \in {"no", "waiting", "done"}
  /\ query \in [Queries -> [stage : {"idle", "running", "recycle", "await", "replay"} \cup Settled,
                            observed : Generations, attempt : 1 .. 2]]
  /\ stray \in [Queries -> Nat] /\ effects \in [Queries -> Nat]
  /\ broken \subseteq Generations

\* A mutation that may not be replayed has no effect before its only attempt ends,
\* and never comes to a replay.
MutationInv ==
  \A q \in Queries :
    /\ kind[q] \in {"write", "plain"} =>
         /\ query[q].stage # "replay"
         /\ effects[q] + stray[q] <= 1
         /\ query[q].stage \in {"idle", "running"} => effects[q] + stray[q] = 0
    /\ kind[q] # "read" /\ query[q].stage = "ok" => effects[q] >= 1

\* The pool in use is open until the store is closed.  Who wants it recycled saw it
\* break, and nobody observes a pool that is still to come.
PoolInv ==
  /\ closed <=> closing # "no"
  /\ closing # "done" => pool[generation] = "open"
  /\ closing = "done" => recycling = NoPromise
  /\ recycling # NoPromise => recycling < generation /\ recycling \in broken
  /\ \A q \in Queries :
       /\ query[q].observed <= generation
       /\ query[q].stage = "recycle" /\ query[q].observed = generation /\ closing # "done" =>
            generation \in broken

StoreInv == TypeInv /\ MutationInv /\ PoolInv /\ PoolsAreRetiredOnce
=============================================================================
