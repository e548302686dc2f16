-------------------------------- MODULE MCLive --------------------------------
(***************************************************************************)
(* Two parts in which somebody waits, for TLC: a behaviour examines the    *)
(* API key cutoffs or the read broker, its part, and the other one stays   *)
(* as it begins.  Each action is as fair as in its own module.             *)
(***************************************************************************)
EXTENDS ApiKeyCutoff, Integers

CONSTANTS Calls, Keys, NoCall, Unissued, Pending, Rejected

VARIABLES
  part,
  manualQueue, automaticQueue, task, keyOf, promiseOf, outcome, inFlight, cache, activeTask,
  attempt, recycling, draining, closePhase, generation, ops, dbVersion

brokerVars ==
  <<manualQueue, automaticQueue, task, keyOf, promiseOf, outcome, inFlight, cache, activeTask,
    attempt, recycling, draining, closePhase, generation, ops, dbVersion>>

Broker == INSTANCE ReadBroker WITH CacheMax <- 1, MaxVersion <- 0

LiveInit ==
  /\ Init /\ Broker!Init
  /\ part \in {"cutoffs", "broker"}
  /\ part = "broker" => schedulable = Accounts /\ oauth /\ kind = [c \in Cutoffs |-> [account |-> "all", live |-> TRUE]]

LiveNext ==
  /\ UNCHANGED part
  /\ \/ part = "cutoffs" /\ Next /\ UNCHANGED brokerVars
     \/ part = "broker" /\ Broker!Next /\ UNCHANGED vars

\* Only the actions of the part can be taken, and only they are fair.
In(which, action) == part = which /\ action

LiveFairness ==
  /\ \A c \in Cutoffs : WF_vars(In("cutoffs", Workflow(c)))
  /\ WF_brokerVars(In("broker", Broker!Watchdog))
  /\ WF_brokerVars(In("broker", Broker!Retry))
  /\ WF_brokerVars(In("broker", Broker!GiveUp))
  /\ WF_brokerVars(In("broker", Broker!DrainNext))
  /\ WF_brokerVars(In("broker", Broker!DrainEnd))
  /\ WF_brokerVars(In("broker", Broker!CloseDone))
  /\ \A c \in Calls : WF_brokerVars(In("broker", Broker!QueueTimeout(c)))

LiveSpec == LiveInit /\ [][LiveNext]_<<part, vars, brokerVars>> /\ LiveFairness

-----------------------------------------------------------------------------
(* Properties of the broker, as ReadBroker has them; a part that stays as it *)
(* begins has no calls and no cutoffs, so that they hold of it.              *)

\* Every query is answered or rejected, even if the database never answers.
EveryCallSettles == Broker!EveryCallSettles

\* close() returns, even with a read that hangs.
CloseReturns == Broker!CloseReturns
=============================================================================
