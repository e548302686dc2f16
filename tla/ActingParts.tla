------------------------------- MODULE ActingParts -------------------------------
(***************************************************************************)
(* The parts that act: they write, move money, probe or synchronize.       *)
(* Their constants are those of their modules, where they are explained.   *)
(***************************************************************************)
EXTENDS Parts

CONSTANTS
  \* lottery
  Draws, InitialCount, PerDay, MaxDay, MaxResets,
  \* operations
  Ops, Execs, OperationRequests, MaxAccounts,
  \* store
  Queries,
  \* purchases, recovery
  JobCount, KeptJobs, Quantity, Totals,
  Workers, MaxImports,
  \* isolation, rounds
  Isolated, Taken, Callers, Round, MaxGroups,
  Probed, CandidateLimit, RepairLimit, MaxLoops,
  \* models
  Synced, Runners, BatchSize

ASSUME LotteryAssumption == InitialCount \in Nat /\ PerDay \in Nat
ASSUME OperationsAssumption ==
  /\ MaxAccounts \in Nat
  /\ \A requests \in OperationRequests, op \in Ops :
       /\ requests[op].action \in {"create", "recharge", "update", "usage", "recover", "initialize",
                                  "align", "isolation"}
       /\ requests[op].amount \in Int
       /\ requests[op].action \notin {"create", "recharge"} => requests[op].amount = 0
ASSUME StoreAssumption == MaxFaults["store"] \in Nat
ASSUME ModelsAssumption ==
  BatchSize \in Nat \ {0} /\ IsFiniteSet(Synced) /\ Synced = 1 .. Cardinality(Synced)
ASSUME PurchasesAssumption == JobCount \in Nat /\ Quantity \in Nat \ {0} /\ Totals \subseteq Nat

Lottery == INSTANCE Lottery WITH
  MaxFailures <- MaxFaults["lottery"], creditMode <- v1, day <- v2, lastGrant <- v3, remaining <- v4, records <- v5,
  line <- v6, stage <- v7, paid <- v8, overdue <- v9, base <- v10, spent <- v11, resets <- v12,
  failures <- v13

Operations == INSTANCE UpstreamOperations WITH
  Requests <- OperationRequests, MaxFaults <- MaxFaults["operations"], request <- v1, registering <- v2, pending <- v3, accounts <- v4, keyed <- v5,
  entries <- v6, exec <- v7, faults <- v8

Store == INSTANCE OperationsStore WITH
  MaxFaults <- MaxFaults["store"], kind <- v1, generation <- v2, pool <- v3,
  recycling <- v4, closed <- v5, closing <- v6, query <- v7, stray <- v8, effects <- v9,
  broken <- v10, connectionFaults <- v11

Supply == INSTANCE Purchases WITH
  MaxPurchaseFaults <- MaxFaults["purchases"],
  bought <- v1, purchase <- v2, submission <- v3, run <- v4, order <- v5, download <- v6,
  import <- v7, purchaseFaults <- v8

Recovery == INSTANCE PublicRecovery WITH
  MaxRecoveryFaults <- MaxFaults["recovery"], recoveryJob <- v1, worker <- v2,
  card <- v3, retries <- v4, output <- v5, imports <- v6, verified <- v7, recoveryFaults <- v8

Isolation == INSTANCE ProbeIsolation WITH
  Accounts <- Isolated, MaxProbeFaults <- MaxFaults["isolation"], group <- v1, grouped <- v2, allowed <- v3, keyGroup <- v4,
  record <- v5, lock <- v6, ensure <- v7, round <- v8, measured <- v9, probeFaults <- v10
ASSUME IsolationAssumption ==
  MaxGroups \in Nat \ {0} /\ Round \in Callers /\ Isolation!Nobody \notin Callers \cup Isolated

Rounds == INSTANCE IdleProbe WITH
  Accounts <- Probed, MaxEvents <- MaxFaults["rounds"],
  active <- v1, busy <- v2, bound <- v3, unbindable <- v4, order <- v5, round <- v6,
  repairs <- v7, lastRound <- v8, waits <- v9, events <- v10
ASSUME RoundsAssumption ==
  /\ IsFiniteSet(Probed) /\ Probed = 1 .. Cardinality(Probed)
  /\ CandidateLimit \in Nat \ {0} /\ RepairLimit \in Nat \ {0}

Models == INSTANCE ModelSync WITH
  Accounts <- Synced, MaxEvents <- MaxFaults["models"], NoCursor <- Off,
  Idle <- Off, eligible <- v1, cursor <- v2, rows <- v3, run <- v4, finished <- v5, turn <- v6,
  events <- v7
\* Nothing is not a round.
ASSUME NothingAssumption == Off \notin Models!RunRecord

-----------------------------------------------------------------------------
ActingInit ==
  \/ part = "lottery" /\ Lottery!Init /\ Unused(13)
  \/ part = "operations" /\ Operations!Init /\ Unused(8)
  \/ part = "store" /\ Store!Init /\ Unused(11)
  \/ part = "purchases" /\ Supply!Init /\ Unused(8)
  \/ part = "recovery" /\ Recovery!Init /\ Unused(8)
  \/ part = "isolation" /\ Isolation!Init /\ Unused(10)
  \/ part = "rounds" /\ Rounds!Init /\ Unused(10)
  \/ part = "models" /\ Models!Init /\ Unused(7)

ActingNext ==
  /\ UNCHANGED part
  /\ \/ part = "lottery" /\ Lottery!Next /\ Still(13)
     \/ part = "operations" /\ Operations!Next /\ Still(8)
     \/ part = "store" /\ Store!Next /\ Still(11)
     \/ part = "purchases" /\ Supply!Next /\ Still(8)
     \/ part = "recovery" /\ Recovery!Next /\ Still(8)
     \/ part = "isolation" /\ Isolation!Next /\ Still(10)
     \/ part = "rounds" /\ Rounds!Next /\ Still(10)
     \/ part = "models" /\ Models!Next /\ Still(7)

ActingSpec == ActingInit /\ [][ActingNext]_vars

-----------------------------------------------------------------------------
(* Properties: those of the part that the behaviour examines *)

\* Draws of the lottery do not overlap, every chance is accounted for and every prize
\* is recorded.
PrizesAreHonest ==
  /\ part = "lottery" => Lottery!OneDrawAtATime /\ Lottery!ChancesAreAccounted /\ Lottery!PrizesAreRecorded

\* A recharge is booked once, whatever is retried.
RechargesBookedOnce ==
  /\ part = "operations" => Operations!RechargesBookedOnce

\* No write of the store is replayed, and its pools are retired once.
ConnectionsAreSound ==
  /\ part = "store" => Store!WritesAreNotReplayed /\ Store!PoolsAreRetiredOnce

\* Purchases and recovered accounts are accounted for.
SuppliesAreAccounted ==
  /\ part = "purchases" => Supply!PurchasesAreAccounted
  /\ part = "recovery" => Recovery!RecoveriesAreSound

\* A probe measures the account it is for, and rounds, of probes and of
\* synchronizations, tell what became of their accounts.
RoundsAreHonest ==
  /\ part = "isolation" => Isolation!ProbesReachTheirAccount
  /\ part = "rounds" => Rounds!RoundsTellTheirProbes
  /\ part = "models" => Models!RoundsTellTheirAccounts

\* The rounds reach everybody.
TurnsAreFair ==
  /\ part = "rounds" => Rounds!NobodyIsPassedOver
  /\ part = "models" => Models!EverybodyHasATurn
=================================================================================
