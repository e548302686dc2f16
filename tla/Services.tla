-------------------------------- MODULE Services --------------------------------
(***************************************************************************)
(* All parts: those that act, those that answer or ask, and those that     *)
(* compute.  Their constants are those of their modules, where they are    *)
(* explained.                                                              *)
(***************************************************************************)
EXTENDS ActingParts, AnsweringParts

CONSTANTS
  \* ledger, costs
  Owned, Plans, NoPlan, Units, MaxLines,
  LedgerRecords, ConfiguredRecords, RefundLists, NoBatch,
  \* ranking
  RankedAccounts, RankingRows, Unscored, TargetAttempts, MinPriority, MaxPriority, TopK, ForceNormalized,
  MinUniformity, QualityWeight, CostWeight, ExplorationWeight, Prior, Fixed, Reserve,
  WritesEnabled

Ledger == INSTANCE CostLedger WITH
  Accounts <- Owned,
  lines <- v1, truth <- v2

Costs == INSTANCE ProcurementCosts WITH
  Imported <- LedgerRecords, Configured <- ConfiguredRecords, Refunds <- RefundLists,
  NaN <- Off, imported <- v1, configured <- v2,
  refunds <- v3, costs <- v4, shares <- v5, total <- v6, phase <- v7

Ranking == INSTANCE PriorityRanking WITH
  Accounts <- RankedAccounts, Rows <- RankingRows, evidence <- v1, priority <- v2, scores <- v3, phase <- v4

-----------------------------------------------------------------------------
Init ==
  \/ ActingInit \/ AnsweringInit
  \/ part = "ledger" /\ Ledger!Init /\ Unused(2)
  \/ part = "costs" /\ Costs!Init /\ Unused(7)
  \/ part = "ranking" /\ Ranking!Init /\ Unused(4)

OtherNext ==
  /\ UNCHANGED part
  /\ \/ part = "ledger" /\ Ledger!Next /\ Still(2)
     \/ part = "costs" /\ Costs!Next /\ Still(7)
     \/ part = "ranking" /\ Ranking!Next /\ Still(4)

Next == ActingNext \/ AnsweringNext \/ OtherNext

Spec == Init /\ [][Next]_vars

-----------------------------------------------------------------------------
(* Properties: those of the part that the behaviour examines *)

\* What is computed agrees with what it stands for: corrections of the ledger, what
\* accounts cost, what a monitored upstream delivers, how accounts are
\* ranked, and the route that a call of the command line finds.
ComputationsAgree ==
  /\ part = "command" => Command!CallsFindTheirRoute
  /\ part = "ledger" => Ledger!CorrectionsCompose
  /\ part = "costs" => Costs!CostsAreCountedOnce /\ Costs!RefundsAreSharedOut
  /\ part = "quota" => Quota!MonitorNeverExaggerates
  /\ part = "ranking" => Ranking!PlanFollowsTheRanking
=================================================================================
