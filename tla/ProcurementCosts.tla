--------------------------- MODULE ProcurementCosts ---------------------------
(***************************************************************************)
(* What the accounts of the OAuth pool cost (src/src/oauth-economics.ts):  *)
(* the records of the import ledger and those of the configuration are     *)
(* merged, then every refund of a supplier is shared out among the         *)
(* accounts it was paid for.  Amounts are in fen, as money() rounds them.  *)
(***************************************************************************)
EXTENDS Integers, Sequences, FiniteSets, FiniteSetsExt, SequencesExt, Functions

CONSTANTS
  Imported,     \* what the ledger may hold: sequences of records
  Configured,   \* what the configuration may hold: sequences of records
  Refunds,      \* what it may hold of refunds
  NoPlan, NoBatch,
  NaN           \* no number: a division of nothing by nothing

VARIABLES
  imported, configured, refunds,
  costs,   \* of each account: its cost, plan and batches
  shares,  \* of each account in the refunds so far
  total,   \* of the refunds so far
  phase    \* "read", "merged", "done" or "refused"

costsVars == <<imported, configured, refunds, costs, shares, total, phase>>

\* Math.round() of p / q
Rounded(p, q) == (2 * p + q) \div (2 * q)

Init ==
  /\ imported \in Imported /\ configured \in Configured /\ refunds \in Refunds
  /\ costs = <<>> /\ shares = <<>> /\ total = 0 /\ phase = "read"

-----------------------------------------------------------------------------
(* mergeOAuthAcquisitionCosts() *)

AccountsOf(records) == {record.account : record \in ToSet(records)}

\* Faulty: an account may have costs of both sources.
KeepsBoth == imported \o SelectSeq(configured, LAMBDA row : row.amount >= 0)

\* What the configuration says of an account with a record in the ledger is left out.
Records ==
  imported \o SelectSeq(configured, LAMBDA row : row.amount >= 0 /\ row.account \notin AccountsOf(imported))

PlansOf(account) ==
  {Records[i].plan : i \in {i \in DOMAIN Records : Records[i].account = account}} \ {NoPlan}

Cost(account) ==
  LET of == {i \in DOMAIN Records : Records[i].account = account}
  IN  [cost |-> MapThenSumSet(LAMBDA i : Records[i].amount, of),
       plan |-> IF PlansOf(account) = {} THEN NoPlan ELSE CHOOSE plan \in PlansOf(account) : TRUE,
       batches |-> {Records[i].batch : i \in of} \ {NoBatch}]

\* Refunds that say nothing are refused too: normalizeOAuthRefunds().
Merge ==
  /\ phase = "read"
  /\ IF \/ \E account \in AccountsOf(Records) : Cardinality(PlansOf(account)) > 1
        \/ \E i \in DOMAIN refunds : refunds[i].amount <= 0 \/ refunds[i].accounts = {}
     THEN phase' = "refused" /\ UNCHANGED costs
     ELSE /\ phase' = IF refunds = <<>> THEN "done" ELSE "merged"
          /\ costs' = [account \in AccountsOf(Records) |-> Cost(account)]
  /\ UNCHANGED <<imported, configured, refunds, shares, total>>

-----------------------------------------------------------------------------
(* refundAllocations() *)

Gross(refund) == MapThenSumSet(LAMBDA account : costs[account].cost, refund.accounts)

\* The accounts were bought, in the batch and with the plan that the refund is for,
\* and cost as much, give or take a fen.
Accepted(refund) ==
  /\ refund.accounts \subseteq DOMAIN costs
  /\ \A account \in refund.accounts :
       /\ refund.batch = NoBatch \/ costs[account].batches = {} \/ refund.batch \in costs[account].batches
       /\ NoPlan \in {refund.plan, costs[account].plan} \/ refund.plan = costs[account].plan
  /\ refund.amount <= Gross(refund) + 1

Part(refund, account) == Rounded(refund.amount * costs[account].cost, Gross(refund))

\* Faulty: everybody has the rounded part.
EverybodyRounded(refund, account) == IF Gross(refund) = 0 THEN NaN ELSE Part(refund, account)

\* In proportion to the costs; the last one has what is left.
Share(refund, account) ==
  LET last == Max(refund.accounts) IN
  IF Gross(refund) = 0 /\ Cardinality(refund.accounts) > 1 THEN NaN
  ELSE IF account # last THEN Part(refund, account)
  ELSE refund.amount - MapThenSumSet(LAMBDA other : Part(refund, other), refund.accounts \ {last})

Plus(a, b) == IF NaN \in {a, b} THEN NaN ELSE a + b

\* The next refund
Allocate ==
  LET refund == Head(refunds) IN
  /\ phase = "merged"
  /\ IF ~ Accepted(refund) THEN phase' = "refused" /\ UNCHANGED <<refunds, shares, total>>
     ELSE /\ shares' = [account \in DOMAIN shares \cup refund.accounts |->
                          LET before == IF account \in DOMAIN shares THEN shares[account] ELSE 0
                          IN  IF account \in refund.accounts THEN Plus(before, Share(refund, account)) ELSE before]
          /\ total' = total + refund.amount
          /\ refunds' = Tail(refunds)
          /\ phase' = IF refunds' = <<>> THEN "done" ELSE phase
  /\ UNCHANGED <<imported, configured, costs>>

Next == Merge \/ Allocate

-----------------------------------------------------------------------------
(* Properties *)

\* What an account cost is told by one source: the ledger, or the configuration if the
\* ledger does not know the account; nothing of that is counted twice or forgotten.
CostsAreCountedOnce ==
  phase \in {"merged", "done"} =>
    /\ \A account \in AccountsOf(imported) :
         costs[account].cost =
           MapThenSumSet(LAMBDA i : imported[i].amount, {i \in DOMAIN imported : imported[i].account = account})
    /\ \A account \in DOMAIN costs \ AccountsOf(imported) :
         costs[account].cost =
           MapThenSumSet(LAMBDA i : configured[i].amount,
                         {i \in DOMAIN configured : configured[i].account = account /\ configured[i].amount >= 0})

\* Whatever was rounded, the shares make up the refunds to the fen; and the share of an
\* account in a refund is its part, but for half a fen for each of those who share it.
RefundsAreSharedOut ==
  NaN \notin Range(shares) =>
    /\ SumFunction(shares) = total
    /\ phase = "merged" /\ Accepted(Head(refunds)) /\ Gross(Head(refunds)) > 0 =>
         LET refund == Head(refunds) IN
         \A account \in refund.accounts :
           LET off == Share(refund, account) * Gross(refund) - refund.amount * costs[account].cost
               most == Gross(refund) * Cardinality(refund.accounts)
           IN  2 * off \in -most .. most
=============================================================================
