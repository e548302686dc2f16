------------------------------ MODULE CostLedger ------------------------------
(***************************************************************************)
(* The ledger file of account purchases (src/src/account-import-cost-      *)
(* ledger.ts): charges, and corrections of plan types and of costs, which  *)
(* are appended and applied on every read.  A correction names what it     *)
(* found; a read that finds something else throws, and so does everything  *)
(* that reads the ledger.  One process appends, without an await between   *)
(* the read and the write.  Amounts are in fen.                            *)
(***************************************************************************)
EXTENDS Integers, SequencesExt

CONSTANTS
  Accounts,
  Plans, NoPlan,  \* plan types; none given
  Units,          \* prices of an account
  MaxLines        \* bound: lines of the file

VARIABLES
  lines,   \* the file
  truth    \* what the latest charge or correction of each account said

ledgerVars == <<lines, truth>>

Unknown == [plan |-> NoPlan, unit |-> 0]
\* A read that throws.
Broken == << >>

Init == lines = <<>> /\ truth = [a \in Accounts |-> Unknown]

-----------------------------------------------------------------------------
(* readAccountImportCosts() *)

OfSource(source) == SelectSeq(lines, LAMBDA line : line.source = source)

\* A line of the file as parseEntry() lets it pass.
WellFormed(line) ==
  CASE line.source = "charge" -> line.unit > 0
    [] line.source = "plan" -> line.plan \in Plans
    [] line.source = "cost" -> line.unit > 0 /\ line.adjustment # 0

Charged(costs, line) == [costs EXCEPT ![line.account] = [plan |-> line.plan, unit |-> line.unit, amount |-> line.unit]]

\* A correction has to find the charge, and the value, that it was made for.
Retyped(costs, line) ==
  IF costs = Broken THEN Broken
  ELSE IF costs[line.account].unit > 0 /\ costs[line.account].plan = line.was
  THEN [costs EXCEPT ![line.account].plan = line.plan] ELSE Broken

Repriced(costs, line) ==
  IF costs = Broken THEN Broken
  ELSE IF /\ costs[line.account].unit > 0 /\ costs[line.account].unit = line.was
          /\ costs[line.account].amount + line.adjustment > 0
          /\ line.unit = line.was + line.adjustment
  THEN [costs EXCEPT ![line.account].unit = line.unit, ![line.account].amount = @ + line.adjustment] ELSE Broken

\* All plan types are corrected before the costs are.
Costs ==
  IF \E i \in DOMAIN lines : ~ WellFormed(lines[i]) THEN Broken
  ELSE LET none == [a \in Accounts |-> [plan |-> NoPlan, unit |-> 0, amount |-> 0]]
       IN FoldLeft(Repriced, FoldLeft(Retyped, FoldLeft(Charged, none, OfSource("charge")), OfSource("plan")),
                   OfSource("cost"))

Known == {a \in Accounts : Costs[a].unit > 0}

-----------------------------------------------------------------------------
(* The three kinds of line *)

\* One line for each of the accounts, in the order of their ids.
AppendFor(accounts, entry) ==
  /\ Len(lines) + Cardinality(accounts) <= MaxLines
  /\ \E order \in SetToSeqs(accounts) :
       /\ \A i, j \in DOMAIN order : i < j => order[i] < order[j]
       /\ lines' = lines \o [i \in DOMAIN order |-> entry[order[i]]]

Charge(accounts, plan, unit) ==
  /\ Costs # Broken
  /\ LET new == accounts \ Known
     IN /\ AppendFor(new, [a \in new |-> [source |-> "charge", account |-> a, plan |-> plan, unit |-> unit]])
        /\ truth' = [a \in Accounts |-> IF a \in new THEN [plan |-> plan, unit |-> unit] ELSE truth[a]]

CorrectPlans(accounts, plan) ==
  /\ Costs # Broken
  /\ LET wrong == {a \in accounts \cap Known : Costs[a].plan # plan}
     IN /\ AppendFor(wrong, [a \in wrong |-> [source |-> "plan", account |-> a, was |-> Costs[a].plan, plan |-> plan]])
        /\ truth' = [a \in Accounts |-> IF a \in wrong THEN [truth[a] EXCEPT !.plan = plan] ELSE truth[a]]

\* Faulty: the adjustment of a cost starts from what the account was charged.
WasCharged(a) == OfSource("charge")[CHOOSE i \in DOMAIN OfSource("charge") : OfSource("charge")[i].account = a].unit

WasCosting(a) == Costs[a].unit

CorrectCosts(accounts, unit) ==
  /\ Costs # Broken
  /\ LET wrong == {a \in accounts \cap Known : Costs[a].unit # unit}
     IN /\ AppendFor(wrong, [a \in wrong |-> [source |-> "cost", account |-> a, was |-> WasCosting(a), unit |-> unit,
                                              adjustment |-> unit - WasCosting(a)]])
        /\ truth' = [a \in Accounts |-> IF a \in wrong THEN [truth[a] EXCEPT !.unit = unit] ELSE truth[a]]

Next ==
  \E accounts \in SUBSET Accounts :
    \/ \E plan \in Plans \cup {NoPlan}, unit \in Units : Charge(accounts, plan, unit)
    \/ \E plan \in Plans : CorrectPlans(accounts, plan)
    \/ \E unit \in Units : CorrectCosts(accounts, unit)

-----------------------------------------------------------------------------
(* Properties *)

\* readAccountImportCosts(): whatever charges and corrections are made, in whatever
\* order, the ledger can be read, says of each account what was said last, and its
\* amounts are what the accounts cost.
CorrectionsCompose ==
  /\ Costs # Broken
  /\ \A a \in Accounts :
       Costs[a].plan = truth[a].plan /\ Costs[a].unit = truth[a].unit /\ Costs[a].amount = truth[a].unit
=============================================================================
