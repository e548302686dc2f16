---------------------------- MODULE QuotaMonitor ----------------------------
(***************************************************************************)
(* The quota monitor (src/src/upstream-quota-monitor.ts and                *)
(* upstream-wallet.ts, fed by setUpstreamUsageCache() and read by          *)
(* upstreamQuotaSummary() of operations-service.ts).  A round asks every   *)
(* account for the balance of its wallet, which accounts share; reads fail *)
(* or come one after the other while the wallet is spent.  It also has the *)
(* cumulative output of each account.  From the rounds of a window the     *)
(* monitor says what was spent and what was produced, for all accounts or  *)
(* for the selected ones.                                                  *)
(*                                                                         *)
(* A unit of output costs a unit of the wallet; rounds come at a steady    *)
(* pace, the window is the last WindowRounds of them; every sample has the *)
(* output of its account.                                                  *)
(***************************************************************************)
EXTENDS Integers, Sequences, FiniteSets, FiniteSetsExt

CONSTANTS
  Accounts, Wallets,
  WalletOf,          \* the wallet of each account
  WindowRounds,      \* rounds of the window
  MaxRounds, MaxOutput, MaxQuotaFaults   \* bounds

VARIABLES
  present,     \* accounts there are
  counter,     \* cumulative output of each account
  produced,    \* what each account really produced
  balance,     \* of each wallet
  spent,       \* what was really spent of it
  results,     \* the round under way
  cache,       \* the last success of each account
  rounds,      \* the samples kept
  clock,       \* reads so far
  quotaFaults

quotaVars == <<present, counter, produced, balance, spent, results, cache, rounds, clock, quotaFaults>>

\* A reading has the balance, when it was read and, for the properties, what had been spent then.
NoReading == [at |-> 0, balance |-> 0, spent |-> 0]
Unread == [NoReading EXCEPT !.at = -1]

Init ==
  /\ present \in SUBSET Accounts
  /\ counter = [a \in Accounts |-> 0] /\ produced = counter
  /\ balance = [w \in Wallets |-> 0] /\ spent = balance
  /\ results = [a \in Accounts |-> Unread]
  /\ cache = [a \in Accounts |-> NoReading]
  /\ rounds = <<>>
  /\ clock = 0
  /\ quotaFaults = 0

Fault == quotaFaults < MaxQuotaFaults /\ quotaFaults' = quotaFaults + 1
Of(w) == {a \in Accounts : WalletOf[a] = w}

-----------------------------------------------------------------------------
(* The upstreams *)

Produce(a) ==
  /\ a \in present /\ produced[a] < MaxOutput
  /\ counter' = [counter EXCEPT ![a] = @ + 1]
  /\ produced' = [produced EXCEPT ![a] = @ + 1]
  /\ balance' = [balance EXCEPT ![WalletOf[a]] = @ - 1]
  /\ spent' = [spent EXCEPT ![WalletOf[a]] = @ + 1]
  /\ UNCHANGED <<present, results, cache, rounds, clock, quotaFaults>>

Recharge(w) ==
  /\ Fault
  /\ balance' = [balance EXCEPT ![w] = @ + 1]
  /\ UNCHANGED <<present, counter, produced, spent, results, cache, rounds, clock>>

\* An account appears or goes, or its usage starts from nothing again.
AccountChanges(a) ==
  /\ Fault /\ results[a] = Unread
  /\ \/ present' = (present \ {a}) \cup ({a} \ present) /\ UNCHANGED counter
     \/ counter' = [counter EXCEPT ![a] = 0] /\ UNCHANGED present
  /\ UNCHANGED <<produced, balance, spent, results, cache, rounds, clock>>

-----------------------------------------------------------------------------
(* A round *)

\* A read that fails has no balance.
ReadAccount(a) ==
  /\ a \in present /\ results[a] = Unread /\ Len(rounds) < MaxRounds
  /\ clock' = clock + 1
  /\ LET w == WalletOf[a] IN
     \/ /\ results' = [results EXCEPT ![a] = [at |-> clock', balance |-> balance[w], spent |-> spent[w]]]
        /\ UNCHANGED quotaFaults
     \/ results' = [results EXCEPT ![a] = NoReading] /\ Fault
  /\ UNCHANGED <<present, counter, produced, balance, spent, cache, rounds>>

Newest(readings) ==
  LET good == {r \in readings : r.at > 0}
  IN IF good = {} THEN NoReading ELSE CHOOSE r \in good : \A s \in good : r.at >= s.at

\* Faulty: the account that comes first answers for the wallet.
FirstOf(w) == Newest({results[Min({a \in Of(w) : results[a] # Unread})]})

\* buildQuotaSamples() with preferSharedWalletBalance(): the newest of the wallet.
Sampled(w) == Newest({results[a] : a \in Of(w)})

\* carryForwardFailedQuotaBalances(): a wallet nobody could read keeps its last success.
Carried(w) == IF Sampled(w) = NoReading THEN Newest({cache[a] : a \in Of(w)}) ELSE Sampled(w)

\* setUpstreamUsageCache(): a failure keeps the last success of the account.
Cached == [a \in Accounts |-> IF results[a].at > 0 THEN results[a] ELSE cache[a]]

\* An output that is not attributed yet reads as nothing.
Record ==
  /\ present # {} /\ \A a \in present : results[a] # Unread
  /\ \E silent \in SUBSET present :
       /\ IF silent = {} THEN UNCHANGED quotaFaults ELSE Cardinality(silent) = 1 /\ Fault
       /\ rounds' = Append(rounds,
            [output |-> [a \in present |-> IF a \in silent THEN 0 ELSE counter[a]],
             wallets |-> [w \in {WalletOf[a] : a \in present} |-> Carried(w)],
             newest |-> [w \in Wallets |-> Newest({results[a] : a \in Of(w)} \cup {cache[a] : a \in Of(w)})],
             produced |-> produced])
  /\ cache' = Cached
  /\ results' = [a \in Accounts |-> Unread]
  /\ UNCHANGED <<present, counter, produced, balance, spent, clock>>

Next ==
  \/ \E a \in Accounts : Produce(a) \/ AccountChanges(a) \/ ReadAccount(a)
  \/ \E w \in Wallets : Recharge(w)
  \/ Record

-----------------------------------------------------------------------------
(* accountOutputObservations() *)

NoBaseline == [value |-> -1, ready |-> FALSE]

\* Faulty: what follows a zero is produced since.
CountsFromZero(prior, value) == [value |-> value, ready |-> TRUE]

\* A first value, one that fell and the first after a zero are baselines.
Baseline(prior, value) ==
  IF prior = NoBaseline \/ value < prior.value THEN [value |-> value, ready |-> FALSE]
  ELSE [value |-> value, ready |-> prior.ready \/ value # 0]

\* A round without the account ends its history.
Baselines[i \in Nat] ==
  [a \in Accounts |->
     IF i > 0 /\ a \in DOMAIN rounds[i].output
     THEN Baseline(Baselines[i - 1][a], rounds[i].output[a]) ELSE NoBaseline]

\* What account a added in round i, once it has a baseline.
Delta(i, a) ==
  LET prior == Baselines[i - 1][a]
  IN IF a \in DOMAIN rounds[i].output /\ prior.ready /\ rounds[i].output[a] >= prior.value
     THEN rounds[i].output[a] - prior.value ELSE 0

-----------------------------------------------------------------------------
(* summarizeQuotaSamples(), over the rounds up to n and the selected accounts *)

\* A counter that falls resets the window.
Reset(i, selected) ==
  \E a \in selected \cap DOMAIN rounds[i].output : rounds[i].output[a] < Baselines[i - 1][a].value

Window(n, selected) ==
  {i \in 1 .. n : i > n - WindowRounds /\ \A j \in i .. n : ~ Reset(j, selected)}

ApiAmount(n, selected) ==
  MapThenSumSet(LAMBDA i : MapThenSumSet(LAMBDA a : Delta(i, a), selected), Window(n, selected))

\* prepareOutputObservations(): the accounts of a round make up its total.
Complete(i, selected) == selected \cap DOMAIN rounds[i].output # {}

\* The accounts are counted one by one as long as each round has one of them, else their sum is.
CountedOneByOne(n, selected) == \A i \in 1 .. n : Complete(i, selected)

\* carryForwardQuotaHistory(): a wallet without a balance keeps the one of the round before.
Balances[i \in Nat] ==
  IF i = 0 THEN [w \in Wallets |-> NoReading]
  ELSE [w \in Wallets |-> IF w \in DOMAIN rounds[i].wallets /\ rounds[i].wallets[w] # NoReading
                          THEN rounds[i].wallets[w] ELSE Balances[i - 1][w]]

Known(n, w) ==
  {i \in 1 .. n : i >= n - WindowRounds /\ w \in DOMAIN rounds[i].wallets /\ Balances[i][w] # NoReading}

First(n, w) == Balances[Min(Known(n, w))][w]
Last(n, w) == Balances[Max(Known(n, w))][w]

\* The first balance of the window less the last one; a recharge hides what was spent.
Consumed(n, w) == Max({0, First(n, w).balance - Last(n, w).balance})

\* quotaHistory(): a point for each round, from the counters paired once.
History(selected) ==
  [n \in 1 .. Len(rounds) |->
     [apiAmount |-> ApiAmount(n, selected),
      consumed |-> [w \in {v \in Wallets : Known(n, v) # {}} |-> Consumed(n, w)]]]

-----------------------------------------------------------------------------
(* Properties *)

\* The monitor never says more than was, in the newest point of its history and for any accounts:
\* the output of a window is at most what they produced in it, whichever of them come, go
\* or start again, and what a wallet lost is at most what was spent between the two readings.
MonitorNeverExaggerates ==
  \A selected \in SUBSET Accounts, n \in {Len(rounds)} \ {0} :
    LET point == History(selected)[n]
        from == Max({1, n - WindowRounds})
    IN /\ CountedOneByOne(n, selected) =>
            point.apiAmount <=
              MapThenSumSet(LAMBDA a : rounds[n].produced[a] - rounds[from].produced[a], selected)
       /\ \A w \in DOMAIN point.consumed : point.consumed[w] <= Last(n, w).spent - First(n, w).spent

\* The balance it shows of a wallet is the newest anybody read, whoever failed since.
BalancesAreNewest ==
  \A i \in DOMAIN rounds : \A w \in DOMAIN rounds[i].wallets : rounds[i].wallets[w] = rounds[i].newest[w]

Readings == [at : Int, balance : Int, spent : Int]

TypeInv ==
  /\ present \in SUBSET Accounts
  /\ counter \in [Accounts -> Int] /\ produced \in [Accounts -> Int]
  /\ balance \in [Wallets -> Int] /\ spent \in [Wallets -> Int]
  /\ clock \in Nat
  /\ results \in [Accounts -> Readings] /\ cache \in [Accounts -> Readings]
  /\ rounds \in Seq({rounds[i] : i \in DOMAIN rounds})

\* The reads of a round are newer than those kept, and no two were at one time.
ReadInv ==
  \A a \in Accounts :
    /\ results[a].at <= clock /\ cache[a].at <= clock
    /\ results[a].at > 0 => \A b \in Accounts :
         /\ cache[b].at < results[a].at
         /\ results[b].at = results[a].at => results[b] = results[a]

\* Inductive.
QuotaInv == TypeInv /\ ReadInv /\ BalancesAreNewest
=============================================================================
