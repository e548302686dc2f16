------------------------------ MODULE MCServices ------------------------------
(***************************************************************************)
(* Instances of the parts of Services for TLC: the constants that a        *)
(* configuration cannot write, and fewer initial states of two parts.      *)
(***************************************************************************)
EXTENDS Services

\* Two operations: one creates an upstream with a first recharge, whose rate is
\* not known; the other does the same, or one of the other actions.
Request(action, rate, amount) == [action |-> action, who |-> "upstream", rate |-> rate, amount |-> amount]
MCOperationRequests ==
  LET first == Request("create", "boot", 1)
      others == {first, Request("create", "given", 0), Request("recharge", "given", 1)}
                \cup {Request(action, "given", 0) :
                       action \in {"update", "usage", "recover", "initialize", "align", "isolation"}}
  IN  {[o1 |-> first, o2 |-> other] : other \in others}

\* What may be known of an account: quality, calls, cost, and whether that is enough. The
\* third is better than the second, which is ahead of it while it is explored; one account
\* is away.
Row(quality, attempts, cost, confident) ==
  [quality |-> quality, attempts |-> attempts, cost |-> cost, confident |-> confident, available |-> TRUE]
MCRankingRows ==
  {Row(Unscored, 0, 0, FALSE), Row(50, 1, 1, FALSE), Row(100, 3, 1, TRUE), Row(50, 2, 1, TRUE),
   Row(50, 2, 2, TRUE), Row(100, 2, 3, FALSE), [Row(100, 3, 1, TRUE) EXCEPT !.available = FALSE]}

\* What was paid for accounts, in two batches and none, and paid back.
Record(account, amount, plan, batch) == [account |-> account, amount |-> amount, plan |-> plan, batch |-> batch]
MCLedgerRecords ==
  {<<>>} \cup {<<Record(1, amount, "k12", "b1"), Record(account, 3, plan, batch), Record(2, 1, "none", "b1")>> :
               amount \in {0, 2}, account \in {1, 3}, plan \in {"k12", "plus"}, batch \in {"b1", "b2"}}
MCConfiguredRecords ==
  {<<>>} \cup {<<Record(3, amount, "plus", "none"), Record(account, 1, "none", "none")>> :
               amount \in -1 .. 1, account \in {1, 4}}
MCRefundLists ==
  {<<[amount |-> first, accounts |-> accounts, plan |-> plan, batch |-> batch],
     [amount |-> 1, accounts |-> {1, 4}, plan |-> "none", batch |-> "none"]>> :
     first \in {0, 1, 2, 5}, accounts \in {{}, {1}, {1, 2, 3}, 1 .. 4}, plan \in {"none", "k12"}, batch \in {"none", "b1"}}

\* What an upstream may mean to say when it is asked for 42.
MCAnswers == {<<"4", "2">>, <<"4", "2", "1">>, <<" ", "4", "2", " ">>, <<"4", "2", "x">>, <<>>}
MCExpected == <<"4", "2">>

MCWalletOf == <<1, 1>>
MCProbed == 1 .. 3
Four == 1 .. 4
None == <<>>

MCMaxFaults ==
  [lottery |-> 2, operations |-> 1, store |-> 2, scores |-> 1, responses |-> 2, snapshot |-> 1,
   reload |-> 2, command |-> 2, purchases |-> 1, recovery |-> 1, isolation |-> 1, rounds |-> 1,
   quota |-> 1, models |-> 1]

\* Rankings of any accounts from equal priorities, and of some from any priorities.
SomeRankings ==
  \/ v1 = <<Row(100, 3, 1, TRUE), Row(100, 2, 3, FALSE), Row(50, 1, 1, FALSE), Row(50, 2, 2, TRUE)>>
  \/ v2 = <<5, 5, 5, 5>>

\* Rounds in which all accounts are active, two of them bound; busy ones can be bound.
SomeRounds == v1 = 1 .. 3 /\ v3 = {2, 3} /\ (IF v2 # {} THEN v4 = {} ELSE TRUE)

MCInit ==
  /\ Init
  /\ part = "ranking" => SomeRankings
  /\ part = "rounds" => SomeRounds

MCSpec == MCInit /\ [][Next]_vars
=============================================================================
