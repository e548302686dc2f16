---------------------------- MODULE ActingProofs ----------------------------
(***************************************************************************)
(* Proofs about the parts that act (ActingParts): lottery, store of        *)
(* operations, operations on upstreams, purchases, recoveries, isolation   *)
(* of probes, rounds of probes and synchronizations of models.             *)
(*                                                                         *)
(* A part has an inductive invariant of its own, which its module defines. *)
(* Its lemmas are about the steps of the part; its theorem is about every  *)
(* behaviour of the group, of which only those of the part matter.         *)
(***************************************************************************)
EXTENDS ActingParts, TLAPS, WellFoundedInduction, FiniteSetTheorems

\* A step is one of the part that is examined, or none.
LEMMA PartsTakeTurns ==
  ASSUME [ActingNext]_vars
  PROVE  /\ UNCHANGED part
         /\ part = "lottery" => [Lottery!Next]_(Lottery!lotteryVars)
         /\ part = "store" => [Store!Next]_(Store!storeVars)
         /\ part = "operations" => [Operations!Next]_(Operations!operationVars)
         /\ part = "purchases" => [Supply!Next]_(Supply!purchaseVars)
         /\ part = "recovery" => [Recovery!Next]_(Recovery!recoveryVars)
         /\ part = "isolation" => [Isolation!Next]_(Isolation!isolationVars)
         /\ part = "rounds" => [Rounds!Next]_(Rounds!probeVars)
         /\ part = "models" => [Models!Next]_(Models!syncVars)
BY DEF ActingNext, vars, Lottery!lotteryVars, Lottery!counters, Store!storeVars, Operations!operationVars,
       Supply!purchaseVars, Recovery!recoveryVars, Isolation!isolationVars, Rounds!probeVars, Models!syncVars

LEMMA PartsBegin ==
  ASSUME ActingInit
  PROVE  /\ part = "lottery" => Lottery!Init
         /\ part = "store" => Store!Init
         /\ part = "operations" => Operations!Init
         /\ part = "purchases" => Supply!Init
         /\ part = "recovery" => Recovery!Init
         /\ part = "isolation" => Isolation!Init
         /\ part = "rounds" => Rounds!Init
         /\ part = "models" => Models!Init
BY DEF ActingInit

-----------------------------------------------------------------------------
(* Lottery: chances *)

\* The state of the lottery by its names.
creditMode == v1
day == v2
lastGrant == v3
remaining == v4
records == v5
line == v6
stage == v7
paid == v8
overdue == v9
base == v10
spent == v11
USE DEF creditMode, day, lastGrant, remaining, records, line, stage, paid, overdue, base, spent

LEMMA GrantsAddUp ==
  ASSUME NEW n \in Nat, NEW a \in Int, NEW b \in Int, NEW c \in Int
  PROVE  n * (a - b) + n * (b - c) = n * (a - c)
OBVIOUS

LEMMA GrantsAreNatural ==
  ASSUME NEW n \in Nat, NEW a \in Nat, NEW b \in Nat, b <= a
  PROVE  n * (a - b) \in Nat
OBVIOUS

LEMMA SetChancesHolds ==
  ASSUME Lottery!ChancesInv, NEW n \in Nat, Lottery!SetChances(n), UNCHANGED day
  PROVE  Lottery!ChancesInv'
<1>1. PerDay * (day - day) = 0
  BY LotteryAssumption DEF Lottery!ChancesInv, Lottery!ChancesTypeInv
<1> QED BY <1>1 DEF Lottery!SetChances, Lottery!ChancesInv, Lottery!ChancesTypeInv, Lottery!ChancesAreAccounted

LEMMA ReconcileHolds ==
  ASSUME Lottery!ChancesInv, Lottery!ReconcileGrants, UNCHANGED day
  PROVE  Lottery!ChancesInv'
<1>1. CASE lastGrant = 0
  BY <1>1, SetChancesHolds, LotteryAssumption DEF Lottery!ReconcileGrants
<1>2. CASE lastGrant # 0
  <2>1. PerDay * (day - lastGrant) \in Nat
    BY GrantsAreNatural, LotteryAssumption DEF Lottery!ChancesInv, Lottery!ChancesTypeInv
  <2>2. PerDay * (day - lastGrant) + PerDay * (lastGrant - base.day) = PerDay * (day - base.day)
    BY GrantsAddUp, LotteryAssumption DEF Lottery!ChancesInv, Lottery!ChancesTypeInv
  <2>3. PerDay * (lastGrant - base.day) \in Int /\ PerDay * (day - base.day) \in Int
    BY LotteryAssumption DEF Lottery!ChancesInv, Lottery!ChancesTypeInv
  <2>4. /\ remaining' = remaining + PerDay * (day - lastGrant) /\ lastGrant' = day
        /\ UNCHANGED <<base, spent>>
    BY <1>2 DEF Lottery!ReconcileGrants
  <2> QED BY <2>1, <2>2, <2>3, <2>4 DEF Lottery!ChancesInv, Lottery!ChancesTypeInv, Lottery!ChancesAreAccounted
<1> QED BY <1>1, <1>2

\* A chance is used only where there is one.
LEMMA CreateDrawHolds ==
  ASSUME Lottery!ChancesInv, NEW d \in Draws, Lottery!Draw(d)
  PROVE  Lottery!ChancesInv'
<1>1. /\ remaining > 0 /\ remaining' = remaining - 1 /\ spent' = spent + 1
      /\ UNCHANGED <<day, lastGrant, base>>
  BY DEF Lottery!Draw, Lottery!CreateDraw
<1>2. PerDay * (lastGrant - base.day) \in Int
  BY LotteryAssumption DEF Lottery!ChancesInv, Lottery!ChancesTypeInv
<1> QED BY <1>1, <1>2 DEF Lottery!ChancesInv, Lottery!ChancesTypeInv, Lottery!ChancesAreAccounted

LEMMA ChancesStay ==
  ASSUME Lottery!ChancesInv, UNCHANGED <<day, Lottery!counters>>
  PROVE  Lottery!ChancesInv'
BY DEF Lottery!counters, Lottery!ChancesInv, Lottery!ChancesTypeInv, Lottery!ChancesAreAccounted

LEMMA ChancesHold ==
  ASSUME Lottery!ChancesInv, [Lottery!Next]_(Lottery!lotteryVars)
  PROVE  Lottery!ChancesInv'
<1>1. ASSUME NEW d \in Draws,
             Lottery!Request(d) \/ Lottery!NoDraw(d) \/ Lottery!Credit(d) \/ Lottery!LateCredit(d) \/ Lottery!DeleteRecord(d)
      PROVE  Lottery!ChancesInv'
  BY <1>1, ChancesStay DEF Lottery!Request, Lottery!NoDraw, Lottery!Credit, Lottery!LateCredit, Lottery!DeleteRecord
<1>2. ASSUME NEW d \in Draws, Lottery!Enter(d) PROVE Lottery!ChancesInv'
  BY <1>2, ReconcileHolds DEF Lottery!Enter
<1>3. ASSUME NEW d \in Draws, Lottery!Draw(d) PROVE Lottery!ChancesInv'
  BY <1>3, CreateDrawHolds
<1>4. ASSUME Lottery!Status PROVE Lottery!ChancesInv'
  BY <1>4, ReconcileHolds DEF Lottery!Status
<1>5. ASSUME NEW n \in 0 .. 1, NEW withRecords \in BOOLEAN, Lottery!Reset(n, withRecords) PROVE Lottery!ChancesInv'
  BY <1>5, SetChancesHolds DEF Lottery!Reset
<1>6. ASSUME Lottery!DayPasses PROVE Lottery!ChancesInv'
  BY <1>6 DEF Lottery!DayPasses, Lottery!counters, Lottery!ChancesInv, Lottery!ChancesTypeInv, Lottery!ChancesAreAccounted
<1>7. ASSUME Lottery!Restart PROVE Lottery!ChancesInv'
  BY <1>7, ChancesStay DEF Lottery!Restart
<1>8. ASSUME UNCHANGED Lottery!lotteryVars PROVE Lottery!ChancesInv'
  BY <1>8, ChancesStay DEF Lottery!lotteryVars, Lottery!counters
<1> QED BY <1>1, <1>2, <1>3, <1>4, <1>5, <1>6, <1>7, <1>8 DEF Lottery!Next


-----------------------------------------------------------------------------
(* Lottery: prizes *)

\* A step of a draw that makes no record and pays nothing.
LEMMA StageHolds ==
  ASSUME Lottery!PrizesInv, NEW d \in Draws,
         NEW s \in {"waiting", "listing", "refused"},
         stage[d] \in {"idle", "waiting", "listing"},
         stage' = [stage EXCEPT ![d] = s],
         UNCHANGED <<creditMode, records, paid, overdue>>
  PROVE  Lottery!PrizesInv'
<1> USE DEF Lottery!PrizesInv
<1>1. Lottery!PrizesTypeInv'
  BY SMTT(30) DEF Lottery!PrizesTypeInv, Lottery!Stages
<1>2. Lottery!DueInv'
  BY SMTT(30) DEF Lottery!PrizesTypeInv, Lottery!Stages, Lottery!DueInv
<1>3. Lottery!PrizesAreRecorded'
  BY DEF Lottery!PrizesAreRecorded
<1> QED BY <1>1, <1>2, <1>3

LEMMA RecordHolds ==
  ASSUME Lottery!PrizesInv, NEW d \in Draws, Lottery!Draw(d)
  PROVE  Lottery!PrizesInv'
<1> USE DEF Lottery!PrizesInv
<1>1. PICK s \in {"crediting", "drawn"} :
        /\ stage' = [stage EXCEPT ![d] = s]
        /\ s = "crediting" <=> creditMode = "live"
  BY SMTT(30) DEF Lottery!Draw, Lottery!Leave
<1>2. /\ records' = [records EXCEPT ![d] = IF creditMode = "live" THEN "pending" ELSE creditMode]
      /\ stage[d] = "listing" /\ UNCHANGED <<creditMode, paid, overdue>>
  BY DEF Lottery!Draw, Lottery!CreateDraw
<1>3. Lottery!PrizesTypeInv'
  BY <1>1, <1>2, SMTT(30) DEF Lottery!PrizesTypeInv, Lottery!Stages, Lottery!Modes, Lottery!Statuses
<1>4. Lottery!DueInv'
  BY <1>1, <1>2, SMTT(30) DEF Lottery!PrizesTypeInv, Lottery!Stages, Lottery!DueInv
<1>5. Lottery!PrizesAreRecorded'
  BY <1>2, SMTT(30) DEF Lottery!PrizesTypeInv, Lottery!Stages, Lottery!Modes, Lottery!DueInv, Lottery!PrizesAreRecorded
<1> QED BY <1>3, <1>4, <1>5

LEMMA CreditHolds ==
  ASSUME Lottery!PrizesInv, NEW d \in Draws, Lottery!Credit(d)
  PROVE  Lottery!PrizesInv'
<1> USE DEF Lottery!PrizesInv
<1>1. PICK s \in {"drawn", "unrecorded"}, status \in {"succeeded", "failed"} :
        /\ stage' = [stage EXCEPT ![d] = s]
        /\ records' = IF records[d] = "deleted" THEN records ELSE [records EXCEPT ![d] = status]
        /\ \/ paid' = [paid EXCEPT ![d] = @ + 1] /\ UNCHANGED overdue
           \/ status = "failed" /\ UNCHANGED paid /\ (overdue' = overdue \cup {d} \/ UNCHANGED overdue)
  BY SMTT(30) DEF Lottery!Credit, Lottery!Credited, Lottery!Leave
<1>2. stage[d] = "crediting" /\ UNCHANGED creditMode
  BY DEF Lottery!Credit
<1>3. Lottery!PrizesTypeInv'
  BY <1>1, <1>2, SMTT(30) DEF Lottery!PrizesTypeInv, Lottery!Stages, Lottery!Statuses
<1>4. ASSUME NEW e \in Draws, e # d
      PROVE  /\ stage'[e] = stage[e] /\ records'[e] = records[e] /\ paid'[e] = paid[e]
             /\ e \in overdue' <=> e \in overdue
  BY <1>1, <1>4, SMTT(30) DEF Lottery!PrizesTypeInv, Lottery!Stages
<1>5. /\ stage'[d] \in {"drawn", "unrecorded"}
      /\ paid[d] = 0 /\ d \notin overdue /\ records[d] \in {"pending", "deleted"}
  BY <1>1, <1>2, SMTT(30) DEF Lottery!PrizesTypeInv, Lottery!Stages, Lottery!DueInv
<1>6. \/ /\ paid'[d] = 1 /\ d \notin overdue'
         /\ records'[d] \in {"succeeded", "failed", "deleted"}
      \/ /\ paid'[d] = 0 /\ records'[d] \in {"failed", "deleted"}
  BY <1>1, <1>5, SMTT(30) DEF Lottery!PrizesTypeInv, Lottery!Stages
<1>7. Lottery!DueInv'
  BY <1>4, <1>5, <1>6, SMTT(30) DEF Lottery!DueInv
<1>8. Lottery!PrizesAreRecorded'
  BY <1>4, <1>6, SMTT(30) DEF Lottery!PrizesAreRecorded
<1> QED BY <1>3, <1>7, <1>8

LEMMA LateCreditHolds ==
  ASSUME Lottery!PrizesInv, NEW d \in Draws, Lottery!LateCredit(d)
  PROVE  Lottery!PrizesInv'
<1> USE DEF Lottery!PrizesInv, Lottery!LateCredit
<1>1. Lottery!PrizesTypeInv'
  BY SMTT(30) DEF Lottery!PrizesTypeInv, Lottery!Stages
<1>2. Lottery!DueInv'
  BY SMTT(30) DEF Lottery!PrizesTypeInv, Lottery!Stages, Lottery!DueInv
<1>3. Lottery!PrizesAreRecorded'
  BY SMTT(30) DEF Lottery!PrizesTypeInv, Lottery!Stages, Lottery!DueInv, Lottery!PrizesAreRecorded
<1> QED BY <1>1, <1>2, <1>3

\* Records that exist may be deleted at any time, by whoever does it.
LEMMA DeletionHolds ==
  ASSUME Lottery!PrizesInv, NEW D \in SUBSET Draws, \A d \in D : records[d] # "none",
         records' \in [Draws -> Lottery!Statuses],
         \A d \in Draws : records'[d] = IF d \in D THEN "deleted" ELSE records[d],
         UNCHANGED <<creditMode, stage, paid, overdue>>
  PROVE  Lottery!PrizesInv'
<1> USE DEF Lottery!PrizesInv
<1>1. Lottery!PrizesTypeInv'
  BY SMTT(30) DEF Lottery!PrizesTypeInv, Lottery!Stages, Lottery!Statuses
<1>2. Lottery!DueInv'
  BY SMTT(30) DEF Lottery!PrizesTypeInv, Lottery!Stages, Lottery!DueInv
<1>3. Lottery!PrizesAreRecorded'
  BY SMTT(30) DEF Lottery!PrizesTypeInv, Lottery!Stages, Lottery!DueInv, Lottery!PrizesAreRecorded
<1> QED BY <1>1, <1>2, <1>3

LEMMA RestartHolds ==
  ASSUME Lottery!PrizesInv, Lottery!Restart
  PROVE  Lottery!PrizesInv'
<1> USE DEF Lottery!PrizesInv
<1>1. /\ stage' = [d \in Draws |-> IF stage[d] \in {"waiting", "listing", "crediting"} THEN "lost" ELSE stage[d]]
      /\ overdue' = overdue \cup {d \in Draws : stage[d] = "crediting"}
      /\ UNCHANGED <<creditMode, records, paid>>
  BY DEF Lottery!Restart
<1>2. Lottery!PrizesTypeInv'
  BY <1>1, SMTT(30) DEF Lottery!PrizesTypeInv, Lottery!Stages
<1>3. Lottery!DueInv'
  BY <1>1, SMTT(30) DEF Lottery!PrizesTypeInv, Lottery!Stages, Lottery!DueInv
<1>4. Lottery!PrizesAreRecorded'
  BY <1>1, SMTT(30) DEF Lottery!PrizesTypeInv, Lottery!Stages, Lottery!DueInv, Lottery!PrizesAreRecorded
<1> QED BY <1>2, <1>3, <1>4

LEMMA PrizesStay ==
  ASSUME Lottery!PrizesInv, UNCHANGED <<creditMode, records, stage, paid, overdue>>
  PROVE  Lottery!PrizesInv'
BY DEF Lottery!PrizesInv, Lottery!PrizesTypeInv, Lottery!Stages, Lottery!DueInv, Lottery!PrizesAreRecorded

LEMMA PrizesHold ==
  ASSUME Lottery!PrizesInv, [Lottery!Next]_(Lottery!lotteryVars)
  PROVE  Lottery!PrizesInv'
<1>1. ASSUME NEW d \in Draws, Lottery!Request(d) PROVE Lottery!PrizesInv'
  BY <1>1, StageHolds DEF Lottery!Request
<1>2. ASSUME NEW d \in Draws, Lottery!Enter(d) PROVE Lottery!PrizesInv'
  BY <1>2, StageHolds DEF Lottery!Enter, Lottery!Leave
<1>3. ASSUME NEW d \in Draws, Lottery!Draw(d) PROVE Lottery!PrizesInv'
  BY <1>3, RecordHolds
<1>4. ASSUME NEW d \in Draws, Lottery!NoDraw(d) PROVE Lottery!PrizesInv'
  BY <1>4, StageHolds DEF Lottery!NoDraw, Lottery!Leave
<1>5. ASSUME NEW d \in Draws, Lottery!Credit(d) PROVE Lottery!PrizesInv'
  BY <1>5, CreditHolds
<1>6. ASSUME NEW d \in Draws, Lottery!LateCredit(d) PROVE Lottery!PrizesInv'
  BY <1>6, LateCreditHolds
<1>7. ASSUME NEW d \in Draws, Lottery!DeleteRecord(d) PROVE Lottery!PrizesInv'
  <2>1. \A e \in Draws : records'[e] = IF e \in {d} THEN "deleted" ELSE records[e]
    BY <1>7, SMTT(30) DEF Lottery!DeleteRecord, Lottery!PrizesInv, Lottery!PrizesTypeInv, Lottery!Stages
  <2>2. records' \in [Draws -> Lottery!Statuses]
    BY <1>7, SMTT(30) DEF Lottery!DeleteRecord, Lottery!PrizesInv, Lottery!PrizesTypeInv, Lottery!Stages, Lottery!Statuses
  <2>3. \A e \in {d} : records[e] # "none"
    BY <1>7 DEF Lottery!DeleteRecord
  <2> QED BY <1>7, <2>1, <2>2, <2>3, DeletionHolds DEF Lottery!DeleteRecord
<1>8. ASSUME NEW n \in 0 .. 1, NEW withRecords \in BOOLEAN, Lottery!Reset(n, withRecords) PROVE Lottery!PrizesInv'
  <2>1. CASE withRecords
    <3> DEFINE D == {d \in Draws : records[d] # "none"}
    <3>1. /\ records' \in [Draws -> Lottery!Statuses]
          /\ \A d \in Draws : records'[d] = IF d \in D THEN "deleted" ELSE records[d]
      <4>1. records' = [d \in Draws |-> IF records[d] = "none" THEN "none" ELSE "deleted"]
        BY <1>8, <2>1 DEF Lottery!Reset
      <4>2. \A d \in Draws : records'[d] = IF d \in D THEN "deleted" ELSE records[d]
        BY <4>1
      <4>3. \A d \in Draws : (IF records[d] = "none" THEN "none" ELSE "deleted") \in Lottery!Statuses
        BY DEF Lottery!Statuses
      <4> QED BY <4>1, <4>2, <4>3
    <3>2. \A d \in D : records[d] # "none"
      OBVIOUS
    <3>3. D \in SUBSET Draws
      OBVIOUS
    <3> HIDE DEF D
    <3> QED BY <1>8, <3>1, <3>2, <3>3, DeletionHolds DEF Lottery!Reset
  <2>2. CASE ~ withRecords
    BY <1>8, <2>2, PrizesStay DEF Lottery!Reset
  <2> QED BY <2>1, <2>2
<1>9. ASSUME Lottery!Status \/ Lottery!DayPasses \/ UNCHANGED Lottery!lotteryVars PROVE Lottery!PrizesInv'
  BY <1>9, PrizesStay DEF Lottery!Status, Lottery!DayPasses, Lottery!lotteryVars
<1>10. ASSUME Lottery!Restart PROVE Lottery!PrizesInv'
  BY <1>10, RestartHolds
<1> QED BY <1>1, <1>2, <1>3, <1>4, <1>5, <1>6, <1>7, <1>8, <1>9, <1>10 DEF Lottery!Next

-----------------------------------------------------------------------------
(* Lottery: the mutex *)

LEMMA AppendHolds ==
  ASSUME Lottery!MutexInv, NEW d \in Draws, stage[d] = "idle", stage \in [Draws -> Lottery!Stages],
         stage' = [stage EXCEPT ![d] = "waiting"], line' = Append(line, d)
  PROVE  Lottery!MutexInv'
<1> USE DEF Lottery!MutexInv
<1>1. /\ line' \in Seq(Draws) /\ Len(line') = Len(line) + 1 /\ line'[Len(line) + 1] = d
      /\ \A i \in 1 .. Len(line) : line'[i] = line[i]
  OBVIOUS
<1>2. \A i \in 1 .. Len(line) : line[i] # d /\ line[i] \in Draws
  OBVIOUS
<1> QED BY <1>1, <1>2, SMTT(30)

LEMMA LeaveHolds ==
  ASSUME Lottery!MutexInv, NEW d \in Draws, line # <<>>, Head(line) = d, stage \in [Draws -> Lottery!Stages],
         NEW s, s \notin {"waiting", "listing", "crediting"}, Lottery!Leave(d, s)
  PROVE  Lottery!MutexInv'
<1> USE DEF Lottery!MutexInv
<1>1. /\ line' \in Seq(Draws) /\ Len(line') = Len(line) - 1
      /\ \A i \in 1 .. Len(line') : line'[i] = line[i + 1]
  BY DEF Lottery!Leave
<1>2. line[1] = d /\ \A i \in 1 .. Len(line) : i > 1 => line[i] # d /\ line[i] \in Draws
  OBVIOUS
<1>3. stage'[d] = s /\ \A e \in Draws : e # d => stage'[e] = stage[e]
  BY DEF Lottery!Leave
<1>4. \A e \in Draws : stage'[e] \in {"waiting", "listing", "crediting"} =>
        \E i \in 1 .. Len(line') : line'[i] = e
  <2> SUFFICES ASSUME NEW e \in Draws, stage'[e] \in {"waiting", "listing", "crediting"}
               PROVE  \E i \in 1 .. Len(line') : line'[i] = e
    OBVIOUS
  <2>1. PICK i \in 1 .. Len(line) : line[i] = e
    BY <1>3
  <2>2. i - 1 \in 1 .. Len(line') /\ line'[i - 1] = e
    BY <1>1, <1>2, <1>3, <2>1
  <2> QED BY <2>2
<1>5. \A i, j \in 1 .. Len(line') : line'[i] = line'[j] => i = j
  BY <1>1
<1>6. \A i \in 1 .. Len(line') : stage'[line'[i]] = "waiting"
  BY <1>1, <1>2, <1>3
<1> QED BY <1>1, <1>4, <1>5, <1>6

\* The holder goes on.
LEMMA HolderHolds ==
  ASSUME Lottery!MutexInv, NEW d \in Draws, line # <<>>, Head(line) = d, stage \in [Draws -> Lottery!Stages],
         NEW s \in {"listing", "crediting"}, stage' = [stage EXCEPT ![d] = s], UNCHANGED line
  PROVE  Lottery!MutexInv'
<1> USE DEF Lottery!MutexInv
<1>1. line[1] = d /\ \A i \in 1 .. Len(line) : i > 1 => line[i] # d /\ line[i] \in Draws
  OBVIOUS
<1> QED BY <1>1, SMTT(30)

\* Who is past its turn is the first of the line.
LEMMA HolderIsFirst ==
  ASSUME Lottery!MutexInv, NEW d \in Draws, stage[d] \in {"waiting", "listing", "crediting"}
  PROVE  /\ line # <<>>
         /\ stage[d] # "waiting" => Head(line) = d
<1>1. PICK i \in 1 .. Len(line) : line[i] = d
  BY DEF Lottery!MutexInv
<1> QED BY <1>1 DEF Lottery!MutexInv

LEMMA MutexHolds ==
  ASSUME Lottery!MutexInv, stage \in [Draws -> Lottery!Stages], [Lottery!Next]_(Lottery!lotteryVars)
  PROVE  Lottery!MutexInv'
<1>1. ASSUME NEW d \in Draws, Lottery!Request(d) PROVE Lottery!MutexInv'
  BY <1>1, AppendHolds DEF Lottery!Request
<1>2. ASSUME NEW d \in Draws, Lottery!Enter(d) PROVE Lottery!MutexInv'
  BY <1>2, HolderIsFirst, LeaveHolds, HolderHolds DEF Lottery!Enter
<1>3. ASSUME NEW d \in Draws, Lottery!Draw(d) PROVE Lottery!MutexInv'
  BY <1>3, HolderIsFirst, LeaveHolds, HolderHolds DEF Lottery!Draw
<1>4. ASSUME NEW d \in Draws, Lottery!NoDraw(d) PROVE Lottery!MutexInv'
  BY <1>4, HolderIsFirst, LeaveHolds DEF Lottery!NoDraw
<1>5. ASSUME NEW d \in Draws, Lottery!Credit(d) PROVE Lottery!MutexInv'
  BY <1>5, HolderIsFirst, LeaveHolds DEF Lottery!Credit, Lottery!Credited
<1>6. ASSUME UNCHANGED <<line, stage>> PROVE Lottery!MutexInv'
  BY <1>6 DEF Lottery!MutexInv
<1>7. ASSUME Lottery!Restart PROVE Lottery!MutexInv'
  <2>1. line' = <<>> /\ \A d \in Draws : stage'[d] \notin {"waiting", "listing", "crediting"}
    BY <1>7 DEF Lottery!Restart
  <2> QED BY <2>1, SMTT(30) DEF Lottery!MutexInv
<1> QED
  BY <1>1, <1>2, <1>3, <1>4, <1>5, <1>6, <1>7
  DEF Lottery!Next, Lottery!LateCredit, Lottery!DeleteRecord, Lottery!Status, Lottery!Reset, Lottery!DayPasses,
      Lottery!lotteryVars

LEMMA LotteryNextHolds ==
  ASSUME Lottery!LotteryInv, [Lottery!Next]_(Lottery!lotteryVars)
  PROVE  Lottery!LotteryInv'
<1>1. stage \in [Draws -> Lottery!Stages]
  BY DEF Lottery!LotteryInv, Lottery!PrizesInv, Lottery!PrizesTypeInv
<1> QED BY <1>1, ChancesHold, PrizesHold, MutexHolds DEF Lottery!LotteryInv

LEMMA LotteryInvSuffices ==
  ASSUME Lottery!LotteryInv
  PROVE  Lottery!OneDrawAtATime /\ Lottery!ChancesAreAccounted /\ Lottery!PrizesAreRecorded
<1>1. Lottery!OneDrawAtATime
  BY HolderIsFirst DEF Lottery!LotteryInv, Lottery!OneDrawAtATime
<1> QED BY <1>1 DEF Lottery!LotteryInv, Lottery!ChancesInv, Lottery!PrizesInv


LEMMA LotteryInitHolds == ASSUME Lottery!Init PROVE Lottery!LotteryInv
<1>1. Lottery!ChancesInv
  <2>1. PerDay * (0 - 0) = 0
    BY LotteryAssumption
  <2> QED BY <2>1 DEF Lottery!Init, Lottery!ChancesInv, Lottery!ChancesTypeInv, Lottery!ChancesAreAccounted
<1>2. Lottery!PrizesTypeInv
  BY SMTT(30) DEF Lottery!Init, Lottery!PrizesTypeInv, Lottery!Stages, Lottery!Modes, Lottery!Statuses
<1>3. Lottery!DueInv
  BY SMTT(30) DEF Lottery!Init, Lottery!DueInv
<1>4. Lottery!PrizesAreRecorded
  BY SMTT(30) DEF Lottery!Init, Lottery!PrizesAreRecorded
<1>5. Lottery!MutexInv
  BY SMTT(30) DEF Lottery!Init, Lottery!MutexInv
<1> QED BY <1>1, <1>2, <1>3, <1>4, <1>5 DEF Lottery!LotteryInv, Lottery!PrizesInv


\* The lottery, for any number of draws, days, resets and failures: draws do not
\* overlap; a chance is granted once, whoever reconciles, and used by one draw, and
\* a draw that a reset overtakes does not overdraw; whatever fails and whoever
\* deletes records or restarts the service, a prize is paid at most once, never
\* without a record, and what a record reports as succeeded was paid.
THEOREM LotteryPrizesAreHonest == ActingSpec => []PrizesAreHonest
<1> DEFINE LInv == part = "lottery" => Lottery!LotteryInv
<1>1. ActingInit => LInv
  BY PartsBegin, LotteryInitHolds
<1>2. LInv /\ [ActingNext]_vars => LInv'
  BY PartsTakeTurns, LotteryNextHolds
<1>3. LInv => PrizesAreHonest
  BY LotteryInvSuffices DEF PrizesAreHonest
<1> QED BY <1>1, <1>2, <1>3, PTL DEF ActingSpec

-----------------------------------------------------------------------------
(* Store of operations *)

kind == v1
generation == v2
pool == v3
recycling == v4
closed == v5
closing == v6
query == v7
stray == v8
effects == v9
broken == v10
USE DEF kind, generation, pool, recycling, closed, closing, query, stray, effects, broken

LEMMA StoreInitHolds == ASSUME Store!Init PROVE Store!StoreInv
<1>1. 0 \in Store!Generations
  BY StoreAssumption DEF Store!Generations
<1>2. Store!TypeInv
  <2>1. pool \in [Store!Generations -> {"none", "open", "closing", "closed"}]
    BY SMTT(30) DEF Store!Init
  <2>2. query \in [Queries -> [stage : {"idle", "running", "recycle", "await", "replay"} \cup Store!Settled,
                               observed : Store!Generations, attempt : 1 .. 2]]
    BY <1>1, SMTT(30) DEF Store!Init
  <2>3. stray \in [Queries -> Nat] /\ effects \in [Queries -> Nat]
    BY SMTT(30) DEF Store!Init
  <2> QED BY <1>1, <2>1, <2>2, <2>3 DEF Store!Init, Store!TypeInv
<1>3. Store!MutationInv
  BY SMTT(30) DEF Store!Init, Store!MutationInv
<1>4. Store!PoolInv
  BY <1>1, SMTT(30) DEF Store!Init, Store!PoolInv, Store!NoPromise, Store!Generations
<1>5. Store!PoolsAreRetiredOnce
  BY SMTT(30) DEF Store!Init, Store!PoolsAreRetiredOnce
<1> QED BY <1>2, <1>3, <1>4, <1>5 DEF Store!StoreInv

\* What a failed attempt leads to: only a read or an upsert runs again.
LEMMA RecoveryIsSound ==
  ASSUME NEW q \in Queries
  PROVE  /\ Store!Recovery(q) \in {"replay", "failed"}
         /\ kind[q] \in {"write", "plain"} => Store!Recovery(q) = "failed"
BY DEF Store!Recovery

\* Generations are numbers.
LEMMA GenerationsAreNumbers ==
         /\ Store!Generations \subseteq Nat
         /\ \A g \in Store!Generations : g < MaxFaults["store"] => g + 1 \in Store!Generations
         /\ Store!NoPromise \notin Store!Generations
BY StoreAssumption DEF Store!Generations, Store!NoPromise

LEMMA StoreStartHolds ==
  ASSUME Store!StoreInv, NEW q \in Queries, Store!Start(q)
  PROVE  Store!StoreInv'
<1> USE DEF Store!StoreInv, Store!Start, Store!Run
<1>1. Store!TypeInv'
  BY SMTT(30) DEF Store!TypeInv
<1>2. Store!MutationInv'
  BY SMTT(30) DEF Store!TypeInv, Store!MutationInv
<1>3. Store!PoolInv'
  BY GenerationsAreNumbers, SMTT(30) DEF Store!TypeInv, Store!PoolInv
<1>4. Store!PoolsAreRetiredOnce'
  BY DEF Store!PoolsAreRetiredOnce
<1> QED BY <1>1, <1>2, <1>3, <1>4

LEMMA StoreAnswerHolds ==
  ASSUME Store!StoreInv, NEW q \in Queries, Store!Answer(q)
  PROVE  Store!StoreInv'
<1> USE DEF Store!StoreInv, Store!Answer, Store!Executed, Store!GoTo
<1>1. Store!TypeInv'
  BY SMTT(30) DEF Store!TypeInv, Store!Settled
<1>2. Store!MutationInv'
  BY SMTT(30) DEF Store!TypeInv, Store!MutationInv, Store!Kinds
<1>3. Store!PoolInv'
  BY SMTT(30) DEF Store!TypeInv, Store!PoolInv
<1>4. Store!PoolsAreRetiredOnce'
  BY DEF Store!PoolsAreRetiredOnce
<1> QED BY <1>1, <1>2, <1>3, <1>4

LEMMA StoreLoseHolds ==
  ASSUME Store!StoreInv, NEW q \in Queries, Store!Lose(q)
  PROVE  Store!StoreInv'
<1> USE DEF Store!StoreInv, Store!Lose, Store!Executed, Store!GoTo
<1>1. Store!TypeInv'
  BY SMTT(30) DEF Store!TypeInv, Store!Settled
<1>2. Store!MutationInv'
  BY SMTT(30) DEF Store!TypeInv, Store!MutationInv, Store!Kinds
<1>3. Store!PoolInv'
  BY SMTT(30) DEF Store!TypeInv, Store!PoolInv
<1>4. Store!PoolsAreRetiredOnce'
  BY SMTT(30) DEF Store!PoolsAreRetiredOnce
<1> QED BY <1>1, <1>2, <1>3, <1>4

LEMMA StoreLateWriteHolds ==
  ASSUME Store!StoreInv, NEW q \in Queries, Store!LateWrite(q)
  PROVE  Store!StoreInv'
<1> USE DEF Store!StoreInv, Store!LateWrite, Store!Executed
<1>1. Store!TypeInv'
  BY SMTT(30) DEF Store!TypeInv
<1>2. Store!MutationInv'
  BY SMTT(30) DEF Store!TypeInv, Store!MutationInv, Store!Kinds
<1>3. Store!PoolInv'
  BY DEF Store!PoolInv
<1>4. Store!PoolsAreRetiredOnce'
  BY DEF Store!PoolsAreRetiredOnce
<1> QED BY <1>1, <1>2, <1>3, <1>4

LEMMA StoreRecycleHolds ==
  ASSUME Store!StoreInv, NEW q \in Queries, Store!Recycle(q)
  PROVE  Store!StoreInv'
<1> USE DEF Store!StoreInv
<1>1. CASE Store!Replaces(q)
  <2> USE <1>1 DEF Store!Recycle, Store!Replaces, Store!GoTo
  <2>1. Store!TypeInv'
    <3>1. generation' \in Store!Generations /\ recycling' \in Store!Generations
      BY GenerationsAreNumbers, SMTT(30) DEF Store!TypeInv
    <3>2. pool' \in [Store!Generations -> {"none", "open", "closing", "closed"}]
      BY SMTT(30) DEF Store!TypeInv
    <3>3. query' \in [Queries -> [stage : {"idle", "running", "recycle", "await", "replay"} \cup Store!Settled,
                                  observed : Store!Generations, attempt : 1 .. 2]]
      BY SMTT(30) DEF Store!TypeInv
    <3> QED BY <3>1, <3>2, <3>3 DEF Store!TypeInv
  <2>2. Store!MutationInv'
    BY SMTT(30) DEF Store!TypeInv, Store!MutationInv
  <2>3. Store!PoolInv'
    BY GenerationsAreNumbers, SMTT(30) DEF Store!TypeInv, Store!PoolInv
  <2>4. Store!PoolsAreRetiredOnce'
    <3>1. /\ generation \in broken /\ closing # "done" /\ UNCHANGED <<closing, broken>>
          /\ generation' = generation + 1 /\ generation' # generation
          /\ pool' = [pool EXCEPT ![generation] = "closing", ![generation + 1] = "open"]
      BY GenerationsAreNumbers, SMTT(30) DEF Store!TypeInv, Store!PoolInv
    <3>2. \A g \in Store!Generations :
            pool'[g] = IF g = generation + 1 THEN "open" ELSE IF g = generation THEN "closing" ELSE pool[g]
      BY <3>1, SMTT(30) DEF Store!TypeInv
    <3>3. \A g \in Store!Generations : pool'[g] = "open" => g = generation'
      BY <3>1, <3>2 DEF Store!PoolsAreRetiredOnce
    <3>4. \A g \in Store!Generations : pool'[g] \in {"closing", "closed"} => g \in broken
      BY <3>1, <3>2 DEF Store!PoolsAreRetiredOnce
    <3> QED BY <3>1, <3>3, <3>4 DEF Store!PoolsAreRetiredOnce
  <2> QED BY <2>1, <2>2, <2>3, <2>4
<1>2. CASE ~ Store!Replaces(q)
  <2>1. PICK after \in {"await", "replay", "failed"} :
          /\ query' = [query EXCEPT ![q].stage = after]
          /\ kind[q] \in {"write", "plain"} => after # "replay"
    BY <1>2, RecoveryIsSound DEF Store!Recycle, Store!GoTo
  <2>2. UNCHANGED <<kind, generation, pool, recycling, closed, closing, stray, effects, broken>>
    BY <1>2 DEF Store!Recycle
  <2>3. Store!TypeInv'
    BY <2>1, <2>2, SMTT(30) DEF Store!TypeInv, Store!Settled
  <2>4. Store!MutationInv'
    BY <2>1, <2>2, SMTT(30) DEF Store!TypeInv, Store!MutationInv
  <2>5. Store!PoolInv'
    BY <2>1, <2>2, SMTT(30) DEF Store!TypeInv, Store!PoolInv
  <2>6. Store!PoolsAreRetiredOnce'
    BY <2>2 DEF Store!PoolsAreRetiredOnce
  <2> QED BY <2>3, <2>4, <2>5, <2>6
<1> QED BY <1>1, <1>2

LEMMA StoreRecycledHolds ==
  ASSUME Store!StoreInv, Store!Recycled
  PROVE  Store!StoreInv'
<1> USE DEF Store!StoreInv
<1>1. \A p \in Queries :
        /\ query'[p].observed = query[p].observed /\ query'[p].attempt = query[p].attempt
        /\ \/ query'[p].stage = query[p].stage
           \/ /\ query[p].stage = "await" /\ query'[p].stage \in {"replay", "failed"}
              /\ kind[p] \in {"write", "plain"} => query'[p].stage = "failed"
  BY RecoveryIsSound, SMTT(30) DEF Store!Recycled, Store!TypeInv
<1>2. Store!TypeInv'
  BY RecoveryIsSound, SMTT(30) DEF Store!Recycled, Store!TypeInv, Store!Settled
<1>3. Store!MutationInv'
  BY <1>1, SMTT(30) DEF Store!Recycled, Store!TypeInv, Store!MutationInv
<1>4. Store!PoolInv'
  BY <1>1, GenerationsAreNumbers, SMTT(30) DEF Store!Recycled, Store!TypeInv, Store!PoolInv
<1>5. Store!PoolsAreRetiredOnce'
  BY GenerationsAreNumbers, SMTT(30) DEF Store!Recycled, Store!TypeInv, Store!PoolInv, Store!PoolsAreRetiredOnce
<1> QED BY <1>2, <1>3, <1>4, <1>5

LEMMA StorePoolClosedHolds ==
  ASSUME Store!StoreInv, NEW g \in Store!Generations, Store!PoolClosed(g)
  PROVE  Store!StoreInv'
<1> USE DEF Store!StoreInv, Store!PoolClosed
<1>1. Store!TypeInv'
  BY SMTT(30) DEF Store!TypeInv
<1>2. Store!MutationInv'
  BY DEF Store!MutationInv
<1>3. Store!PoolInv'
  BY SMTT(30) DEF Store!TypeInv, Store!PoolInv
<1>4. Store!PoolsAreRetiredOnce'
  BY SMTT(30) DEF Store!TypeInv, Store!PoolsAreRetiredOnce
<1> QED BY <1>1, <1>2, <1>3, <1>4

LEMMA StoreReplayHolds ==
  ASSUME Store!StoreInv, NEW q \in Queries, Store!Replay(q)
  PROVE  Store!StoreInv'
<1> USE DEF Store!StoreInv, Store!Replay, Store!Run
<1>1. Store!TypeInv'
  BY SMTT(30) DEF Store!TypeInv
<1>2. Store!MutationInv'
  BY SMTT(30) DEF Store!TypeInv, Store!MutationInv
<1>3. Store!PoolInv'
  BY GenerationsAreNumbers, SMTT(30) DEF Store!TypeInv, Store!PoolInv
<1>4. Store!PoolsAreRetiredOnce'
  BY DEF Store!PoolsAreRetiredOnce
<1> QED BY <1>1, <1>2, <1>3, <1>4

LEMMA StoreCloseHolds ==
  ASSUME Store!StoreInv, Store!Close
  PROVE  Store!StoreInv'
<1> USE DEF Store!StoreInv, Store!Close
<1>1. Store!TypeInv'
  BY DEF Store!TypeInv
<1>2. Store!MutationInv'
  BY DEF Store!MutationInv
<1>3. Store!PoolInv'
  BY SMTT(30) DEF Store!PoolInv
<1>4. Store!PoolsAreRetiredOnce'
  BY SMTT(30) DEF Store!PoolInv, Store!PoolsAreRetiredOnce
<1> QED BY <1>1, <1>2, <1>3, <1>4

LEMMA StoreClosedHolds ==
  ASSUME Store!StoreInv, Store!Closed
  PROVE  Store!StoreInv'
<1> USE DEF Store!StoreInv, Store!Closed
<1>1. Store!TypeInv'
  BY SMTT(30) DEF Store!TypeInv
<1>2. Store!MutationInv'
  BY DEF Store!MutationInv
<1>3. Store!PoolInv'
  BY SMTT(30) DEF Store!TypeInv, Store!PoolInv
<1>4. Store!PoolsAreRetiredOnce'
  BY SMTT(30) DEF Store!TypeInv, Store!PoolsAreRetiredOnce
<1> QED BY <1>1, <1>2, <1>3, <1>4

LEMMA StoreNextHolds ==
  ASSUME Store!StoreInv, [Store!Next]_(Store!storeVars)
  PROVE  Store!StoreInv'
<1>1. CASE Store!Next
  <2>1. ASSUME NEW q \in Queries,
               Store!Start(q) \/ Store!Answer(q) \/ Store!Lose(q) \/ Store!LateWrite(q) \/ Store!Recycle(q) \/ Store!Replay(q)
        PROVE  Store!StoreInv'
    BY <2>1, StoreStartHolds, StoreAnswerHolds, StoreLoseHolds, StoreLateWriteHolds, StoreRecycleHolds, StoreReplayHolds
  <2>2. ASSUME NEW g \in Store!Generations, Store!PoolClosed(g) PROVE Store!StoreInv'
    BY <2>2, StorePoolClosedHolds
  <2>3. CASE Store!Recycled \/ Store!Close \/ Store!Closed
    BY <2>3, StoreRecycledHolds, StoreCloseHolds, StoreClosedHolds
  <2> QED BY <1>1, <2>1, <2>2, <2>3 DEF Store!Next
<1>2. CASE UNCHANGED Store!storeVars
  <2> USE <1>2 DEF Store!storeVars
  <2>1. Store!TypeInv'
    BY DEF Store!StoreInv, Store!TypeInv
  <2>2. Store!MutationInv'
    BY DEF Store!StoreInv, Store!MutationInv
  <2>3. Store!PoolInv'
    BY DEF Store!StoreInv, Store!PoolInv
  <2>4. Store!PoolsAreRetiredOnce'
    BY DEF Store!StoreInv, Store!PoolsAreRetiredOnce
  <2> QED BY <2>1, <2>2, <2>3, <2>4 DEF Store!StoreInv
<1> QED BY <1>1, <1>2

\* The connections of the store, for any number of queries and of faults:
\* persistQuery() never replays a mutation, so a write that is not idempotent takes
\* effect at most once; only the pool in use is open, only a pool on which a query
\* failed is retired, and close() leaves none open.
THEOREM StoreConnectionsAreSound == ActingSpec => []ConnectionsAreSound
<1> DEFINE SInv == part = "store" => Store!StoreInv
<1>1. ActingInit => SInv
  BY PartsBegin, StoreInitHolds
<1>2. SInv /\ [ActingNext]_vars => SInv'
  BY PartsTakeTurns, StoreNextHolds
<1>3. SInv => ConnectionsAreSound
  BY DEF ConnectionsAreSound, Store!StoreInv, Store!MutationInv, Store!WritesAreNotReplayed
<1> QED BY <1>1, <1>2, <1>3, PTL DEF ActingSpec

-----------------------------------------------------------------------------
(* Operations on upstreams *)

request == v1
registering == v2
pending == v3
accounts == v4
keyed == v5
entries == v6
exec == v7
USE DEF request, registering, pending, accounts, keyed, entries, exec

\* There is a newest account of an identity, where there is any.
LEMMA NewestIsThere ==
  ASSUME NEW S \in SUBSET (1 .. MaxAccounts), S # {}
  PROVE  \E id \in S : \A other \in S : other <= id
<1> DEFINE T == {MaxAccounts - id : id \in S}
<1>1. T \in SUBSET Nat
  BY OperationsAssumption
<1>2. T # {}
  OBVIOUS
<1>3. PICK n \in T : \A m \in T : <<m, n>> \notin OpToRel(<, Nat)
  <2> HIDE DEF T
  <2> QED BY <1>1, <1>2, WFMin, NatLessThanWellFounded, Zenon
<1>4. \A m \in T : n <= m
  <2>1. \A m \in T : n \in Nat /\ m \in Nat
    BY <1>1
  <2>2. \A m \in T : ~ (m < n)
    BY <1>3, <2>1 DEF OpToRel
  <2> QED BY <2>1, <2>2
<1>5. PICK id \in S : n = MaxAccounts - id
  OBVIOUS
<1>6. \A other \in S : MaxAccounts - other \in T
  OBVIOUS
<1>7. \A other \in S : n <= MaxAccounts - other
  BY <1>4, <1>6
<1>8. \A other \in S : other \in Int /\ id \in Int /\ MaxAccounts \in Int
  BY OperationsAssumption
<1> HIDE DEF T
<1> QED BY <1>5, <1>7, <1>8

LEMMA ByIdentityIsAnAccount ==
  ASSUME NEW who
  PROVE  Operations!ByIdentity(who) \in Operations!Ids \cup {Operations!NoAccount}
<1> DEFINE found == {id \in Operations!Existing : accounts[id].who = who}
<1>1. found \in SUBSET (1 .. MaxAccounts)
  BY DEF Operations!Existing, Operations!Ids
<1>2. CASE found = {}
  BY <1>2 DEF Operations!ByIdentity
<1>3. CASE found # {}
  <2>1. \E id \in found : \A other \in found : other <= id
    BY <1>1, <1>3, NewestIsThere
  <2> QED BY <1>1, <1>3, <2>1 DEF Operations!ByIdentity, Operations!Ids
<1> QED BY <1>2, <1>3

LEMMA RequestsAreKnown ==
  ASSUME Operations!TypeInv, NEW op \in Ops
  PROVE  /\ request[op].action \in Operations!Actions
         /\ request[op].amount \in Int
         /\ request[op].action \notin {"create", "recharge"} => request[op].amount = 0
BY OperationsAssumption DEF Operations!TypeInv, Operations!Actions

\* A step of one attempt.
LEMMA AttemptHolds ==
  ASSUME Operations!OperationsInv, NEW e \in Execs, NEW attempt \in Operations!Attempts,
         exec' = [exec EXCEPT ![e] = attempt],
         UNCHANGED <<request, entries>>, keyed' \in [Ops -> Operations!Ids \cup {Operations!NoAccount}],
         Operations!IsInOrder(attempt)
  PROVE  Operations!OperationsInv'
<1> USE DEF Operations!OperationsInv
<1>1. Operations!TypeInv'
  BY DEF Operations!TypeInv
<1>2. Operations!OneEntryInv'
  BY DEF Operations!OneEntryInv
<1>3. ASSUME NEW f \in Execs, exec'[f] # Operations!Free PROVE Operations!IsInOrder(exec[f])' 
  <2>1. Operations!IsInOrder(exec'[f])
    BY <1>3 DEF Operations!TypeInv, Operations!BookingInv
  <2> QED BY <2>1 DEF Operations!IsInOrder, Operations!IsBooked
<1>4. Operations!BookingInv'
  BY <1>3 DEF Operations!BookingInv
<1> QED BY <1>1, <1>2, <1>4

\* Where an attempt goes on without a booking to make or to keep.
Quiet == {"claim", "create", "recharge", "post", "resolve", "configure", "book", "failed"}

LEMMA QuietIsInOrder ==
  ASSUME NEW attempt \in Operations!Attempts, attempt.stage \in Quiet
  PROVE  Operations!IsInOrder(attempt)
BY DEF Quiet, Operations!IsInOrder, Operations!AfterBooking, Operations!Elsewhere

\* Between the stages after a booking nothing has to be shown again.
LEMMA StaysInOrder ==
  ASSUME NEW old \in Operations!Attempts, NEW attempt \in Operations!Attempts, Operations!IsInOrder(old),
         attempt.op = old.op, attempt.account = old.account,
         old.stage \in Operations!AfterBooking, attempt.stage \in Operations!AfterBooking
  PROVE  Operations!IsInOrder(attempt)
BY DEF Operations!IsInOrder, Operations!AfterBooking, Operations!Elsewhere

\* A stage of its own: the operation has no recharge.
LEMMA NoRechargeIsInOrder ==
  ASSUME NEW old \in Operations!Attempts, NEW attempt \in Operations!Attempts, Operations!IsInOrder(old),
         attempt.op = old.op, old.stage \in Operations!Elsewhere
  PROVE  Operations!IsInOrder(attempt)
BY DEF Operations!IsInOrder

\* An attempt at a stage is one that was begun.
LEMMA AtIsAnAttempt ==
  ASSUME Operations!OperationsInv, NEW e \in Execs, exec[e].stage # "free"
  PROVE  /\ exec[e] \in Operations!Attempts /\ exec[e] # Operations!Free
         /\ Operations!IsInOrder(exec[e])
BY DEF Operations!OperationsInv, Operations!TypeInv, Operations!BookingInv, Operations!Free

LEMMA BeginHolds ==
  ASSUME Operations!OperationsInv, NEW op \in Ops, Operations!Begin(op), UNCHANGED <<request, keyed, entries>>
  PROVE  Operations!OperationsInv'
<1> DEFINE attempt == [stage |-> "claim", op |-> op, account |-> Operations!NoAccount, status |-> "none",
                       warned |-> FALSE]
<1>1. PICK e \in Execs : exec' = [exec EXCEPT ![e] = attempt]
  BY DEF Operations!Begin
<1>2. attempt \in Operations!Attempts /\ attempt.stage \in Quiet
  BY DEF Operations!Attempts, Operations!Stages, Quiet
<1>3. Operations!IsInOrder(attempt)
  BY <1>2, QuietIsInOrder
<1>4. keyed' \in [Ops -> Operations!Ids \cup {Operations!NoAccount}]
  BY DEF Operations!OperationsInv, Operations!TypeInv
<1> HIDE DEF attempt
<1> QED BY <1>1, <1>2, <1>3, <1>4, AttemptHolds

\* An attempt goes to another stage.
LEMMA AttemptMoves ==
  ASSUME Operations!OperationsInv, NEW e \in Execs, exec[e].stage # "free",
         NEW attempt \in Operations!Attempts, attempt.op = exec[e].op,
         exec' = [exec EXCEPT ![e] = attempt],
         UNCHANGED <<request, entries>>, keyed' \in [Ops -> Operations!Ids \cup {Operations!NoAccount}],
         \/ attempt.stage \in Quiet
         \/ /\ attempt.account = exec[e].account
            /\ exec[e].stage \in Operations!AfterBooking /\ attempt.stage \in Operations!AfterBooking
         \/ exec[e].stage \in Operations!Elsewhere
         \/ request[exec[e].op].amount <= 0
  PROVE  Operations!OperationsInv'
<1>1. exec[e] \in Operations!Attempts /\ Operations!IsInOrder(exec[e])
  BY AtIsAnAttempt
<1>2. request[exec[e].op].amount \in Int
  BY <1>1, RequestsAreKnown DEF Operations!OperationsInv, Operations!Attempts
<1>3. Operations!IsInOrder(attempt)
  <2>1. CASE request[exec[e].op].amount <= 0
    BY <1>2, <2>1 DEF Operations!IsInOrder
  <2> QED BY <1>1, <2>1, QuietIsInOrder, StaysInOrder, NoRechargeIsInOrder
<1> QED BY <1>3, AttemptHolds

LEMMA GoToHolds ==
  ASSUME Operations!OperationsInv, NEW e \in Execs, exec[e].stage # "free",
         NEW s \in Operations!Stages, exec' = [exec EXCEPT ![e].stage = s],
         UNCHANGED <<request, entries>>, keyed' \in [Ops -> Operations!Ids \cup {Operations!NoAccount}],
         \/ s \in Quiet
         \/ exec[e].stage \in Operations!AfterBooking /\ s \in Operations!AfterBooking
         \/ exec[e].stage \in Operations!Elsewhere
         \/ request[exec[e].op].amount <= 0
  PROVE  Operations!OperationsInv'
<1> DEFINE attempt == [exec[e] EXCEPT !.stage = s]
<1>1. exec[e] \in Operations!Attempts
  BY AtIsAnAttempt
<1>2. /\ attempt \in Operations!Attempts
      /\ attempt.stage = s /\ attempt.op = exec[e].op /\ attempt.account = exec[e].account
  BY <1>1 DEF Operations!Attempts
<1>3. exec' = [exec EXCEPT ![e] = attempt]
  OBVIOUS
<1> HIDE DEF attempt
<1> QED BY <1>2, <1>3, AttemptMoves

LEMMA FinishHolds ==
  ASSUME Operations!OperationsInv, NEW e \in Execs, exec[e].stage # "free",
         NEW status \in {"ok", "partial", "ready"}, Operations!Finish(e, status),
         UNCHANGED <<request, keyed, entries>>,
         exec[e].stage \in Operations!AfterBooking \/ exec[e].stage \in Operations!Elsewhere
  PROVE  Operations!OperationsInv'
<1> DEFINE attempt == [exec[e] EXCEPT !.stage = "done", !.status = status]
<1>1. exec[e] \in Operations!Attempts
  BY AtIsAnAttempt
<1>2. /\ attempt \in Operations!Attempts
      /\ attempt.stage = "done" /\ attempt.op = exec[e].op /\ attempt.account = exec[e].account
  BY <1>1 DEF Operations!Attempts, Operations!Stages
<1>3. exec' = [exec EXCEPT ![e] = attempt]
  BY DEF Operations!Finish
<1>4. keyed' \in [Ops -> Operations!Ids \cup {Operations!NoAccount}]
  BY DEF Operations!OperationsInv, Operations!TypeInv
<1>5. "done" \in Operations!AfterBooking
  BY DEF Operations!AfterBooking
<1> HIDE DEF attempt
<1> QED BY <1>2, <1>3, <1>4, <1>5, AttemptMoves

LEMMA AccountHolds ==
  ASSUME Operations!OperationsInv, NEW e \in Execs, exec[e].stage # "free",
         NEW s \in Operations!Stages, NEW id \in Operations!Ids \cup {Operations!NoAccount},
         exec' = [exec EXCEPT ![e].stage = s, ![e].account = id],
         UNCHANGED <<request, entries>>, keyed' \in [Ops -> Operations!Ids \cup {Operations!NoAccount}],
         \/ s \in Quiet
         \/ exec[e].stage \in Operations!Elsewhere
         \/ request[exec[e].op].amount <= 0
  PROVE  Operations!OperationsInv'
<1> DEFINE attempt == [exec[e] EXCEPT !.stage = s, !.account = id]
<1>1. exec[e] \in Operations!Attempts
  BY AtIsAnAttempt
<1>2. attempt \in Operations!Attempts /\ attempt.stage = s /\ attempt.op = exec[e].op
  BY <1>1 DEF Operations!Attempts
<1>3. exec' = [exec EXCEPT ![e] = attempt]
  BY DEF Operations!OperationsInv, Operations!TypeInv
<1> HIDE DEF attempt
<1> QED BY <1>2, <1>3, AttemptMoves

LEMMA OperationsStay ==
  ASSUME Operations!OperationsInv, UNCHANGED <<request, keyed, entries, exec>>
  PROVE  Operations!OperationsInv'
<1>1. Operations!TypeInv'
  BY DEF Operations!OperationsInv, Operations!TypeInv
<1>2. Operations!OneEntryInv'
  BY DEF Operations!OperationsInv, Operations!OneEntryInv
<1>3. Operations!BookingInv'
  BY DEF Operations!OperationsInv, Operations!BookingInv, Operations!IsInOrder, Operations!IsBooked
<1> QED BY <1>1, <1>2, <1>3 DEF Operations!OperationsInv

\* The attempts that end with the process fail.
LEMMA OperationsRestartHolds ==
  ASSUME Operations!OperationsInv, Operations!Restart
  PROVE  Operations!OperationsInv'
<1> USE DEF Operations!OperationsInv
<1>1. /\ UNCHANGED <<request, keyed, entries>>
      /\ exec' = [e \in Execs |-> IF Operations!At(e, "free") \/ Operations!At(e, "done") THEN exec[e]
                                   ELSE [exec[e] EXCEPT !.stage = "failed"]]
  BY DEF Operations!Restart
<1>2. ASSUME NEW e \in Execs
      PROVE  \/ exec'[e] = exec[e] /\ exec[e] \in {Operations!Free} \cup Operations!Attempts
             \/ exec'[e] \in Operations!Attempts /\ exec'[e].stage \in Quiet
  <2>1. CASE exec[e].stage = "free" \/ exec[e].stage = "done"
    BY <1>1, <2>1 DEF Operations!At, Operations!TypeInv
  <2>2. CASE exec[e].stage # "free" /\ exec[e].stage # "done"
    <3>1. exec[e] \in Operations!Attempts
      BY <2>2, AtIsAnAttempt
    <3>2. exec'[e] = [exec[e] EXCEPT !.stage = "failed"]
      BY <1>1, <2>2 DEF Operations!At
    <3> QED BY <3>1, <3>2 DEF Operations!Attempts, Operations!Stages, Quiet
  <2> QED BY <2>1, <2>2
<1>3. Operations!TypeInv'
  BY <1>1, <1>2 DEF Operations!TypeInv
<1>4. Operations!OneEntryInv'
  BY <1>1 DEF Operations!OneEntryInv
<1>5. ASSUME NEW e \in Execs, exec'[e] # Operations!Free PROVE Operations!IsInOrder(exec[e])'
  <2>1. Operations!IsInOrder(exec'[e])
    BY <1>2, <1>5, QuietIsInOrder DEF Operations!BookingInv
  <2> QED BY <1>1, <2>1 DEF Operations!IsInOrder, Operations!IsBooked
<1>6. Operations!BookingInv'
  BY <1>5 DEF Operations!BookingInv
<1> QED BY <1>3, <1>4, <1>6

LEMMA KeysStay ==
  ASSUME Operations!OperationsInv, UNCHANGED keyed
  PROVE  keyed' \in [Ops -> Operations!Ids \cup {Operations!NoAccount}]
BY DEF Operations!OperationsInv, Operations!TypeInv

LEMMA LookupHolds ==
  ASSUME Operations!OperationsInv, NEW e \in Execs, Operations!Lookup(e)
  PROVE  Operations!OperationsInv'
<1> DEFINE id == Operations!ByIdentity(Operations!Req(e).who)
           s == IF id = Operations!NoAccount THEN "post"
                ELSE IF Operations!Req(e).amount = 0 /\ Operations!Aligned(id, Operations!Req(e)) THEN "template"
                ELSE "configure"
<1>1. id \in Operations!Ids \cup {Operations!NoAccount}
  BY ByIdentityIsAnAccount
<1>2. exec[e].stage = "create"
  BY DEF Operations!Lookup, Operations!At
<1>3. exec' = [exec EXCEPT ![e].stage = s, ![e].account = id]
  BY DEF Operations!Lookup
<1>4. s \in {"post", "configure", "template"} /\ (s = "template" => request[exec[e].op].amount <= 0)
  BY DEF Operations!Req
<1> HIDE DEF id, s
<1>5. s \in Operations!Stages /\ (s \in Quiet \/ request[exec[e].op].amount <= 0)
  BY <1>4 DEF Operations!Stages, Quiet
<1>6. UNCHANGED <<request, keyed, entries>>
  BY DEF Operations!Lookup
<1> QED BY <1>1, <1>2, <1>3, <1>5, <1>6, KeysStay, AccountHolds

LEMMA CreateAccountHolds ==
  ASSUME Operations!OperationsInv, NEW e \in Execs, Operations!CreateAccount(e)
  PROVE  Operations!OperationsInv'
<1> DEFINE op == exec[e].op
<1>1. exec[e].stage = "post" /\ UNCHANGED <<request, entries>>
  BY DEF Operations!CreateAccount, Operations!At
<1>2. op \in Ops /\ keyed[op] \in Operations!Ids \cup {Operations!NoAccount}
  BY <1>1, AtIsAnAttempt DEF Operations!Attempts, Operations!OperationsInv, Operations!TypeInv
<1>3. "resolve" \in Operations!Stages /\ "resolve" \in Quiet
  BY DEF Operations!Stages, Quiet
<1>4. \/ UNCHANGED keyed
      \/ \E fresh \in Operations!Ids : keyed' = [keyed EXCEPT ![op] = fresh]
  BY DEF Operations!CreateAccount
<1>5. \/ exec' = [exec EXCEPT ![e].stage = "resolve"]
      \/ \E fresh \in Operations!Ids : exec' = [exec EXCEPT ![e].stage = "resolve", ![e].account = fresh]
      \/ exec' = [exec EXCEPT ![e].stage = "resolve", ![e].account = keyed[op]]
  BY DEF Operations!CreateAccount, Operations!GoTo
<1> HIDE DEF op
<1>6. keyed' \in [Ops -> Operations!Ids \cup {Operations!NoAccount}]
  BY <1>2, <1>4 DEF Operations!OperationsInv, Operations!TypeInv
<1>7. CASE exec' = [exec EXCEPT ![e].stage = "resolve"]
  BY <1>1, <1>3, <1>6, <1>7, GoToHolds
<1>8. ASSUME NEW fresh \in Operations!Ids, exec' = [exec EXCEPT ![e].stage = "resolve", ![e].account = fresh]
      PROVE  Operations!OperationsInv'
  BY <1>1, <1>3, <1>6, <1>8, AccountHolds
<1>9. CASE exec' = [exec EXCEPT ![e].stage = "resolve", ![e].account = keyed[op]]
  BY <1>1, <1>2, <1>3, <1>6, <1>9, AccountHolds
<1> QED BY <1>5, <1>7, <1>8, <1>9

LEMMA ResolveHolds ==
  ASSUME Operations!OperationsInv, NEW e \in Execs, Operations!Resolve(e)
  PROVE  Operations!OperationsInv'
<1> DEFINE id == Operations!Resolved(e)
<1>1. exec[e].stage = "resolve" /\ UNCHANGED <<request, keyed, entries>>
  BY DEF Operations!Resolve, Operations!At
<1>2. id \in Operations!Ids \cup {Operations!NoAccount}
  BY <1>1, AtIsAnAttempt, ByIdentityIsAnAccount DEF Operations!Resolved, Operations!Attempts
<1>3. \/ exec' = [exec EXCEPT ![e].stage = "failed"]
      \/ exec' = [exec EXCEPT ![e].stage = "configure", ![e].account = id]
  BY DEF Operations!Resolve, Operations!Fail, Operations!GoTo
<1>4. /\ "failed" \in Operations!Stages /\ "failed" \in Quiet
      /\ "configure" \in Operations!Stages /\ "configure" \in Quiet
  BY DEF Operations!Stages, Quiet
<1> HIDE DEF id
<1>5. CASE exec' = [exec EXCEPT ![e].stage = "failed"]
  BY <1>1, <1>4, <1>5, KeysStay, GoToHolds
<1>6. CASE exec' = [exec EXCEPT ![e].stage = "configure", ![e].account = id]
  BY <1>1, <1>2, <1>4, <1>6, KeysStay, AccountHolds
<1> QED BY <1>3, <1>5, <1>6

LEMMA PostProcessHolds ==
  ASSUME Operations!OperationsInv, NEW e \in Execs, Operations!PostProcess(e)
  PROVE  Operations!OperationsInv'
<1> DEFINE next == IF request[exec[e].op].amount > 0 THEN "book" ELSE "detect"
<1>1. exec[e].stage = "configure" /\ UNCHANGED <<request, keyed, entries>>
  BY DEF Operations!PostProcess, Operations!At
<1>2. exec[e] \in Operations!Attempts
  BY <1>1, AtIsAnAttempt
<1>3. \/ exec' = [exec EXCEPT ![e].stage = next]
      \/ exec' = [exec EXCEPT ![e].stage = next, ![e].warned = TRUE]
  BY DEF Operations!PostProcess, Operations!GoTo, Operations!Req
<1>4. PICK attempt \in Operations!Attempts :
        /\ attempt.stage = next /\ attempt.op = exec[e].op
        /\ exec' = [exec EXCEPT ![e] = attempt]
  <2>1. next \in Operations!Stages
    BY DEF Operations!Stages
  <2> HIDE DEF next
  <2>2. CASE exec' = [exec EXCEPT ![e].stage = next]
    <3>1. /\ [exec[e] EXCEPT !.stage = next] \in Operations!Attempts
          /\ [exec[e] EXCEPT !.stage = next].stage = next /\ [exec[e] EXCEPT !.stage = next].op = exec[e].op
      BY <1>2, <2>1 DEF Operations!Attempts
    <3> QED BY <2>2, <3>1
  <2>3. CASE exec' = [exec EXCEPT ![e].stage = next, ![e].warned = TRUE]
    <3>1. /\ [exec[e] EXCEPT !.stage = next, !.warned = TRUE] \in Operations!Attempts
          /\ [exec[e] EXCEPT !.stage = next, !.warned = TRUE].stage = next
          /\ [exec[e] EXCEPT !.stage = next, !.warned = TRUE].op = exec[e].op
      BY <1>2, <2>1 DEF Operations!Attempts
    <3>2. exec' = [exec EXCEPT ![e] = [exec[e] EXCEPT !.stage = next, !.warned = TRUE]]
      BY <2>3 DEF Operations!OperationsInv, Operations!TypeInv
    <3> QED BY <3>1, <3>2
  <2> QED BY <1>3, <2>2, <2>3
<1>5. next \in Quiet \/ request[exec[e].op].amount <= 0
  BY <1>2, RequestsAreKnown DEF Operations!OperationsInv, Operations!Attempts, Quiet
<1> HIDE DEF next
<1> QED BY <1>1, <1>4, <1>5, KeysStay, AttemptMoves

LEMMA ClaimHolds ==
  ASSUME Operations!OperationsInv, NEW e \in Execs, Operations!Claim(e)
  PROVE  Operations!OperationsInv'
<1> DEFINE action == request[exec[e].op].action
<1>1. exec[e].stage = "claim" /\ UNCHANGED <<request, keyed, entries>>
  BY DEF Operations!Claim, Operations!At
<1>2. exec' = [exec EXCEPT ![e].stage = action] \/ exec' = [exec EXCEPT ![e].stage = "failed"]
  BY DEF Operations!Claim, Operations!GoTo, Operations!Fail, Operations!Req
<1>3. /\ action \in Operations!Stages /\ (action \in Quiet \/ request[exec[e].op].amount <= 0)
      /\ "failed" \in Operations!Stages /\ "failed" \in Quiet
  BY <1>1, AtIsAnAttempt, RequestsAreKnown
  DEF Operations!OperationsInv, Operations!Attempts, Operations!Actions, Operations!Stages, Quiet
<1> HIDE DEF action
<1> QED BY <1>1, <1>2, <1>3, KeysStay, GoToHolds

\* What an attempt does after its booking, or without one, leaves it at a stage from
\* which there is nothing to book.
LEMMA EndsHolds ==
  ASSUME Operations!OperationsInv, NEW e \in Execs,
         Operations!Recover(e) \/ Operations!Detect(e) \/ Operations!Update(e) \/ Operations!Template(e)
         \/ Operations!Isolate(e) \/ Operations!Verify(e) \/ Operations!Probe(e)
  PROVE  Operations!OperationsInv'
<1>1. /\ exec[e].stage \in Operations!AfterBooking \/ exec[e].stage \in Operations!Elsewhere
      /\ exec[e].stage # "free" /\ UNCHANGED <<request, keyed, entries>>
  BY DEF Operations!Recover, Operations!Detect, Operations!Update, Operations!Template, Operations!Isolate,
         Operations!Verify, Operations!Probe, Operations!At, Operations!AfterBooking, Operations!Elsewhere
<1>2. \/ \E status \in {"ok", "partial", "ready"} : Operations!Finish(e, status)
      \/ \E s \in {"failed", "template", "isolate", "verify", "probe"} : exec' = [exec EXCEPT ![e].stage = s]
  BY DEF Operations!Recover, Operations!Detect, Operations!Update, Operations!Template, Operations!Isolate,
         Operations!Verify, Operations!Probe, Operations!Partial, Operations!Fail, Operations!GoTo
<1>3. \A s \in {"failed", "template", "isolate", "verify", "probe"} :
        s \in Operations!Stages /\ (s \in Quiet \/ s \in Operations!AfterBooking)
  BY DEF Operations!Stages, Operations!AfterBooking, Quiet
<1>4. ASSUME NEW status \in {"ok", "partial", "ready"}, Operations!Finish(e, status) PROVE Operations!OperationsInv'
  BY <1>1, <1>4, FinishHolds
<1>5. ASSUME NEW s \in {"failed", "template", "isolate", "verify", "probe"}, exec' = [exec EXCEPT ![e].stage = s]
      PROVE  Operations!OperationsInv'
  BY <1>1, <1>3, <1>5, KeysStay, GoToHolds
<1> QED BY <1>2, <1>4, <1>5

LEMMA TargetHolds ==
  ASSUME Operations!OperationsInv, NEW e \in Execs, Operations!Target(e)
  PROVE  Operations!OperationsInv'
<1> DEFINE id == Operations!ByIdentity(Operations!Req(e).who)
<1>1. exec[e].stage \in Operations!Elsewhere /\ exec[e].stage # "free" /\ UNCHANGED <<request, keyed, entries>>
  BY DEF Operations!Target, Operations!Elsewhere
<1>2. id \in Operations!Ids \cup {Operations!NoAccount}
  BY ByIdentityIsAnAccount
<1>3. \/ \E s \in {"isolate", "detect", "template"} : exec' = [exec EXCEPT ![e].account = id, ![e].stage = s]
      \/ exec' = [exec EXCEPT ![e].stage = "failed"]
      \/ \E status \in {"partial", "ok"} : Operations!Finish(e, status)
  BY DEF Operations!Target, Operations!Fail, Operations!GoTo
<1> HIDE DEF id
<1>4. \A s \in {"isolate", "detect", "template", "failed"} : s \in Operations!Stages
  BY DEF Operations!Stages
<1>5. ASSUME NEW s \in {"isolate", "detect", "template"}, exec' = [exec EXCEPT ![e].account = id, ![e].stage = s]
      PROVE  Operations!OperationsInv'
  <2>1. exec' = [exec EXCEPT ![e].stage = s, ![e].account = id]
    BY <1>5
  <2> QED BY <1>1, <1>2, <1>4, <2>1, KeysStay, AccountHolds
<1>6. CASE exec' = [exec EXCEPT ![e].stage = "failed"]
  BY <1>1, <1>4, <1>6, KeysStay, GoToHolds
<1>7. ASSUME NEW status \in {"partial", "ok"}, Operations!Finish(e, status) PROVE Operations!OperationsInv'
  BY <1>1, <1>7, FinishHolds
<1> QED BY <1>3, <1>5, <1>6, <1>7

\* The ledger of recharges: an operation has one entry, which stays.
LEMMA RecordsOnce ==
  ASSUME entries \in Seq(Operations!Entries), Operations!OneEntryInv,
         NEW op \in Ops, NEW id \in Operations!Ids \cup {Operations!NoAccount}, NEW amount \in Int,
         ~ Operations!Conflicts(op, id, amount), entries' = Operations!RecordRecharge(op, id, amount)
  PROVE  /\ entries' \in Seq(Operations!Entries)
         /\ Operations!OneEntryInv'
         /\ \A i \in DOMAIN entries : i \in DOMAIN entries' /\ entries'[i] = entries[i]
         /\ \E i \in DOMAIN entries' : entries'[i] = Operations!Entry(op, id, amount)
<1>1. Operations!Entry(op, id, amount) \in Operations!Entries /\ Operations!Entry(op, id, amount).op = op
  BY DEF Operations!Entry, Operations!Entries
<1>2. CASE \E i \in DOMAIN entries : entries[i].op = op
  <2>1. UNCHANGED entries
    BY <1>2 DEF Operations!RecordRecharge
  <2>2. PICK i \in DOMAIN entries : entries[i].op = op
    BY <1>2
  <2>3. entries[i].account = id /\ entries[i].amount = amount /\ entries[i] \in Operations!Entries
    BY <2>2 DEF Operations!Conflicts
  <2>4. entries[i] = Operations!Entry(op, id, amount)
    BY <2>2, <2>3 DEF Operations!Entry, Operations!Entries
  <2> QED BY <2>1, <2>2, <2>4 DEF Operations!OneEntryInv
<1>3. CASE \A i \in DOMAIN entries : entries[i].op # op
  <2> DEFINE entry == Operations!Entry(op, id, amount)
  <2>1. entries' = Append(entries, entry)
    BY <1>3 DEF Operations!RecordRecharge
  <2> HIDE DEF entry
  <2>2. /\ entries' \in Seq(Operations!Entries) /\ DOMAIN entries' = 1 .. Len(entries) + 1
        /\ entries'[Len(entries) + 1] = entry
        /\ \A i \in 1 .. Len(entries) : entries'[i] = entries[i]
    BY <1>1, <2>1 DEF entry
  <2>3. DOMAIN entries = 1 .. Len(entries) /\ Len(entries) \in Nat
    OBVIOUS
  <2>4. Operations!OneEntryInv'
    BY <1>1, <1>3, <2>2, <2>3 DEF Operations!OneEntryInv, entry
  <2> QED BY <2>2, <2>3, <2>4 DEF entry
<1> QED BY <1>2, <1>3

LEMMA BookHolds ==
  ASSUME Operations!OperationsInv, NEW e \in Execs, Operations!Book(e)
  PROVE  Operations!OperationsInv'
<1> USE DEF Operations!OperationsInv
<1> DEFINE op == exec[e].op
           id == IF Operations!At(e, "book") THEN exec[e].account ELSE Operations!ByIdentity(Operations!Req(e).who)
           amount == request[op].amount
           s == IF Operations!At(e, "book") THEN "detect" ELSE "recover"
<1>1. exec[e].stage # "free" /\ UNCHANGED <<request, keyed>>
  BY DEF Operations!Book, Operations!At
<1>2. exec[e] \in Operations!Attempts /\ op \in Ops /\ id \in Operations!Ids \cup {Operations!NoAccount}
  BY <1>1, AtIsAnAttempt, ByIdentityIsAnAccount DEF Operations!Attempts
<1>3. amount \in Int
  BY <1>2, RequestsAreKnown
<1>4. \/ exec' = [exec EXCEPT ![e].stage = "failed"] /\ UNCHANGED entries
      \/ /\ ~ Operations!Conflicts(op, id, amount) /\ entries' = Operations!RecordRecharge(op, id, amount)
         /\ exec' = [exec EXCEPT ![e].account = id, ![e].stage = s]
  BY DEF Operations!Book, Operations!Fail, Operations!GoTo, Operations!Req
<1>5. s \in Operations!Stages /\ s \in Operations!AfterBooking /\ s \notin Operations!Elsewhere
  BY DEF Operations!Actions, Operations!Stages, Operations!AfterBooking, Operations!Elsewhere
<1> HIDE DEF op, id, amount, s
<1>6. CASE exec' = [exec EXCEPT ![e].stage = "failed"] /\ UNCHANGED entries
  <2>1. "failed" \in Operations!Stages /\ "failed" \in Quiet
    BY DEF Operations!Stages, Quiet
  <2> QED BY <1>1, <1>6, <2>1, KeysStay, GoToHolds
<1>7. CASE /\ ~ Operations!Conflicts(op, id, amount) /\ entries' = Operations!RecordRecharge(op, id, amount)
           /\ exec' = [exec EXCEPT ![e].account = id, ![e].stage = s]
  <2>1. /\ entries' \in Seq(Operations!Entries) /\ Operations!OneEntryInv'
        /\ \A i \in DOMAIN entries : i \in DOMAIN entries' /\ entries'[i] = entries[i]
        /\ \E i \in DOMAIN entries' : entries'[i] = Operations!Entry(op, id, amount)
    BY <1>2, <1>3, <1>7, RecordsOnce DEF Operations!TypeInv
  <2> DEFINE attempt == [exec[e] EXCEPT !.account = id, !.stage = s]
  <2>2. /\ attempt \in Operations!Attempts /\ attempt.op = op /\ attempt.account = id /\ attempt.stage = s
    BY <1>2, <1>5 DEF Operations!Attempts, op
  <2>3. exec' = [exec EXCEPT ![e] = attempt]
    BY <1>7 DEF Operations!TypeInv
  <2> HIDE DEF attempt
  <2>4. Operations!TypeInv'
    BY <1>1, <2>1, <2>2, <2>3 DEF Operations!TypeInv
  <2>5. ASSUME NEW f \in Execs, exec'[f] # Operations!Free PROVE Operations!IsInOrder(exec[f])'
    <3>1. CASE f = e
      <4>1. exec'[f] = attempt
        BY <2>3, <3>1 DEF Operations!TypeInv
      <4> QED BY <1>1, <1>5, <2>1, <2>2, <4>1 DEF Operations!IsInOrder, Operations!IsBooked, amount
    <3>2. CASE f # e
      <4>1. exec'[f] = exec[f] /\ Operations!IsInOrder(exec[f])
        BY <2>3, <2>5, <3>2 DEF Operations!TypeInv, Operations!BookingInv
      <4> QED BY <1>1, <2>1, <4>1 DEF Operations!IsInOrder, Operations!IsBooked, Operations!Entry
    <3> QED BY <3>1, <3>2
  <2>6. Operations!BookingInv'
    BY <2>5 DEF Operations!BookingInv
  <2> QED BY <2>1, <2>4, <2>6
<1> QED BY <1>4, <1>6, <1>7

LEMMA OperationsNextHolds ==
  ASSUME Operations!OperationsInv, [Operations!Next]_(Operations!operationVars)
  PROVE  Operations!OperationsInv'
<1>1. ASSUME NEW op \in Ops, Operations!SubmitOperation(op) PROVE Operations!OperationsInv'
  BY <1>1, BeginHolds DEF Operations!SubmitOperation
<1>2. ASSUME NEW e \in Execs, Operations!Retry(e) PROVE Operations!OperationsInv'
  <2>1. exec[e].op \in Ops
    BY <1>2 DEF Operations!Retry, Operations!OperationsInv, Operations!TypeInv, Operations!Attempts
  <2> QED BY <1>2, <2>1, BeginHolds DEF Operations!Retry
<1>3. ASSUME NEW op \in Ops, Operations!Register(op) \/ Operations!Prune(op) PROVE Operations!OperationsInv'
  BY <1>3, OperationsStay DEF Operations!Register, Operations!Prune
<1>4. ASSUME NEW id \in Operations!Ids, Operations!Suspend(id) PROVE Operations!OperationsInv'
  BY <1>4, OperationsStay DEF Operations!Suspend
<1>5. ASSUME NEW e \in Execs,
             \/ Operations!Claim(e) \/ Operations!Lookup(e) \/ Operations!CreateAccount(e) \/ Operations!Resolve(e)
             \/ Operations!PostProcess(e) \/ Operations!Book(e) \/ Operations!Target(e)
      PROVE  Operations!OperationsInv'
  BY <1>5, ClaimHolds, LookupHolds, CreateAccountHolds, ResolveHolds, PostProcessHolds, BookHolds, TargetHolds
<1>6. ASSUME NEW e \in Execs,
             \/ Operations!Recover(e) \/ Operations!Detect(e) \/ Operations!Update(e) \/ Operations!Template(e)
             \/ Operations!Isolate(e) \/ Operations!Verify(e) \/ Operations!Probe(e)
      PROVE  Operations!OperationsInv'
  BY <1>6, EndsHolds
<1>7. CASE UNCHANGED Operations!operationVars
  BY <1>7, OperationsStay DEF Operations!operationVars
<1> QED BY <1>1, <1>2, <1>3, <1>4, <1>5, <1>6, <1>7, OperationsRestartHolds DEF Operations!Next

LEMMA OperationsInitHolds == ASSUME Operations!Init PROVE Operations!OperationsInv
<1>1. Operations!TypeInv
  BY DEF Operations!Init, Operations!TypeInv
<1>2. Operations!OneEntryInv
  BY DEF Operations!Init, Operations!OneEntryInv
<1>3. Operations!BookingInv
  BY DEF Operations!Init, Operations!BookingInv
<1> QED BY <1>1, <1>2, <1>3 DEF Operations!OperationsInv

LEMMA OperationsInvSuffices ==
  ASSUME Operations!OperationsInv
  PROVE  Operations!RechargesBookedOnce
<1>1. ASSUME NEW e \in Execs, exec[e] # Operations!Free, Operations!At(e, "done"), Operations!Req(e).amount > 0
      PROVE  Operations!Entry(exec[e].op, exec[e].account, Operations!Req(e).amount)
             \in {entries[i] : i \in DOMAIN entries}
  <2>1. Operations!IsInOrder(exec[e]) /\ exec[e].stage \in Operations!AfterBooking
    BY <1>1 DEF Operations!OperationsInv, Operations!BookingInv, Operations!At, Operations!AfterBooking
  <2> QED BY <1>1, <2>1 DEF Operations!IsInOrder, Operations!IsBooked, Operations!Req
<1> QED BY <1>1 DEF Operations!OperationsInv, Operations!OneEntryInv, Operations!RechargesBookedOnce

\* Recharges, for any number of operations, attempts, faults and restarts: an operation
\* that is submitted again, retried or overlaps with itself is booked once, and one
\* that ended well has booked its recharge on the account it worked on.
THEOREM UpstreamRechargesBookedOnce == ActingSpec => []RechargesBookedOnce
<1> DEFINE OInv == part = "operations" => Operations!OperationsInv
<1>1. ActingInit => OInv
  BY PartsBegin, OperationsInitHolds
<1>2. OInv /\ [ActingNext]_vars => OInv'
  BY PartsTakeTurns, OperationsNextHolds
<1>3. OInv => RechargesBookedOnce
  BY OperationsInvSuffices DEF RechargesBookedOnce
<1> QED BY <1>1, <1>2, <1>3, PTL DEF ActingSpec

-----------------------------------------------------------------------------
(* Purchases *)

bought == v1
purchase == v2
submission == v3
run == v4
order == v5
import == v7
USE DEF bought, purchase, submission, run, order, import

\* The price of an account is at most half a fen off.
LEMMA UnitIsRounded ==
  ASSUME NEW total \in Nat
  PROVE  /\ Supply!Unit(total) \in Int
         /\ 2 * (Quantity * Supply!Unit(total) - total) \in - Quantity .. Quantity
<1> DEFINE n == 2 * total + Quantity
           d == 2 * Quantity
           u == n \div d
<1>1. n \in Int /\ d \in Int /\ d > 0
  BY PurchasesAssumption
<1>2. u \in Int /\ d * u <= n /\ n < d * u + d
  <2> HIDE DEF n, d
  <2> QED BY <1>1, SMTT(30)
<1>3. d * u = 2 * (Quantity * u)
  BY <1>2, PurchasesAssumption
<1> HIDE DEF u
<1>4. Quantity * u \in Int
  BY <1>2, PurchasesAssumption
<1>5. 2 * (Quantity * u - total) \in - Quantity .. Quantity
  BY <1>2, <1>3, <1>4, PurchasesAssumption
<1> QED BY <1>2, <1>5 DEF Supply!Unit, u

\* What happens to one job leaves the invariant of the others alone.
LEMMA OthersHold ==
  ASSUME NEW j, Supply!BeginInv(j), Supply!RunInv(j),
         bought <= bought',
         purchase'[j] = purchase[j], submission'[j] = submission[j], run'[j] = run[j],
         order'[j] = order[j], import'[j] = import[j], bought \in Int, bought' \in Int, j \in Int
  PROVE  Supply!BeginInv(j)' /\ Supply!RunInv(j)'
BY SMTT(30) DEF Supply!BeginInv, Supply!RunInv

\* Persist() replaces the job, where there is one.
LEMMA Persisted ==
  ASSUME Supply!TypeInv, NEW j \in Supply!PurchaseJobs, NEW job \in Supply!Jobs, NEW at \in Supply!RunStages,
         job.state # "gone", Supply!Persist(j, job, at)
  PROVE  /\ purchase' \in [Supply!PurchaseJobs -> Supply!Jobs]
         /\ run' \in [Supply!PurchaseJobs -> [stage : Supply!RunStages, job : Supply!Jobs]]
         /\ \A k \in Supply!PurchaseJobs : k # j => purchase'[k] = purchase[k] /\ run'[k] = run[k]
         /\ \/ purchase[j] = Supply!Gone /\ purchase'[j] = purchase[j] /\ run'[j].stage = "done"
            \/ /\ purchase[j] # Supply!Gone /\ purchase'[j] = job
               /\ run'[j].stage = at /\ run'[j].job = job
<1>1. CASE purchase[j] = Supply!Gone
  <2>1. run' = [run EXCEPT ![j] = [stage |-> "done", job |-> run[j].job]] /\ purchase' = purchase
    BY <1>1, SMTT(30) DEF Supply!Persist, Supply!TypeInv
  <2> QED BY <1>1, <2>1, SMTT(30) DEF Supply!TypeInv, Supply!RunStages
<1>2. CASE purchase[j] # Supply!Gone
  <2>1. /\ run' = [run EXCEPT ![j] = [stage |-> at, job |-> job]]
        /\ purchase' = [purchase EXCEPT ![j] = job]
    BY <1>2 DEF Supply!Persist
  <2>2. purchase' \in [Supply!PurchaseJobs -> Supply!Jobs]
    BY <2>1 DEF Supply!TypeInv
  <2>3. run' \in [Supply!PurchaseJobs -> [stage : Supply!RunStages, job : Supply!Jobs]]
    BY <2>1, SMTT(30) DEF Supply!TypeInv
  <2>4. \A k \in Supply!PurchaseJobs : k # j => purchase'[k] = purchase[k] /\ run'[k] = run[k]
    BY <2>1 DEF Supply!TypeInv
  <2>5. purchase'[j] = job /\ run'[j].stage = at /\ run'[j].job = job
    BY <2>1, SMTT(30) DEF Supply!TypeInv
  <2> QED BY <1>2, <2>2, <2>3, <2>4, <2>5
<1> QED BY <1>1, <1>2

LEMMA JobsAreNumbers ==
  ASSUME Supply!TypeInv
  PROVE  bought \in Int /\ Supply!PurchaseJobs \subseteq Int
BY PurchasesAssumption DEF Supply!TypeInv, Supply!PurchaseJobs

\* A step of one job.
LEMMA OneJobHolds ==
  ASSUME Supply!PurchaseInv, NEW j \in Supply!PurchaseJobs, UNCHANGED bought, Supply!TypeInv',
         \A k \in Supply!PurchaseJobs : k # j =>
           /\ purchase'[k] = purchase[k] /\ submission'[k] = submission[k] /\ run'[k] = run[k]
           /\ order'[k] = order[k] /\ import'[k] = import[k],
         Supply!BeginInv(j)', Supply!RunInv(j)'
  PROVE  Supply!PurchaseInv'
<1>1. ASSUME NEW k \in Supply!PurchaseJobs, k # j PROVE Supply!BeginInv(k)' /\ Supply!RunInv(k)'
  BY <1>1, OthersHold, JobsAreNumbers DEF Supply!PurchaseInv
<1> QED BY <1>1 DEF Supply!PurchaseInv

\* A step of the run of a job that leaves orders and imports alone.
LEMMA RunStepHolds ==
  ASSUME Supply!PurchaseInv, NEW j \in Supply!PurchaseJobs, NEW job \in Supply!Jobs, NEW at \in Supply!RunStages,
         job.state # "gone", Supply!Persist(j, job, at), UNCHANGED <<bought, submission, order, import>>,
         Supply!BeginInv(j)', Supply!RunInv(j)'
  PROVE  Supply!PurchaseInv'
<1>1. Supply!TypeInv'
  BY Persisted DEF Supply!PurchaseInv, Supply!TypeInv
<1> QED BY <1>1, Persisted, OneJobHolds DEF Supply!PurchaseInv

\* What is common to the attempts that run.
LEMMA RunningJob ==
  ASSUME Supply!PurchaseInv, NEW j \in Supply!PurchaseJobs,
         run[j].stage \in Supply!RunStages \ {"none", "start", "done"}
  PROVE  /\ run[j].job \in Supply!Jobs /\ run[j].job.state = "running"
         /\ purchase[j] \in Supply!Jobs /\ purchase[j].state # "succeeded"
         /\ submission[j] # "refused" /\ ~ (j > bought)
BY SMTT(30) DEF Supply!PurchaseInv, Supply!TypeInv, Supply!BeginInv, Supply!RunInv, Supply!RunStages

\* An attempt that fails leaves a failed job, and whatever it ordered.
LEMMA FailsHolds ==
  ASSUME Supply!PurchaseInv, NEW j \in Supply!PurchaseJobs,
         run[j].stage \in Supply!RunStages \ {"none", "start", "done"},
         Supply!Fails(j), UNCHANGED <<bought, submission, order, import>>
  PROVE  Supply!PurchaseInv'
<1> DEFINE job == [run[j].job EXCEPT !.state = "failed"]
<1>1. job \in Supply!Jobs /\ job.state = "failed" /\ "done" \in Supply!RunStages
  BY RunningJob, SMTT(30) DEF Supply!Jobs, Supply!RunStages
<1>2. Supply!Persist(j, job, "done")
  BY DEF Supply!Fails
<1> HIDE DEF job
<1>3. run'[j].stage = "done" /\ purchase'[j].state \in {"gone", "failed"}
      /\ (purchase'[j].state = "gone" => purchase'[j] = Supply!Gone)
  BY <1>1, <1>2, Persisted DEF Supply!PurchaseInv, Supply!Gone
<1>4. Supply!BeginInv(j)' /\ Supply!RunInv(j)'
  BY <1>3, RunningJob, SMTT(30) DEF Supply!PurchaseInv, Supply!BeginInv, Supply!RunInv
<1> QED BY <1>1, <1>2, <1>4, RunStepHolds

LEMMA ReadHolds ==
  ASSUME Supply!PurchaseInv, NEW j \in Supply!PurchaseJobs, Supply!Read(j)
  PROVE  Supply!PurchaseInv'
<1>1. CASE Supply!Runs(j)
  <2> DEFINE job == [purchase[j] EXCEPT !.state = "running"]
  <2>1. /\ job \in Supply!Jobs /\ job.state = "running" /\ "quote" \in Supply!RunStages
        /\ purchase[j] # Supply!Gone
    BY <1>1, SMTT(30) DEF Supply!PurchaseInv, Supply!TypeInv, Supply!Jobs, Supply!RunStages, Supply!Runs, Supply!Gone
  <2>2. Supply!Persist(j, job, "quote") /\ run[j].stage = "start" /\ UNCHANGED <<bought, submission, order, import>>
    BY <1>1 DEF Supply!Read
  <2> HIDE DEF job
  <2>3. run'[j].stage = "quote" /\ run'[j].job = job /\ purchase'[j] = job
    BY <2>1, <2>2, Persisted DEF Supply!PurchaseInv
  <2>4. submission[j] # "refused"
    BY <1>1 DEF Supply!PurchaseInv, Supply!BeginInv, Supply!Runs
  <2>5. Supply!BeginInv(j)'
    BY <2>2, <2>3, <2>4 DEF Supply!PurchaseInv, Supply!BeginInv
  <2>6. Supply!RunInv(j)'
    BY <2>1, <2>3, SMTT(30) DEF Supply!RunInv
  <2> QED BY <2>1, <2>2, <2>5, <2>6, RunStepHolds
<1>2. CASE ~ Supply!Runs(j)
  <2>1. /\ run' = [run EXCEPT ![j] = [stage |-> "done", job |-> run[j].job]]
        /\ run[j].stage = "start" /\ UNCHANGED <<bought, purchase, submission, order, import>>
    BY <1>2, SMTT(30) DEF Supply!Read, Supply!PurchaseInv, Supply!TypeInv
  <2>2. Supply!TypeInv'
    BY <2>1, SMTT(30) DEF Supply!PurchaseInv, Supply!TypeInv, Supply!RunStages
  <2>3. run'[j].stage = "done" /\ \A k \in Supply!PurchaseJobs : k # j => run'[k] = run[k]
    BY <2>1 DEF Supply!PurchaseInv, Supply!TypeInv
  <2>4. Supply!BeginInv(j)' /\ Supply!RunInv(j)'
    BY <2>1, <2>3, SMTT(30) DEF Supply!PurchaseInv, Supply!BeginInv, Supply!RunInv
  <2> QED BY <2>1, <2>2, <2>3, <2>4, OneJobHolds
<1> QED BY <1>1, <1>2

LEMMA QuoteHolds ==
  ASSUME Supply!PurchaseInv, NEW j \in Supply!PurchaseJobs, Supply!Quote(j)
  PROVE  Supply!PurchaseInv'
<1>0. run[j].stage \in Supply!RunStages \ {"none", "start", "done"}
  BY DEF Supply!Quote, Supply!RunStages
<1>1. CASE Supply!Persist(j, run[j].job, "order")
  <2>1. "order" \in Supply!RunStages
    BY DEF Supply!RunStages
  <2>2. run'[j].stage \in {"order", "done"} /\ (run'[j].stage = "order" => run'[j].job = run[j].job)
        /\ (purchase'[j] = purchase[j] \/ purchase'[j] = run[j].job)
    BY <1>0, <1>1, <2>1, RunningJob, Persisted DEF Supply!PurchaseInv
  <2>3. Supply!BeginInv(j)' /\ Supply!RunInv(j)'
    BY <1>0, <2>2, RunningJob, SMTT(30) DEF Supply!PurchaseInv, Supply!BeginInv, Supply!RunInv, Supply!Quote
  <2> QED BY <1>0, <1>1, <2>1, <2>3, RunningJob, RunStepHolds DEF Supply!Quote
<1>2. CASE Supply!Fails(j)
  BY <1>0, <1>2, FailsHolds DEF Supply!Quote
<1> QED BY <1>1, <1>2 DEF Supply!Quote

\* What a kept job becomes when its attempt goes on.
LEMMA RunGoesOn ==
  ASSUME Supply!PurchaseInv, NEW j \in Supply!PurchaseJobs, NEW job \in Supply!Jobs,
         NEW at \in {"order", "wait", "download", "import", "imported"},
         run[j].stage \in Supply!RunStages \ {"none", "start", "done"},
         job.state = "running", Supply!Persist(j, job, at)
  PROVE  /\ run'[j].stage \in {at, "done"}
         /\ run'[j].stage = at => run'[j].job = job /\ purchase'[j] = job
         /\ purchase'[j] \in {Supply!Gone, job}
         /\ \A k \in Supply!PurchaseJobs : k # j => purchase'[k] = purchase[k] /\ run'[k] = run[k]
         /\ purchase' \in [Supply!PurchaseJobs -> Supply!Jobs]
         /\ run' \in [Supply!PurchaseJobs -> [stage : Supply!RunStages, job : Supply!Jobs]]
<1>1. at \in Supply!RunStages
  BY DEF Supply!RunStages
<1> QED BY <1>1, Persisted DEF Supply!PurchaseInv

LEMMA CreateOrderHolds ==
  ASSUME Supply!PurchaseInv, NEW j \in Supply!PurchaseJobs, Supply!CreateOrder(j)
  PROVE  Supply!PurchaseInv'
<1>0. run[j].stage = "order" /\ run[j].stage \in Supply!RunStages \ {"none", "start", "done"}
      /\ UNCHANGED <<bought, submission, import>>
  BY DEF Supply!CreateOrder, Supply!RunStages
<1>1. PICK total \in Totals :
        order' = IF order[j] = Supply!NoOrder THEN [order EXCEPT ![j] = [state |-> "open", total |-> total]] ELSE order
  BY DEF Supply!CreateOrder
<1>2. /\ order' \in [Supply!PurchaseJobs -> [state : {"none", "open", "completed", "cancelled"}, total : Nat]]
      /\ order'[j] # Supply!NoOrder /\ \A k \in Supply!PurchaseJobs : k # j => order'[k] = order[k]
  BY <1>1, PurchasesAssumption, SMTT(30) DEF Supply!PurchaseInv, Supply!TypeInv, Supply!NoOrder
<1>3. CASE Supply!Persist(j, [run[j].job EXCEPT !.known = TRUE], "wait")
  <2> DEFINE job == [run[j].job EXCEPT !.known = TRUE]
  <2>0. run[j].job \in Supply!Jobs /\ run[j].job.state = "running"
    BY <1>0, RunningJob
  <2>1. job \in Supply!Jobs /\ job.state = "running" /\ job.known
    BY <2>0 DEF Supply!Jobs
  <2>2. Supply!Persist(j, job, "wait")
    BY <1>3
  <2> HIDE DEF job
  <2>3. /\ run'[j].stage \in {"wait", "done"}
        /\ run'[j].stage = "wait" => run'[j].job = job /\ purchase'[j] = job
        /\ purchase'[j] \in {Supply!Gone, job}
        /\ \A k \in Supply!PurchaseJobs : k # j => purchase'[k] = purchase[k] /\ run'[k] = run[k]
        /\ purchase' \in [Supply!PurchaseJobs -> Supply!Jobs]
        /\ run' \in [Supply!PurchaseJobs -> [stage : Supply!RunStages, job : Supply!Jobs]]
    BY <1>0, <2>1, <2>2, RunGoesOn
  <2>4. Supply!TypeInv'
    BY <1>0, <1>2, <2>3 DEF Supply!PurchaseInv, Supply!TypeInv
  <2>5. Supply!BeginInv(j)'
    BY <1>0, <2>3, RunningJob DEF Supply!BeginInv
  <2>6. Supply!RunInv(j)'
    BY <1>2, <2>1, <2>3, SMTT(30) DEF Supply!RunInv, Supply!Gone
  <2> QED BY <1>0, <1>2, <2>3, <2>4, <2>5, <2>6, OneJobHolds
<1>4. CASE Supply!Fails(j)
  <2> DEFINE job == [run[j].job EXCEPT !.state = "failed"]
  <2>1. job \in Supply!Jobs /\ job.state = "failed" /\ "done" \in Supply!RunStages
    BY <1>0, RunningJob, SMTT(30) DEF Supply!Jobs, Supply!RunStages
  <2>2. Supply!Persist(j, job, "done")
    BY <1>4 DEF Supply!Fails
  <2> HIDE DEF job
  <2>3. /\ run'[j].stage = "done" /\ purchase'[j] \in {Supply!Gone, job}
        /\ \A k \in Supply!PurchaseJobs : k # j => purchase'[k] = purchase[k] /\ run'[k] = run[k]
        /\ purchase' \in [Supply!PurchaseJobs -> Supply!Jobs]
        /\ run' \in [Supply!PurchaseJobs -> [stage : Supply!RunStages, job : Supply!Jobs]]
    BY <2>1, <2>2, Persisted DEF Supply!PurchaseInv
  <2>4. Supply!TypeInv'
    BY <1>0, <1>2, <2>3 DEF Supply!PurchaseInv, Supply!TypeInv
  <2>5. Supply!BeginInv(j)'
    BY <1>0, <2>3, RunningJob DEF Supply!BeginInv
  <2>6. Supply!RunInv(j)'
    BY <2>1, <2>3, SMTT(30) DEF Supply!RunInv, Supply!Gone
  <2> QED BY <1>0, <1>2, <2>3, <2>4, <2>5, <2>6, OneJobHolds
<1> QED BY <1>3, <1>4 DEF Supply!CreateOrder

LEMMA FulfilHolds ==
  ASSUME Supply!PurchaseInv, NEW j \in Supply!PurchaseJobs, Supply!Fulfil(j)
  PROVE  Supply!PurchaseInv'
<1>1. PICK s \in {"completed", "cancelled"} : order' = [order EXCEPT ![j].state = s]
  BY DEF Supply!Fulfil
<1>2. order[j].state = "open" /\ UNCHANGED <<bought, purchase, submission, run, import>>
  BY DEF Supply!Fulfil
<1>3. /\ order' \in [Supply!PurchaseJobs -> [state : {"none", "open", "completed", "cancelled"}, total : Nat]]
      /\ order'[j].state = s /\ order'[j].total = order[j].total
      /\ \A k \in Supply!PurchaseJobs : k # j => order'[k] = order[k]
  BY <1>1, SMTT(30) DEF Supply!PurchaseInv, Supply!TypeInv
<1>4. Supply!TypeInv'
  BY <1>2, <1>3 DEF Supply!PurchaseInv, Supply!TypeInv
<1>5. order[j] # Supply!NoOrder /\ order[j].state # "completed" /\ order'[j] # Supply!NoOrder
  BY <1>2, <1>3 DEF Supply!NoOrder
<1>6. /\ run[j].stage \notin {"none", "start", "quote"} /\ submission[j] # "refused"
      /\ run[j].stage \notin {"download", "import", "imported"}
      /\ purchase[j].state # "succeeded"
  BY <1>5 DEF Supply!PurchaseInv, Supply!BeginInv, Supply!RunInv
<1>7. Supply!BeginInv(j)'
  BY <1>2, <1>6 DEF Supply!PurchaseInv, Supply!BeginInv
<1>8. Supply!RunInv(j)'
  BY <1>2, <1>5, <1>6 DEF Supply!PurchaseInv, Supply!RunInv
<1> QED BY <1>2, <1>3, <1>4, <1>7, <1>8, OneJobHolds

\* The steps of a run that end well: Persist() with what they learned.
LEMMA OrderStatusHolds ==
  ASSUME Supply!PurchaseInv, NEW j \in Supply!PurchaseJobs, Supply!OrderStatus(j)
  PROVE  Supply!PurchaseInv'
<1>1. /\ run[j].stage = "wait" /\ run[j].stage \in Supply!RunStages \ {"none", "start", "done"}
      /\ order[j].state # "open" /\ UNCHANGED <<bought, submission, order, import>>
  BY DEF Supply!OrderStatus, Supply!RunStages
<1>2. CASE order[j].state = "completed"
  <2> DEFINE job == [run[j].job EXCEPT !.unit = Supply!Unit(order[j].total)]
  <2>0. run[j].job \in Supply!Jobs /\ run[j].job.state = "running" /\ Supply!Unit(order[j].total) \in Int
        /\ run[j].job.known
    BY <1>1, RunningJob, UnitIsRounded DEF Supply!PurchaseInv, Supply!TypeInv, Supply!RunInv
  <2>1. job \in Supply!Jobs /\ job.state = "running" /\ job.unit = Supply!Unit(order[j].total) /\ job.known
    BY <2>0 DEF Supply!Jobs
  <2>2. Supply!Persist(j, job, "download")
    BY <1>2 DEF Supply!OrderStatus
  <2> HIDE DEF job
  <2>3. /\ run'[j].stage \in {"download", "done"}
        /\ run'[j].stage = "download" => run'[j].job = job /\ purchase'[j] = job
        /\ purchase'[j] \in {Supply!Gone, job}
    BY <1>1, <2>1, <2>2, RunGoesOn
  <2>4. Supply!BeginInv(j)'
    BY <1>1, <2>3, RunningJob DEF Supply!BeginInv
  <2>5. order[j] # Supply!NoOrder
    BY <1>2 DEF Supply!NoOrder
  <2>6. Supply!RunInv(j)'
    <3>1. CASE run'[j].stage = "done"
      <4>1. CASE purchase'[j] = Supply!Gone
        BY <3>1, <4>1 DEF Supply!RunInv, Supply!Gone
      <4>2. CASE purchase'[j] # Supply!Gone
        BY <2>1, <2>3, <3>1, <4>2 DEF Supply!RunInv
      <4> QED BY <4>1, <4>2
    <3>2. CASE run'[j].stage = "download"
      BY <1>1, <1>2, <2>1, <2>3, <2>5, <3>2 DEF Supply!RunInv, Supply!Gone
    <3> QED BY <2>3, <3>1, <3>2
  <2>7. "download" \in Supply!RunStages
    BY DEF Supply!RunStages
  <2> QED BY <1>1, <2>1, <2>2, <2>4, <2>6, <2>7, RunStepHolds
<1>3. CASE Supply!Fails(j)
  BY <1>1, <1>3, FailsHolds
<1> QED BY <1>2, <1>3 DEF Supply!OrderStatus

LEMMA DownloadHolds ==
  ASSUME Supply!PurchaseInv, NEW j \in Supply!PurchaseJobs, Supply!Download(j)
  PROVE  Supply!PurchaseInv'
<1>1. /\ run[j].stage = "download" /\ run[j].stage \in Supply!RunStages \ {"none", "start", "done"}
      /\ UNCHANGED <<bought, submission, order, import>>
  BY DEF Supply!Download, Supply!RunStages
<1>2. CASE Supply!Persist(j, run[j].job, "import")
  <2>1. /\ run[j].job \in Supply!Jobs /\ run[j].job.state = "running" /\ run[j].job.known
        /\ order[j] # Supply!NoOrder
        /\ order[j].state = "completed" /\ run[j].job.unit = Supply!Unit(order[j].total)
    BY <1>1, RunningJob DEF Supply!PurchaseInv, Supply!RunInv
  <2>2. /\ run'[j].stage \in {"import", "done"}
        /\ run'[j].stage = "import" => run'[j].job = run[j].job /\ purchase'[j] = run[j].job
        /\ purchase'[j] \in {Supply!Gone, run[j].job}
    BY <1>1, <1>2, <2>1, RunGoesOn
  <2>3. Supply!BeginInv(j)'
    BY <1>1, <2>2, RunningJob DEF Supply!BeginInv
  <2>4. Supply!RunInv(j)'
    <3>1. CASE run'[j].stage = "done"
      <4>1. CASE purchase'[j] = Supply!Gone
        BY <3>1, <4>1 DEF Supply!RunInv, Supply!Gone
      <4>2. CASE purchase'[j] # Supply!Gone
        BY <2>1, <2>2, <3>1, <4>2 DEF Supply!RunInv
      <4> QED BY <4>1, <4>2
    <3>2. CASE run'[j].stage = "import"
      BY <1>1, <2>1, <2>2, <3>2 DEF Supply!RunInv, Supply!Gone
    <3> QED BY <2>2, <3>1, <3>2
  <2>5. "import" \in Supply!RunStages
    BY DEF Supply!RunStages
  <2> QED BY <1>1, <1>2, <2>1, <2>3, <2>4, <2>5, RunStepHolds
<1>3. CASE Supply!Fails(j)
  BY <1>1, <1>3, FailsHolds
<1> QED BY <1>2, <1>3 DEF Supply!Download

LEMMA SubmitImportHolds ==
  ASSUME Supply!PurchaseInv, NEW j \in Supply!PurchaseJobs, Supply!SubmitImport(j)
  PROVE  Supply!PurchaseInv'
<1>1. /\ run[j].stage = "import" /\ run[j].stage \in Supply!RunStages \ {"none", "start", "done"}
      /\ UNCHANGED <<bought, submission, order>>
  BY DEF Supply!SubmitImport, Supply!RunStages
<1>2. ASSUME import' = [import EXCEPT ![j] = [state |-> "queued", unit |-> run[j].job.unit]],
             Supply!Persist(j, run[j].job, "imported")
      PROVE  Supply!PurchaseInv'
  <2>1. /\ run[j].job \in Supply!Jobs /\ run[j].job.state = "running" /\ run[j].job.known
        /\ order[j] # Supply!NoOrder
        /\ order[j].state = "completed" /\ run[j].job.unit = Supply!Unit(order[j].total)
    BY <1>1, RunningJob DEF Supply!PurchaseInv, Supply!RunInv
  <2>2. /\ run'[j].stage \in {"imported", "done"}
        /\ run'[j].stage = "imported" => run'[j].job = run[j].job /\ purchase'[j] = run[j].job
        /\ purchase'[j] \in {Supply!Gone, run[j].job}
        /\ \A k \in Supply!PurchaseJobs : k # j => purchase'[k] = purchase[k] /\ run'[k] = run[k]
        /\ purchase' \in [Supply!PurchaseJobs -> Supply!Jobs]
        /\ run' \in [Supply!PurchaseJobs -> [stage : Supply!RunStages, job : Supply!Jobs]]
    BY <1>1, <1>2, <2>1, RunGoesOn
  <2>3. run[j].job.unit \in Int
    BY <2>1 DEF Supply!Jobs
  <2>4. /\ import' \in [Supply!PurchaseJobs -> [state : {"none", "queued", "succeeded", "failed"}, unit : Int]]
        /\ import'[j].unit = run[j].job.unit /\ \A k \in Supply!PurchaseJobs : k # j => import'[k] = import[k]
    BY <1>2, <2>3 DEF Supply!PurchaseInv, Supply!TypeInv
  <2>5. Supply!TypeInv'
    BY <1>1, <2>2, <2>4 DEF Supply!PurchaseInv, Supply!TypeInv
  <2>6. Supply!BeginInv(j)'
    BY <1>1, <2>2, RunningJob DEF Supply!BeginInv
  <2>7. Supply!RunInv(j)'
    BY <1>1, <2>1, <2>2, <2>4 DEF Supply!RunInv, Supply!Gone
  <2> QED BY <1>1, <2>2, <2>4, <2>5, <2>6, <2>7, OneJobHolds
<1>3. ASSUME Supply!Fails(j), UNCHANGED import
      PROVE  Supply!PurchaseInv'
  BY <1>1, <1>3, FailsHolds
<1> QED BY <1>2, <1>3 DEF Supply!SubmitImport

LEMMA PurchaseImportEndsHolds ==
  ASSUME Supply!PurchaseInv, NEW j \in Supply!PurchaseJobs, Supply!ImportEnds(j)
  PROVE  Supply!PurchaseInv'
<1>1. PICK s \in {"succeeded", "failed"} : import' = [import EXCEPT ![j].state = s]
  BY DEF Supply!ImportEnds
<1>2. import[j].state = "queued" /\ UNCHANGED <<bought, purchase, submission, run, order>>
  BY DEF Supply!ImportEnds
<1>3. /\ import' \in [Supply!PurchaseJobs -> [state : {"none", "queued", "succeeded", "failed"}, unit : Int]]
      /\ import'[j].unit = import[j].unit /\ \A k \in Supply!PurchaseJobs : k # j => import'[k] = import[k]
  BY <1>1, SMTT(30) DEF Supply!PurchaseInv, Supply!TypeInv
<1>4. Supply!TypeInv'
  BY <1>2, <1>3 DEF Supply!PurchaseInv, Supply!TypeInv
<1>5. Supply!BeginInv(j)'
  BY <1>2 DEF Supply!PurchaseInv, Supply!BeginInv
<1>6. purchase[j].state # "succeeded"
  BY <1>2 DEF Supply!PurchaseInv, Supply!RunInv
<1>7. Supply!RunInv(j)'
  BY <1>2, <1>3, <1>6 DEF Supply!PurchaseInv, Supply!RunInv
<1> QED BY <1>2, <1>3, <1>4, <1>5, <1>7, OneJobHolds

LEMMA PurchaseImportStatusHolds ==
  ASSUME Supply!PurchaseInv, NEW j \in Supply!PurchaseJobs, Supply!ImportStatus(j)
  PROVE  Supply!PurchaseInv'
<1>1. /\ run[j].stage = "imported" /\ run[j].stage \in Supply!RunStages \ {"none", "start", "done"}
      /\ UNCHANGED <<bought, submission, order, import>>
  BY DEF Supply!ImportStatus, Supply!RunStages
<1>2. CASE import[j].state = "succeeded"
  <2> DEFINE job == [run[j].job EXCEPT !.state = "succeeded"]
  <2>1. /\ run[j].job \in Supply!Jobs /\ order[j] # Supply!NoOrder
        /\ order[j].state = "completed" /\ import[j].unit = Supply!Unit(order[j].total)
    BY <1>1, RunningJob DEF Supply!PurchaseInv, Supply!RunInv
  <2>2. job \in Supply!Jobs /\ job.state = "succeeded" /\ "done" \in Supply!RunStages
    BY <2>1 DEF Supply!Jobs, Supply!RunStages
  <2>3. Supply!Persist(j, job, "done")
    BY <1>2 DEF Supply!ImportStatus
  <2> HIDE DEF job
  <2>4. run'[j].stage = "done" /\ purchase'[j] \in {Supply!Gone, job}
    BY <2>2, <2>3, Persisted DEF Supply!PurchaseInv
  <2>5. Supply!BeginInv(j)'
    BY <1>1, <2>4, RunningJob DEF Supply!BeginInv
  <2>6. Supply!RunInv(j)'
    <3>1. CASE purchase'[j] = Supply!Gone
      BY <2>4, <3>1 DEF Supply!RunInv, Supply!Gone
    <3>2. CASE purchase'[j] = job
      BY <1>1, <1>2, <2>1, <2>2, <2>4, <3>2 DEF Supply!RunInv
    <3> QED BY <2>4, <3>1, <3>2
  <2> QED BY <1>1, <2>2, <2>3, <2>5, <2>6, RunStepHolds
<1>3. CASE Supply!Fails(j)
  BY <1>1, <1>3, FailsHolds
<1> QED BY <1>2, <1>3 DEF Supply!ImportStatus

LEMMA SubmitHolds ==
  ASSUME Supply!PurchaseInv, Supply!Submit
  PROVE  Supply!PurchaseInv'
<1>1. /\ bought < JobCount /\ bought' = bought + 1 /\ bought' \in Supply!PurchaseJobs
      /\ UNCHANGED <<run, order, import>>
  BY PurchasesAssumption DEF Supply!Submit, Supply!PurchaseInv, Supply!TypeInv, Supply!PurchaseJobs
<1>2. /\ submission' \in [Supply!PurchaseJobs -> {"none", "pending", "accepted", "refused", "failed", "lost"}]
      /\ submission'[bought'] = "pending"
      /\ \A k \in Supply!PurchaseJobs : k # bought' => submission'[k] = submission[k]
  BY <1>1 DEF Supply!Submit, Supply!PurchaseInv, Supply!TypeInv
<1>3. /\ purchase' \in [Supply!PurchaseJobs -> Supply!Jobs]
      /\ purchase'[bought'] = Supply!Queued
      /\ \A k \in Supply!PurchaseJobs : k # bought' => purchase'[k] \in {Supply!Gone, purchase[k]}
  <2>1. Supply!Queued \in Supply!Jobs /\ Supply!Gone \in Supply!Jobs
    BY DEF Supply!Queued, Supply!Gone, Supply!Jobs
  <2>2. purchase' = [j \in Supply!PurchaseJobs |->
          IF j = bought' THEN Supply!Queued ELSE IF j <= bought' - KeptJobs THEN Supply!Gone ELSE purchase[j]]
    BY DEF Supply!Submit
  <2> QED BY <1>1, <2>1, <2>2 DEF Supply!PurchaseInv, Supply!TypeInv
<1>4. Supply!TypeInv'
  BY <1>1, <1>2, <1>3, PurchasesAssumption DEF Supply!PurchaseInv, Supply!TypeInv, Supply!PurchaseJobs
<1>5. ASSUME NEW k \in Supply!PurchaseJobs
      PROVE  Supply!BeginInv(k)' /\ Supply!RunInv(k)'
  <2>1. CASE k = bought'
    <3>1. run[k].stage = "none" /\ k > bought
      BY <1>1, <2>1, JobsAreNumbers DEF Supply!PurchaseInv, Supply!BeginInv
    <3>2. Supply!BeginInv(k)'
      BY <1>1, <1>2, <2>1, <3>1, JobsAreNumbers DEF Supply!PurchaseInv, Supply!BeginInv
    <3>3. Supply!RunInv(k)'
      BY <1>1, <1>3, <2>1, <3>1 DEF Supply!RunInv, Supply!Queued
    <3> QED BY <3>2, <3>3
  <2>2. CASE k # bought'
    <3>1. Supply!BeginInv(k)'
      BY <1>1, <1>2, <1>3, <2>2, JobsAreNumbers, SMTT(30) DEF Supply!PurchaseInv, Supply!BeginInv, Supply!Gone
    <3>2. Supply!RunInv(k)'
      BY <1>1, <1>3, <2>2, SMTT(30) DEF Supply!PurchaseInv, Supply!RunInv, Supply!Gone
    <3> QED BY <3>1, <3>2
  <2> QED BY <2>1, <2>2
<1> QED BY <1>4, <1>5 DEF Supply!PurchaseInv

LEMMA SubmissionHolds ==
  ASSUME Supply!PurchaseInv, NEW j \in Supply!PurchaseJobs, Supply!SubmissionFails(j)
  PROVE  Supply!PurchaseInv'
<1>1. /\ submission[j] = "pending" /\ UNCHANGED <<bought, run, order, import>>
      /\ submission' = [submission EXCEPT ![j] = IF run[j].stage \in {"none", "start"} THEN "refused" ELSE "failed"]
      /\ purchase' = IF purchase[j] = Supply!Gone THEN purchase ELSE [purchase EXCEPT ![j].state = "failed"]
  BY DEF Supply!SubmissionFails
<1>2. /\ submission' \in [Supply!PurchaseJobs -> {"none", "pending", "accepted", "refused", "failed", "lost"}]
      /\ submission'[j] = "refused" => run[j].stage \in {"none", "start"}
      /\ \A k \in Supply!PurchaseJobs : k # j => submission'[k] = submission[k]
  BY <1>1 DEF Supply!PurchaseInv, Supply!TypeInv
<1>3. /\ purchase' \in [Supply!PurchaseJobs -> Supply!Jobs]
      /\ \/ purchase[j] = Supply!Gone /\ purchase'[j] = purchase[j]
         \/ purchase[j] # Supply!Gone /\ purchase'[j].state = "failed" /\ purchase'[j].known = purchase[j].known
      /\ \A k \in Supply!PurchaseJobs : k # j => purchase'[k] = purchase[k]
  BY <1>1, SMTT(30) DEF Supply!PurchaseInv, Supply!TypeInv, Supply!Jobs
<1>4. Supply!TypeInv'
  BY <1>1, <1>2, <1>3 DEF Supply!PurchaseInv, Supply!TypeInv
<1>5. ~ (j > bought)
  BY <1>1 DEF Supply!PurchaseInv, Supply!BeginInv
<1>6. Supply!BeginInv(j)'
  BY <1>1, <1>2, <1>3, <1>5, SMTT(30) DEF Supply!PurchaseInv, Supply!BeginInv, Supply!Gone
<1>7. Supply!RunInv(j)'
  BY <1>1, <1>3, SMTT(30) DEF Supply!PurchaseInv, Supply!RunInv, Supply!Gone
<1> QED BY <1>1, <1>2, <1>3, <1>4, <1>6, <1>7, OneJobHolds

LEMMA StartedHolds ==
  ASSUME Supply!PurchaseInv, NEW j \in Supply!PurchaseJobs, Supply!Started(j)
  PROVE  Supply!PurchaseInv'
<1>1. /\ submission[j] = "pending" /\ run[j].stage = "none" /\ run' = [run EXCEPT ![j].stage = "start"]
      /\ UNCHANGED <<bought, purchase, submission, order, import>>
  BY DEF Supply!Started
<1>2. /\ run' \in [Supply!PurchaseJobs -> [stage : Supply!RunStages, job : Supply!Jobs]]
      /\ run'[j].stage = "start" /\ \A k \in Supply!PurchaseJobs : k # j => run'[k] = run[k]
  BY <1>1, SMTT(30) DEF Supply!PurchaseInv, Supply!TypeInv, Supply!RunStages
<1>3. Supply!TypeInv'
  BY <1>1, <1>2 DEF Supply!PurchaseInv, Supply!TypeInv
<1>4. Supply!BeginInv(j)'
  BY <1>1, <1>2 DEF Supply!PurchaseInv, Supply!BeginInv
<1>5. Supply!RunInv(j)'
  BY <1>1, <1>2, SMTT(30) DEF Supply!PurchaseInv, Supply!RunInv
<1> QED BY <1>1, <1>2, <1>3, <1>4, <1>5, OneJobHolds

LEMMA SubmittedHolds ==
  ASSUME Supply!PurchaseInv, NEW j \in Supply!PurchaseJobs, Supply!Submitted(j)
  PROVE  Supply!PurchaseInv'
<1>1. /\ submission[j] = "pending" /\ submission' = [submission EXCEPT ![j] = "accepted"]
      /\ UNCHANGED <<bought, purchase, run, order, import>>
  BY DEF Supply!Submitted
<1>2. Supply!TypeInv'
  BY <1>1 DEF Supply!PurchaseInv, Supply!TypeInv
<1>3. submission'[j] = "accepted" /\ \A k \in Supply!PurchaseJobs : k # j => submission'[k] = submission[k]
  BY <1>1 DEF Supply!PurchaseInv, Supply!TypeInv
<1>4. Supply!BeginInv(j)' /\ Supply!RunInv(j)'
  BY <1>1, <1>3 DEF Supply!PurchaseInv, Supply!BeginInv, Supply!RunInv
<1> QED BY <1>1, <1>2, <1>3, <1>4, OneJobHolds

LEMMA PurchasesRestartHolds ==
  ASSUME Supply!PurchaseInv, Supply!Restart
  PROVE  Supply!PurchaseInv'
<1>1. Supply!Gone \in Supply!Jobs /\ "done" \in Supply!RunStages
  BY DEF Supply!Gone, Supply!Jobs, Supply!RunStages
<1>2. /\ purchase' = [j \in Supply!PurchaseJobs |-> Supply!Gone]
      /\ run' = [j \in Supply!PurchaseJobs |->
                   IF run[j].stage \in {"none", "start"} THEN run[j] ELSE [run[j] EXCEPT !.stage = "done"]]
      /\ submission' = [j \in Supply!PurchaseJobs |-> IF submission[j] = "pending" THEN "lost" ELSE submission[j]]
      /\ UNCHANGED <<bought, order, import>>
  BY DEF Supply!Restart
<1>3. ASSUME NEW j \in Supply!PurchaseJobs
      PROVE  /\ run'[j] \in [stage : Supply!RunStages, job : Supply!Jobs]
             /\ run'[j].stage = IF run[j].stage \in {"none", "start"} THEN run[j].stage ELSE "done"
  BY <1>1, <1>2, SMTT(30) DEF Supply!PurchaseInv, Supply!TypeInv
<1>4. Supply!TypeInv'
  <2>1. run' \in [Supply!PurchaseJobs -> [stage : Supply!RunStages, job : Supply!Jobs]]
    BY <1>2, <1>3
  <2> QED BY <1>1, <1>2, <2>1 DEF Supply!PurchaseInv, Supply!TypeInv
<1>5. ASSUME NEW j \in Supply!PurchaseJobs
      PROVE  Supply!BeginInv(j)' /\ Supply!RunInv(j)'
  <2>1. purchase'[j] = Supply!Gone /\ (submission'[j] = submission[j] \/ submission[j] = "pending")
        /\ submission'[j] # "pending"
    BY <1>2
  <2>2. Supply!BeginInv(j)'
    BY <1>2, <1>3, <2>1, SMTT(30) DEF Supply!PurchaseInv, Supply!BeginInv, Supply!Gone
  <2>3. Supply!RunInv(j)'
    BY <1>2, <1>3, <2>1, SMTT(30) DEF Supply!RunInv, Supply!Gone
  <2> QED BY <2>2, <2>3
<1> QED BY <1>4, <1>5 DEF Supply!PurchaseInv

LEMMA PurchasesNextHolds ==
  ASSUME Supply!PurchaseInv, [Supply!Next]_(Supply!purchaseVars)
  PROVE  Supply!PurchaseInv'
<1>1. ASSUME NEW j \in Supply!PurchaseJobs, Supply!StepFails(j) PROVE Supply!PurchaseInv'
  BY <1>1, FailsHolds DEF Supply!StepFails, Supply!RunStages
<1>2. ASSUME NEW j \in Supply!PurchaseJobs,
             Supply!Started(j) \/ Supply!Submitted(j) \/ Supply!SubmissionFails(j) \/ Supply!Read(j) \/ Supply!Quote(j)
      PROVE  Supply!PurchaseInv'
  BY <1>2, StartedHolds, SubmittedHolds, SubmissionHolds, ReadHolds, QuoteHolds
<1>3. ASSUME NEW j \in Supply!PurchaseJobs,
             \/ Supply!CreateOrder(j) \/ Supply!Fulfil(j) \/ Supply!OrderStatus(j) \/ Supply!Download(j)
             \/ Supply!SubmitImport(j) \/ Supply!ImportEnds(j) \/ Supply!ImportStatus(j)
      PROVE  Supply!PurchaseInv'
  BY <1>3, CreateOrderHolds, FulfilHolds, OrderStatusHolds, DownloadHolds, SubmitImportHolds, PurchaseImportEndsHolds,
     PurchaseImportStatusHolds
<1>4. CASE UNCHANGED Supply!purchaseVars
  BY <1>4 DEF Supply!purchaseVars, Supply!PurchaseInv, Supply!TypeInv, Supply!BeginInv, Supply!RunInv
<1> QED BY <1>1, <1>2, <1>3, <1>4, SubmitHolds, PurchasesRestartHolds DEF Supply!Next

LEMMA PurchasesInitHolds == ASSUME Supply!Init PROVE Supply!PurchaseInv
<1>1. Supply!Gone \in Supply!Jobs /\ Supply!Queued \in Supply!Jobs /\ "none" \in Supply!RunStages
  BY DEF Supply!Gone, Supply!Queued, Supply!Jobs, Supply!RunStages
<1>2. Supply!TypeInv
  BY <1>1, PurchasesAssumption, SMTT(30) DEF Supply!Init, Supply!TypeInv, Supply!NoRun, Supply!NoOrder, Supply!NoImport
<1>3. ASSUME NEW j \in Supply!PurchaseJobs PROVE Supply!BeginInv(j) /\ Supply!RunInv(j)
  BY SMTT(30) DEF Supply!Init, Supply!BeginInv, Supply!RunInv, Supply!NoRun, Supply!Gone
<1> QED BY <1>2, <1>3 DEF Supply!PurchaseInv

LEMMA PurchaseInvSuffices ==
  ASSUME Supply!PurchaseInv
  PROVE  Supply!PurchasesAreAccounted
<1>1. ASSUME NEW j \in Supply!PurchaseJobs, purchase[j].state = "succeeded"
      PROVE  /\ order[j].state = "completed" /\ import[j].state = "succeeded"
             /\ 2 * (Quantity * import[j].unit - order[j].total) \in - Quantity .. Quantity
  <2>1. import[j].unit = Supply!Unit(order[j].total) /\ order[j].state = "completed" /\ import[j].state = "succeeded"
    BY <1>1 DEF Supply!PurchaseInv, Supply!RunInv
  <2>2. order[j].total \in Nat
    BY DEF Supply!PurchaseInv, Supply!TypeInv
  <2> QED BY <2>1, <2>2, UnitIsRounded
<1>2. ASSUME NEW j \in Supply!PurchaseJobs
      PROVE  /\ submission[j] = "refused" => order[j] = Supply!NoOrder
             /\ run[j].stage \in {"wait", "download", "import", "imported"} /\ purchase[j] # Supply!Gone => purchase[j].known
  BY DEF Supply!PurchaseInv, Supply!BeginInv, Supply!RunInv
<1> QED BY <1>1, <1>2 DEF Supply!PurchasesAreAccounted

-----------------------------------------------------------------------------
(* Recovery *)

recoveryJob == v1
worker == v2
card == v3
retries == v4
output == v5
imports == v6
verified == v7
USE DEF recoveryJob, worker, card, retries, output, imports, verified, Recovery!Steps

LEMMA RecoveryInitHolds == ASSUME Recovery!Init PROVE Recovery!RecoveryInv
<1>1. Recovery!NewJob \in Recovery!Copies /\ "health" \in Recovery!Stages
  BY DEF Recovery!NewJob, Recovery!Copies, Recovery!Stages, Recovery!NoImport
<1>2. Recovery!TypeInv
  <2>1. worker \in [Workers -> [stage : Recovery!Stages, step : Recovery!Steps, job : Recovery!Copies]]
    BY <1>1 DEF Recovery!Init, Recovery!Free
  <2>2. card \in [needs : BOOLEAN, reclaimed : BOOLEAN] /\ ~ card.reclaimed
    BY DEF Recovery!Init
  <2> QED BY <1>1, <2>1, <2>2 DEF Recovery!Init, Recovery!TypeInv
<1>3. Recovery!CopyInv(Recovery!NewJob)
  BY DEF Recovery!CopyInv, Recovery!NewJob, Recovery!NoImport, Recovery!Init
<1>4. \A w \in Workers : worker[w].job = Recovery!NewJob /\ worker[w].stage = "health"
  BY DEF Recovery!Init, Recovery!Free
<1>5. ~ card.reclaimed
  BY DEF Recovery!Init
<1> QED BY <1>2, <1>3, <1>4, <1>5 DEF Recovery!Init, Recovery!RecoveryInv

\* A copy of the job stays sound while imports are added and end, accounts are verified
\* and stages are asked for.
LEMMA CopyStays ==
  ASSUME Recovery!TypeInv, NEW job \in Recovery!Copies, Recovery!CopyInv(job), imports' \in Seq(Recovery!Accepted),
         Len(imports) <= Len(imports'),
         \A i \in 1 .. Len(imports) : imports[i].state = "succeeded" => imports'[i].state = "succeeded",
         verified \subseteq verified', retries \subseteq retries', card'.needs = card.needs
  PROVE  Recovery!CopyInv(job)'
BY SMTT(30) DEF Recovery!CopyInv, Recovery!MayReclaim, Recovery!TypeInv, Recovery!NoImport, Recovery!Copies

\* A step of one worker, which has a sound copy of the job in hand.
LEMMA WorkerHolds ==
  ASSUME Recovery!RecoveryInv, NEW w \in Workers, NEW at \in Recovery!Stages, NEW job \in Recovery!Copies,
         worker' \in [Workers -> [stage : Recovery!Stages, step : Recovery!Steps, job : Recovery!Copies]],
         worker'[w].stage = at, worker'[w].job = job, \A v \in Workers : v # w => worker'[v] = worker[v],
         Recovery!CopyInv(job)', (at = "reclaim" => Recovery!MayReclaim'),
         recoveryJob' \in Recovery!Copies, Recovery!CopyInv(recoveryJob)',
         card'.needs = card.needs, card' \in [needs : BOOLEAN, reclaimed : BOOLEAN],
         card'.reclaimed => card.reclaimed \/ Recovery!MayReclaim,
         output' \in {"none", "whole"},
         imports' \in Seq(Recovery!Accepted),
         Len(imports) <= Len(imports'),
         \A i \in 1 .. Len(imports) : imports'[i].state = imports[i].state,
         verified \subseteq verified', retries \subseteq retries'
  PROVE  Recovery!RecoveryInv'
<1> USE DEF Recovery!RecoveryInv
<1>1. worker'[w].stage = at /\ worker'[w].job = job /\ \A v \in Workers : v # w => worker'[v] = worker[v]
  OBVIOUS
<1>2. Recovery!TypeInv'
  BY DEF Recovery!TypeInv
<1>3. Recovery!MayReclaim => Recovery!MayReclaim'
  BY DEF Recovery!MayReclaim
<1>4. ASSUME NEW v \in Workers
      PROVE  Recovery!CopyInv(worker[v].job)' /\ (worker'[v].stage = "reclaim" => Recovery!MayReclaim')
  <2>1. CASE v = w
    BY <1>1, <2>1
  <2>2. CASE v # w
    <3>1. worker[v].job \in Recovery!Copies /\ worker'[v] = worker[v]
      BY <1>1, <2>2 DEF Recovery!TypeInv
    <3>2. PICK kept \in Recovery!Copies : kept = worker[v].job
      BY <3>1
    <3>3. Recovery!CopyInv(kept)'
      BY <3>2, CopyStays
    <3> QED BY <1>3, <3>1, <3>2, <3>3
  <2> QED BY <2>1, <2>2
<1> QED BY <1>2, <1>3, <1>4

\* What a worker has in hand.
LEMMA WorkerIsSound ==
  ASSUME Recovery!RecoveryInv, NEW w \in Workers
  PROVE  \E at \in Recovery!Stages, job \in Recovery!Copies, step \in Recovery!Steps :
           /\ worker[w] = [stage |-> at, step |-> step, job |-> job]
           /\ Recovery!CopyInv(job) /\ (at = "reclaim" => Recovery!MayReclaim)
<1>1. worker[w] \in [stage : Recovery!Stages, step : Recovery!Steps, job : Recovery!Copies]
  BY DEF Recovery!RecoveryInv, Recovery!TypeInv
<1>2. Recovery!CopyInv(worker[w].job) /\ (worker[w].stage = "reclaim" => Recovery!MayReclaim)
  BY DEF Recovery!RecoveryInv
<1> QED BY <1>1, <1>2

\* A stage that is over: the worker has the next copy of the job, to be saved.
LEMMA DoneHolds ==
  ASSUME Recovery!RecoveryInv, NEW w \in Workers, NEW job \in Recovery!Copies, Recovery!Done(w, job),
         Recovery!CopyInv(job)', UNCHANGED <<recoveryJob, retries>>,
         output' \in {"none", "whole"}, card'.needs = card.needs, card' \in [needs : BOOLEAN, reclaimed : BOOLEAN],
         card'.reclaimed => card.reclaimed \/ Recovery!MayReclaim,
         imports' \in Seq(Recovery!Accepted),
         Len(imports) <= Len(imports'),
         \A i \in 1 .. Len(imports) : imports'[i].state = imports[i].state,
         verified \subseteq verified'
  PROVE  Recovery!RecoveryInv'
<1>1. PICK at \in Recovery!Stages, old \in Recovery!Copies, step \in Recovery!Steps :
        worker[w] = [stage |-> at, step |-> step, job |-> old] /\ (at = "reclaim" => Recovery!MayReclaim)
  BY WorkerIsSound
<1>2. /\ worker' \in [Workers -> [stage : Recovery!Stages, step : Recovery!Steps, job : Recovery!Copies]]
      /\ worker'[w].stage = at /\ worker'[w].job = job /\ \A v \in Workers : v # w => worker'[v] = worker[v]
  <2>1. worker' = [[worker EXCEPT ![w].step = "save"] EXCEPT ![w].job = job]
    BY DEF Recovery!Done, Recovery!RecoveryInv, Recovery!TypeInv
  <2> DEFINE saved == [worker EXCEPT ![w].step = "save"]
  <2>2. /\ saved \in [Workers -> [stage : Recovery!Stages, step : Recovery!Steps, job : Recovery!Copies]]
        /\ saved[w].stage = at /\ \A v \in Workers : v # w => saved[v] = worker[v]
    BY <1>1 DEF Recovery!RecoveryInv, Recovery!TypeInv
  <2>3. worker' = [saved EXCEPT ![w].job = job]
    BY <2>1
  <2> HIDE DEF saved
  <2> QED BY <2>2, <2>3
<1>3. Recovery!MayReclaim => Recovery!MayReclaim'
  BY DEF Recovery!MayReclaim
<1>4. PICK file \in Recovery!Copies : file = recoveryJob
  BY DEF Recovery!RecoveryInv, Recovery!TypeInv
<1>5. Recovery!CopyInv(file)'
  BY <1>4, CopyStays DEF Recovery!RecoveryInv
<1>6. Recovery!CopyInv(recoveryJob)' /\ recoveryJob' \in Recovery!Copies
  BY <1>4, <1>5 DEF Recovery!RecoveryInv, Recovery!TypeInv
<1> QED BY <1>1, <1>2, <1>3, <1>6, WorkerHolds

\* What the stages save.
LEMMA NextCopies ==
  ASSUME Recovery!RecoveryInv, NEW w \in Workers, NEW at \in Recovery!Stages
  PROVE  /\ Recovery!Then(w, at) \in Recovery!Copies
         /\ (at = "reclaim" => Recovery!MayReclaim) => Recovery!CopyInv(Recovery!Then(w, at))
         /\ Recovery!Failed(w) \in Recovery!Copies /\ Recovery!CopyInv(Recovery!Failed(w))
         /\ Recovery!Then(w, at).import = worker[w].job.import
<1>1. PICK current \in Recovery!Stages, job \in Recovery!Copies, step \in Recovery!Steps :
        /\ worker[w] = [stage |-> current, step |-> step, job |-> job]
        /\ Recovery!CopyInv(job) /\ (current = "reclaim" => Recovery!MayReclaim)
  BY WorkerIsSound
<1>2. /\ Recovery!Then(w, at) = [state |-> "waiting", next |-> at, import |-> job.import, revived |-> job.revived]
      /\ Recovery!Failed(w) = [state |-> "failed", next |-> current, import |-> job.import, revived |-> job.revived]
  <2>1. /\ Recovery!Then(w, at) = [[job EXCEPT !.state = "waiting"] EXCEPT !.next = at]
        /\ Recovery!Failed(w) = [[job EXCEPT !.state = "failed"] EXCEPT !.next = current]
    BY <1>1 DEF Recovery!Then, Recovery!Failed, Recovery!Copies
  <2> QED BY <2>1 DEF Recovery!Copies
<1>3. job.import \in Nat /\ job.revived \in Nat
  BY DEF Recovery!Copies
<1> QED BY <1>1, <1>2, <1>3 DEF Recovery!Copies, Recovery!CopyInv

\* Health and Status go on to the next stage, and a stage that fails comes again.
LEMMA GoesOnHolds ==
  ASSUME Recovery!RecoveryInv, NEW w \in Workers, NEW at \in Recovery!Stages,
         at = "reclaim" => Recovery!MayReclaim,
         Recovery!Done(w, Recovery!Then(w, at)) \/ Recovery!Done(w, Recovery!Failed(w)),
         UNCHANGED <<recoveryJob, card, retries, output, imports, verified>>
  PROVE  Recovery!RecoveryInv'
<1>1. PICK job \in Recovery!Copies : Recovery!Done(w, job) /\ Recovery!CopyInv(job)
  BY NextCopies
<1>2. Recovery!CopyInv(job)'
  BY <1>1 DEF Recovery!CopyInv, Recovery!MayReclaim
<1> QED BY <1>1, <1>2, DoneHolds DEF Recovery!RecoveryInv, Recovery!TypeInv

LEMMA RecoveryReclaimHolds ==
  ASSUME Recovery!RecoveryInv, NEW w \in Workers, Recovery!Reclaim(w)
  PROVE  Recovery!RecoveryInv'
<1>1. PICK job \in Recovery!Copies : Recovery!Done(w, job) /\ Recovery!CopyInv(job)
  <2>1. "status" \in Recovery!Stages
    BY DEF Recovery!Stages
  <2> QED BY <2>1, NextCopies DEF Recovery!Reclaim
<1>2. /\ card' = [card EXCEPT !.reclaimed = TRUE] /\ worker[w].stage = "reclaim"
      /\ UNCHANGED <<recoveryJob, retries, output, imports, verified>>
  BY DEF Recovery!Reclaim, Recovery!Acts
<1>3. card' \in [needs : BOOLEAN, reclaimed : BOOLEAN] /\ card'.needs = card.needs /\ Recovery!MayReclaim
  BY <1>2 DEF Recovery!RecoveryInv, Recovery!TypeInv
<1>4. Recovery!CopyInv(job)'
  BY <1>1, <1>2, <1>3 DEF Recovery!CopyInv, Recovery!MayReclaim
<1>5. /\ output' \in {"none", "whole"} /\ verified \subseteq verified'
      /\ imports' \in Seq(Recovery!Accepted)
      /\ Len(imports) <= Len(imports') /\ \A i \in 1 .. Len(imports) : imports'[i].state = imports[i].state
  BY <1>2 DEF Recovery!RecoveryInv, Recovery!TypeInv
<1> QED BY <1>1, <1>2, <1>3, <1>4, <1>5, DoneHolds

LEMMA DownloadedHolds ==
  ASSUME Recovery!RecoveryInv, NEW w \in Workers, Recovery!Download(w)
  PROVE  Recovery!RecoveryInv'
<1>1. /\ Recovery!Then(w, "import-submit") \in Recovery!Copies
      /\ Recovery!CopyInv(Recovery!Then(w, "import-submit"))
  BY NextCopies DEF Recovery!Stages
<1>2. PICK job \in Recovery!Copies : Recovery!Done(w, job) /\ Recovery!CopyInv(job)
  BY <1>1 DEF Recovery!Download
<1>3. output' = "whole" /\ UNCHANGED <<recoveryJob, card, retries, imports, verified>>
  BY DEF Recovery!Download, Recovery!Published
<1>4. Recovery!CopyInv(job)'
  BY <1>2, <1>3 DEF Recovery!CopyInv, Recovery!MayReclaim
<1> QED BY <1>2, <1>3, <1>4, DoneHolds DEF Recovery!RecoveryInv, Recovery!TypeInv

LEMMA RecoveryImportSubmitHolds ==
  ASSUME Recovery!RecoveryInv, NEW w \in Workers, Recovery!ImportSubmit(w)
  PROVE  Recovery!RecoveryInv'
<1>1. /\ imports' = Append(imports, [state |-> "queued", whole |-> output = "whole"])
      /\ output # "none" /\ UNCHANGED <<recoveryJob, card, retries, output, verified>>
  BY DEF Recovery!ImportSubmit
<1>2. PICK new \in Recovery!Accepted : imports' = Append(imports, new)
  BY <1>1 DEF Recovery!RecoveryInv, Recovery!TypeInv, Recovery!Accepted
<1>3. /\ imports' \in Seq(Recovery!Accepted)
      /\ Len(imports') = Len(imports) + 1 /\ \A i \in 1 .. Len(imports) : imports'[i] = imports[i]
      /\ Len(imports) \in Nat
  <2>1. imports \in Seq(Recovery!Accepted)
    BY DEF Recovery!RecoveryInv, Recovery!TypeInv
  <2> QED BY <1>2, <2>1
<1>4. Len(imports) <= Len(imports') /\ output \in {"none", "whole"} /\ card \in [needs : BOOLEAN, reclaimed : BOOLEAN]
  BY <1>3 DEF Recovery!RecoveryInv, Recovery!TypeInv
<1>5. ASSUME NEW job \in Recovery!Copies, Recovery!CopyInv(job) PROVE Recovery!CopyInv(job)'
  BY <1>1, <1>3, <1>4, <1>5, CopyStays DEF Recovery!RecoveryInv
<1>6. CASE Recovery!Done(w, [Recovery!Then(w, "import-status") EXCEPT !.import = Len(imports')])
  <2>1. PICK next \in Recovery!Copies : next = Recovery!Then(w, "import-status") /\ Recovery!CopyInv(next)
    BY NextCopies DEF Recovery!Stages
  <2>2. PICK job \in Recovery!Copies : job = [next EXCEPT !.import = Len(imports')]
    <3>1. Len(imports') \in Nat
      BY <1>3
    <3> QED BY <3>1 DEF Recovery!Copies
  <2>3. job.import = Len(imports') /\ job.revived = next.revived /\ job.state = next.state /\ job.next = next.next
    BY <2>2 DEF Recovery!Copies
  <2>4. Recovery!CopyInv(next)'
    BY <1>5, <2>1
  <2>5. Recovery!CopyInv(job)'
    BY <1>3, <2>3, <2>4 DEF Recovery!CopyInv
  <2> QED BY <1>1, <1>3, <1>4, <1>6, <2>1, <2>2, <2>5, DoneHolds
<1>7. CASE Recovery!Done(w, Recovery!Failed(w))
  <2>1. PICK job \in Recovery!Copies : job = Recovery!Failed(w) /\ Recovery!CopyInv(job)
    BY NextCopies DEF Recovery!Stages
  <2>2. Recovery!CopyInv(job)'
    BY <1>5, <2>1
  <2> QED BY <1>1, <1>3, <1>4, <1>7, <2>1, <2>2, DoneHolds
<1> QED BY <1>6, <1>7 DEF Recovery!ImportSubmit

LEMMA RecoveryImportEndsHolds ==
  ASSUME Recovery!RecoveryInv, NEW n, Recovery!ImportEnds(n)
  PROVE  Recovery!RecoveryInv'
<1>1. PICK s \in {"succeeded", "failed"} : imports' = [imports EXCEPT ![n].state = s]
  BY DEF Recovery!ImportEnds
<1>2. n \in DOMAIN imports /\ imports[n].state = "queued"
      /\ UNCHANGED <<recoveryJob, worker, card, retries, output, verified>>
  BY DEF Recovery!ImportEnds
<1>3. /\ imports' \in Seq(Recovery!Accepted)
      /\ Len(imports') = Len(imports) /\ \A i \in 1 .. Len(imports) : i # n => imports'[i] = imports[i]
  <2>1. imports \in Seq(Recovery!Accepted) /\ n \in 1 .. Len(imports)
    BY <1>2 DEF Recovery!RecoveryInv, Recovery!TypeInv
  <2>2. imports[n] \in Recovery!Accepted
    BY <2>1
  <2>3. PICK ended \in Recovery!Accepted : imports' = [imports EXCEPT ![n] = ended]
    BY <1>1, <2>2 DEF Recovery!Accepted
  <2> QED BY <2>1, <2>3
<1>4. Recovery!TypeInv'
  BY <1>2, <1>3 DEF Recovery!RecoveryInv, Recovery!TypeInv
<1>5. \A i \in 1 .. Len(imports) : imports[i].state = "succeeded" => imports'[i].state = "succeeded"
  BY <1>2, <1>3
<1>6. ASSUME NEW job \in Recovery!Copies, Recovery!CopyInv(job) PROVE Recovery!CopyInv(job)'
  BY <1>2, <1>3, <1>5, <1>6, CopyStays DEF Recovery!RecoveryInv
<1>7. PICK file \in Recovery!Copies : file = recoveryJob
  BY DEF Recovery!RecoveryInv, Recovery!TypeInv
<1>8. Recovery!CopyInv(recoveryJob)'
  BY <1>2, <1>6, <1>7 DEF Recovery!RecoveryInv
<1>9. ASSUME NEW w \in Workers PROVE Recovery!CopyInv(worker[w].job)'
  <2>1. PICK job \in Recovery!Copies : job = worker[w].job
    BY DEF Recovery!RecoveryInv, Recovery!TypeInv
  <2> QED BY <1>2, <1>6, <2>1 DEF Recovery!RecoveryInv
<1> QED BY <1>2, <1>4, <1>8, <1>9 DEF Recovery!RecoveryInv, Recovery!MayReclaim

\* Only an import that succeeded is revived.
LEMMA RecoveryImportStatusHolds ==
  ASSUME Recovery!RecoveryInv, NEW w \in Workers, Recovery!ImportStatus(w)
  PROVE  Recovery!RecoveryInv'
<1>1. PICK at \in Recovery!Stages, old \in Recovery!Copies, step \in Recovery!Steps :
        /\ worker[w] = [stage |-> at, step |-> step, job |-> old]
        /\ Recovery!CopyInv(old)
  BY WorkerIsSound
<1>2. UNCHANGED <<recoveryJob, card, retries, output, imports, verified>>
  BY DEF Recovery!ImportStatus
<1>3. CASE Recovery!Done(w, Recovery!Then(w, "import-status"))
  BY <1>2, <1>3, GoesOnHolds DEF Recovery!Stages
<1>4. CASE /\ Recovery!StateOf(old) = "succeeded"
           /\ Recovery!Done(w, [Recovery!Then(w, "verify") EXCEPT !.revived = old.import])
  <2>1. PICK next \in Recovery!Copies :
          /\ next = Recovery!Then(w, "verify") /\ Recovery!CopyInv(next) /\ next.import = old.import
    BY <1>1, NextCopies DEF Recovery!Stages
  <2>2. PICK job \in Recovery!Copies : job = [next EXCEPT !.revived = old.import]
    BY DEF Recovery!Copies
  <2>3. old.import # 0 /\ imports[old.import].state = "succeeded" /\ old.import \in 0 .. Len(imports)
    BY <1>1, <1>4 DEF Recovery!StateOf, Recovery!NoImport, Recovery!CopyInv
  <2>4. job.state # "succeeded" /\ job.next # "reclaim"
    BY <1>1, <2>1, <2>2 DEF Recovery!Then, Recovery!Copies
  <2>5. Recovery!CopyInv(job)
    BY <2>1, <2>2, <2>3, <2>4 DEF Recovery!CopyInv, Recovery!Copies
  <2>6. Recovery!CopyInv(job)'
    BY <1>2, <2>5 DEF Recovery!CopyInv, Recovery!MayReclaim
  <2> QED BY <1>2, <1>4, <2>1, <2>2, <2>6, DoneHolds DEF Recovery!RecoveryInv, Recovery!TypeInv
<1> QED BY <1>1, <1>3, <1>4 DEF Recovery!ImportStatus

LEMMA RecoveryVerifyHolds ==
  ASSUME Recovery!RecoveryInv, NEW w \in Workers, Recovery!Verify(w)
  PROVE  Recovery!RecoveryInv'
<1>1. PICK at \in Recovery!Stages, old \in Recovery!Copies, step \in Recovery!Steps :
        /\ worker[w] = [stage |-> at, step |-> step, job |-> old]
        /\ Recovery!CopyInv(old)
  BY WorkerIsSound
<1>2. /\ verified' = verified \cup {old.revived} /\ old.revived # Recovery!NoImport
      /\ Recovery!Done(w, [old EXCEPT !.state = "succeeded", !.next = "none"])
      /\ UNCHANGED <<recoveryJob, card, retries, output, imports>>
  BY <1>1 DEF Recovery!Verify
<1>3. [old EXCEPT !.state = "succeeded", !.next = "none"] = [[old EXCEPT !.state = "succeeded"] EXCEPT !.next = "none"]
  BY DEF Recovery!Copies
<1>4. PICK job \in Recovery!Copies :
        /\ job = [old EXCEPT !.state = "succeeded", !.next = "none"]
        /\ job.import = old.import /\ job.revived = old.revived /\ job.next = "none"
  <2>1. PICK ended \in Recovery!Copies : ended = [old EXCEPT !.state = "succeeded"]
    BY DEF Recovery!Copies
  <2>2. PICK job \in Recovery!Copies : job = [ended EXCEPT !.next = "none"]
    BY DEF Recovery!Copies
  <2>3. job.import = old.import /\ job.revived = old.revived /\ job.next = "none"
    BY <2>1, <2>2 DEF Recovery!Copies
  <2> QED BY <1>3, <2>1, <2>2, <2>3
<1>5. Recovery!CopyInv(job)'
  BY <1>1, <1>2, <1>4 DEF Recovery!CopyInv
<1> QED BY <1>2, <1>4, <1>5, DoneHolds DEF Recovery!RecoveryInv, Recovery!TypeInv

LEMMA FailedHolds ==
  ASSUME Recovery!RecoveryInv, NEW w \in Workers, Recovery!Fails(w)
  PROVE  Recovery!RecoveryInv'
<1>1. "health" \in Recovery!Stages
  BY DEF Recovery!Stages
<1> QED BY <1>1, GoesOnHolds DEF Recovery!Fails

\* What changes the worker and the file only.
LEMMA FileHolds ==
  ASSUME Recovery!RecoveryInv, NEW w \in Workers, NEW at \in Recovery!Stages,
         NEW step \in Recovery!Steps, NEW job \in Recovery!Copies, NEW file \in Recovery!Copies,
         worker' = [worker EXCEPT ![w] = [stage |-> at, step |-> step, job |-> job]],
         recoveryJob' = file, Recovery!CopyInv(job)', Recovery!CopyInv(file)',
         at = "reclaim" => Recovery!MayReclaim', retries \subseteq retries',
         UNCHANGED <<card, output, imports, verified>>
  PROVE  Recovery!RecoveryInv'
<1>1. /\ worker' \in [Workers -> [stage : Recovery!Stages, step : Recovery!Steps, job : Recovery!Copies]]
      /\ worker'[w].stage = at /\ worker'[w].job = job /\ \A v \in Workers : v # w => worker'[v] = worker[v]
  BY DEF Recovery!RecoveryInv, Recovery!TypeInv
<1>2. /\ output \in {"none", "whole"} /\ imports \in Seq(Recovery!Accepted) /\ card \in [needs : BOOLEAN, reclaimed : BOOLEAN]
      /\ Len(imports) <= Len(imports) /\ (card.reclaimed => Recovery!MayReclaim)
  BY DEF Recovery!RecoveryInv, Recovery!TypeInv
<1> QED BY <1>1, <1>2, WorkerHolds

\* A new copy, and a new worker, are sound.
LEMMA NewIsSound ==
  ASSUME Recovery!TypeInv
  PROVE  /\ Recovery!NewJob \in Recovery!Copies /\ Recovery!CopyInv(Recovery!NewJob)
         /\ Recovery!Free = [stage |-> "health", step |-> "free", job |-> Recovery!NewJob]
         /\ "health" \in Recovery!Stages
<1>1. Len(imports) \in Nat
  BY DEF Recovery!TypeInv
<1> QED BY <1>1 DEF Recovery!CopyInv, Recovery!NewJob, Recovery!NoImport, Recovery!Copies, Recovery!Stages, Recovery!Free

LEMMA CopiesStay ==
  ASSUME NEW job \in Recovery!Copies, Recovery!CopyInv(job), retries \subseteq retries',
         UNCHANGED <<card, imports, verified>>
  PROVE  Recovery!CopyInv(job)'
BY DEF Recovery!CopyInv, Recovery!MayReclaim

LEMMA RecoveryContinueHolds ==
  ASSUME Recovery!RecoveryInv, NEW w \in Workers, Recovery!Continue(w)
  PROVE  Recovery!RecoveryInv'
<1>1. PICK file \in Recovery!Copies : file = recoveryJob /\ Recovery!CopyInv(file)
  BY DEF Recovery!RecoveryInv, Recovery!TypeInv
<1>2. /\ worker' = [worker EXCEPT ![w] = [stage |-> file.next, step |-> "begin", job |-> Recovery!NewJob]]
      /\ file.next \in Recovery!Stages /\ UNCHANGED <<recoveryJob, card, retries, output, imports, verified>>
  BY <1>1 DEF Recovery!Continue, Recovery!Launch
<1>3. Recovery!NewJob \in Recovery!Copies /\ Recovery!CopyInv(Recovery!NewJob)
  BY NewIsSound DEF Recovery!RecoveryInv
<1>4. PICK new \in Recovery!Copies : new = Recovery!NewJob
  BY <1>3
<1>5. Recovery!CopyInv(new)' /\ Recovery!CopyInv(file)'
  BY <1>1, <1>2, <1>3, <1>4, CopiesStay
<1>6. file.next = "reclaim" => Recovery!MayReclaim'
  BY <1>1, <1>2 DEF Recovery!CopyInv, Recovery!MayReclaim
<1> QED BY <1>1, <1>2, <1>4, <1>5, <1>6, FileHolds

\* A stage that is asked for by name may reclaim.
LEMMA RecoveryRetryHolds ==
  ASSUME Recovery!RecoveryInv, NEW w \in Workers, NEW at \in Recovery!Stages, Recovery!Retry(w, at)
  PROVE  Recovery!RecoveryInv'
<1>1. PICK old \in Recovery!Copies : old = recoveryJob /\ Recovery!CopyInv(old)
  BY DEF Recovery!RecoveryInv, Recovery!TypeInv
<1>2. /\ worker' = [worker EXCEPT ![w] = [stage |-> at, step |-> "named", job |-> [old EXCEPT !.next = at]]]
      /\ recoveryJob' = old /\ retries' = retries \cup {at}
      /\ UNCHANGED <<card, output, imports, verified>>
  BY <1>1 DEF Recovery!Retry
<1>3. PICK file \in Recovery!Copies :
        /\ file = [old EXCEPT !.next = at]
        /\ file.import = old.import /\ file.revived = old.revived /\ file.state = old.state /\ file.next = at
  <2>1. PICK file \in Recovery!Copies : file = [old EXCEPT !.next = at]
    BY DEF Recovery!Copies
  <2>2. file.import = old.import /\ file.revived = old.revived /\ file.state = old.state /\ file.next = at
    BY <2>1 DEF Recovery!Copies
  <2> QED BY <2>1, <2>2
<1>4. Recovery!CopyInv(old)'
  BY <1>1, <1>2, CopiesStay
<1>5. at = "reclaim" => Recovery!MayReclaim'
  BY <1>2 DEF Recovery!MayReclaim
<1>6. Recovery!CopyInv(file)'
  BY <1>3, <1>4, <1>5 DEF Recovery!CopyInv
<1> QED BY <1>2, <1>3, <1>4, <1>5, <1>6, FileHolds

LEMMA RecoveryBeginHolds ==
  ASSUME Recovery!RecoveryInv, NEW w \in Workers, Recovery!Begin(w)
  PROVE  Recovery!RecoveryInv'
<1>1. PICK old \in Recovery!Copies : old = recoveryJob /\ Recovery!CopyInv(old)
  BY DEF Recovery!RecoveryInv, Recovery!TypeInv
<1>2. PICK at \in Recovery!Stages, copy \in Recovery!Copies, step \in Recovery!Steps :
        /\ worker[w] = [stage |-> at, step |-> step, job |-> copy]
        /\ (at = "reclaim" => Recovery!MayReclaim)
  BY WorkerIsSound
<1>3. PICK file \in Recovery!Copies :
        /\ file = [old EXCEPT !.state = "running"]
        /\ file.import = old.import /\ file.revived = old.revived /\ file.state = "running" /\ file.next = old.next
  <2>1. PICK file \in Recovery!Copies : file = [old EXCEPT !.state = "running"]
    BY DEF Recovery!Copies
  <2>2. file.import = old.import /\ file.revived = old.revived /\ file.state = "running" /\ file.next = old.next
    BY <2>1 DEF Recovery!Copies
  <2> QED BY <2>1, <2>2
<1>4. /\ recoveryJob' = old /\ UNCHANGED <<card, retries, output, imports, verified>>
      /\ worker' = [worker EXCEPT ![w].step = "started", ![w].job = file]
  BY <1>1, <1>3 DEF Recovery!Begin
<1>5. /\ worker' \in [Workers -> [stage : Recovery!Stages, step : Recovery!Steps, job : Recovery!Copies]]
      /\ worker'[w].stage = at /\ worker'[w].job = file /\ \A v \in Workers : v # w => worker'[v] = worker[v]
  <2> DEFINE started == [worker EXCEPT ![w].step = "started"]
  <2>1. worker' = [[worker EXCEPT ![w].step = "started"] EXCEPT ![w].job = file]
    BY <1>4 DEF Recovery!RecoveryInv, Recovery!TypeInv
  <2>2. /\ started \in [Workers -> [stage : Recovery!Stages, step : Recovery!Steps, job : Recovery!Copies]]
        /\ started[w].stage = at /\ \A v \in Workers : v # w => started[v] = worker[v]
    BY <1>2 DEF Recovery!RecoveryInv, Recovery!TypeInv
  <2>3. worker' = [started EXCEPT ![w].job = file]
    BY <2>1
  <2> HIDE DEF started
  <2> QED BY <2>2, <2>3
<1>6. Recovery!CopyInv(old)'
  BY <1>1, <1>4, CopiesStay
<1>7. Recovery!CopyInv(file)' /\ (at = "reclaim" => Recovery!MayReclaim')
  BY <1>2, <1>3, <1>4, <1>6 DEF Recovery!CopyInv, Recovery!MayReclaim
<1>8. /\ output \in {"none", "whole"} /\ imports \in Seq(Recovery!Accepted) /\ card \in [needs : BOOLEAN, reclaimed : BOOLEAN]
      /\ Len(imports) <= Len(imports) /\ (card.reclaimed => Recovery!MayReclaim)
  BY DEF Recovery!RecoveryInv, Recovery!TypeInv
<1> QED BY <1>4, <1>5, <1>6, <1>7, <1>8, WorkerHolds

\* What a retry named, or a worker started with, is saved, however old it is by now.
LEMMA RecoverySaveReadHolds ==
  ASSUME Recovery!RecoveryInv, NEW w \in Workers, Recovery!SaveNamed(w) \/ Recovery!SaveStarted(w)
  PROVE  Recovery!RecoveryInv'
<1>1. PICK at \in Recovery!Stages, copy \in Recovery!Copies, step \in Recovery!Steps :
        /\ worker[w] = [stage |-> at, step |-> step, job |-> copy]
        /\ Recovery!CopyInv(copy) /\ (at = "reclaim" => Recovery!MayReclaim)
  BY WorkerIsSound
<1>2. PICK new \in Recovery!Copies : new = Recovery!NewJob /\ Recovery!CopyInv(new)
  BY NewIsSound DEF Recovery!RecoveryInv
<1>3. recoveryJob' = copy /\ UNCHANGED <<card, retries, output, imports, verified>>
  BY <1>1 DEF Recovery!SaveNamed, Recovery!SaveStarted
<1>4. PICK next \in Recovery!Steps, job \in {new, copy} :
        worker' = [worker EXCEPT ![w] = [stage |-> at, step |-> next, job |-> job]]
  <2>1. CASE Recovery!SaveNamed(w)
    BY <1>1, <1>2, <2>1 DEF Recovery!SaveNamed, Recovery!Launch
  <2>2. CASE Recovery!SaveStarted(w)
    <3>1. worker' = [worker EXCEPT ![w].step = "act"]
      BY <2>2 DEF Recovery!SaveStarted
    <3>2. [worker[w] EXCEPT !.step = "act"] = [stage |-> at, step |-> "act", job |-> copy]
      BY <1>1
    <3> QED BY <3>1, <3>2
  <2> QED BY <2>1, <2>2
<1>5. Recovery!CopyInv(copy)' /\ Recovery!CopyInv(new)'
  BY <1>1, <1>2, <1>3, CopiesStay
<1>6. at = "reclaim" => Recovery!MayReclaim'
  BY <1>1, <1>3 DEF Recovery!MayReclaim
<1> QED BY <1>3, <1>4, <1>5, <1>6, FileHolds

LEMMA RecoverySaveHolds ==
  ASSUME Recovery!RecoveryInv, NEW w \in Workers, Recovery!Save(w) \/ Recovery!Ends(w)
  PROVE  Recovery!RecoveryInv'
<1>1. PICK old \in Recovery!Copies : old = recoveryJob /\ Recovery!CopyInv(old)
  BY DEF Recovery!RecoveryInv, Recovery!TypeInv
<1>2. PICK at \in Recovery!Stages, copy \in Recovery!Copies, step \in Recovery!Steps :
        worker[w] = [stage |-> at, step |-> step, job |-> copy] /\ Recovery!CopyInv(copy)
  BY WorkerIsSound
<1>3. PICK new \in Recovery!Copies :
        /\ new = Recovery!NewJob /\ Recovery!CopyInv(new)
        /\ Recovery!Free = [stage |-> "health", step |-> "free", job |-> new] /\ "health" \in Recovery!Stages
  BY NewIsSound DEF Recovery!RecoveryInv
<1>4. PICK file \in Recovery!Copies : recoveryJob' = file /\ Recovery!CopyInv(file)
  BY <1>1, <1>2 DEF Recovery!Save, Recovery!Ends
<1>5. /\ worker' = [worker EXCEPT ![w] = [stage |-> "health", step |-> "free", job |-> new]]
      /\ UNCHANGED <<card, retries, output, imports, verified>>
  BY <1>3 DEF Recovery!Save, Recovery!Ends
<1>6. Recovery!CopyInv(new)' /\ Recovery!CopyInv(file)'
  BY <1>3, <1>4, <1>5, CopiesStay
<1> QED BY <1>3, <1>4, <1>5, <1>6, FileHolds

LEMMA RecoveryNextHolds ==
  ASSUME Recovery!RecoveryInv, [Recovery!Next]_(Recovery!recoveryVars)
  PROVE  Recovery!RecoveryInv'
<1>1. ASSUME NEW w \in Workers, Recovery!Health(w) PROVE Recovery!RecoveryInv'
  <2>1. /\ Recovery!AfterHealth \in Recovery!Stages
        /\ Recovery!AfterHealth = "reclaim" => Recovery!MayReclaim
    BY DEF Recovery!AfterHealth, Recovery!Stages, Recovery!MayReclaim
  <2> QED BY <1>1, <2>1, GoesOnHolds DEF Recovery!Health
<1>2. ASSUME NEW w \in Workers, Recovery!Status(w) PROVE Recovery!RecoveryInv'
  BY <1>2, GoesOnHolds DEF Recovery!Status, Recovery!Stages
<1>3. ASSUME NEW w \in Workers,
             \/ Recovery!Continue(w) \/ Recovery!Begin(w) \/ Recovery!Reclaim(w) \/ Recovery!Download(w)
             \/ Recovery!ImportSubmit(w) \/ Recovery!ImportStatus(w) \/ Recovery!Verify(w)
      PROVE  Recovery!RecoveryInv'
  BY <1>3, RecoveryContinueHolds, RecoveryBeginHolds, RecoveryReclaimHolds, DownloadedHolds, RecoveryImportSubmitHolds, RecoveryImportStatusHolds, RecoveryVerifyHolds
<1>4. ASSUME NEW w \in Workers,
             \/ Recovery!Fails(w) \/ Recovery!Save(w) \/ Recovery!Ends(w)
             \/ Recovery!SaveNamed(w) \/ Recovery!SaveStarted(w)
             \/ \E at \in Recovery!Stages : Recovery!Retry(w, at)
      PROVE  Recovery!RecoveryInv'
  BY <1>4, FailedHolds, RecoverySaveHolds, RecoverySaveReadHolds, RecoveryRetryHolds
<1>5. ASSUME NEW i, Recovery!ImportEnds(i) PROVE Recovery!RecoveryInv'
  BY <1>5, RecoveryImportEndsHolds
<1>6. CASE UNCHANGED Recovery!recoveryVars
  BY <1>6 DEF Recovery!recoveryVars, Recovery!RecoveryInv, Recovery!TypeInv, Recovery!CopyInv, Recovery!MayReclaim
<1> QED BY <1>1, <1>2, <1>3, <1>4, <1>5, <1>6 DEF Recovery!Next

LEMMA RecoveryInvSuffices ==
  ASSUME Recovery!RecoveryInv
  PROVE  Recovery!RecoveriesAreSound
<1>1. \A i \in DOMAIN imports : imports[i].whole
  <2>1. imports \in Seq(Recovery!Accepted)
    BY DEF Recovery!RecoveryInv, Recovery!TypeInv
  <2>2. \A i \in DOMAIN imports : imports[i] \in Recovery!Accepted
    BY <2>1
  <2> QED BY <2>2 DEF Recovery!Accepted
<1> QED BY <1>1 DEF Recovery!RecoveriesAreSound, Recovery!RecoveryInv, Recovery!CopyInv, Recovery!MayReclaim

\* Purchases and recoveries, for any number of jobs, workers, imports and faults: a
\* purchase that succeeded has a fulfilled order, all of whose accounts were imported
\* at a price that is at most half a fen off; a refused submission buys nothing; and
\* two workers on one file of a recovery never import less than the whole download,
\* nor report an import that did not succeed or was not verified.
THEOREM SuppliesAreAccountedFor == ActingSpec => []SuppliesAreAccounted
<1> DEFINE SInv == (part = "purchases" => Supply!PurchaseInv) /\ (part = "recovery" => Recovery!RecoveryInv)
<1>1. ActingInit => SInv
  BY PartsBegin, PurchasesInitHolds, RecoveryInitHolds
<1>2. SInv /\ [ActingNext]_vars => SInv'
  BY PartsTakeTurns, PurchasesNextHolds, RecoveryNextHolds
<1>3. SInv => SuppliesAreAccounted
  BY PurchaseInvSuffices, RecoveryInvSuffices DEF SuppliesAreAccounted
<1> QED BY <1>1, <1>2, <1>3, PTL DEF ActingSpec

-----------------------------------------------------------------------------
(* Probe isolation *)

group == v1
grouped == v2
allowed == v3
keyGroup == v4
record == v5
lock == v6
ensure == v7
measured == v9
USE DEF group, grouped, allowed, keyGroup, record, lock, ensure, measured

LEMMA EnsureStages ==
  {"idle", "lock", "group", "record", "user", "allow", "key", "keep", "bind", "configure", "verify", "ready"}
    \subseteq Isolation!Stages
BY DEF Isolation!Stages

\* What a caller has in hand stays of its type.
LEMMA EnsureMoves ==
  ASSUME NEW e \in [Callers -> Isolation!Ensures], NEW c \in Callers
  PROVE  /\ \A at \in Isolation!Stages : [e EXCEPT ![c].stage = at] \in [Callers -> Isolation!Ensures]
         /\ \A g \in Isolation!GroupIds : [e EXCEPT ![c].group = g] \in [Callers -> Isolation!Ensures]
         /\ \A seen \in SUBSET Isolation!GroupIds : [e EXCEPT ![c].seen = seen] \in [Callers -> Isolation!Ensures]
         /\ Isolation!Idle \in Isolation!Ensures
BY EnsureStages DEF Isolation!Ensures, Isolation!Idle, Isolation!NoGroup

\* While one caller is past the lock, the others wait.
LEMMA OthersWait ==
  ASSUME Isolation!LockInv, NEW c \in Callers, ensure[c].stage \notin {"idle", "lock"}, NEW k \in Callers, k # c
  PROVE  ensure[k].stage \in {"idle", "lock"} /\ lock = c
BY DEF Isolation!LockInv

\* A private group has been made, and has one owner.
LEMMA OwnGroups ==
  ASSUME NEW a \in Isolated, NEW g \in Isolation!Own(a)
  PROVE  /\ g \in Isolation!GroupIds /\ group[g] # Isolation!NoName /\ g # Isolation!NoGroup
         /\ \A b \in Isolated : g \in Isolation!Own(b) => a = b
BY IsolationAssumption DEF Isolation!Own, Isolation!NoName, Isolation!GroupIds, Isolation!NoGroup

\* Names stay while no group is made and no key moves.
LEMMA NamesStay ==
  ASSUME Isolation!NameInv, UNCHANGED <<group, keyGroup>>,
         \A a \in Isolated : \A g \in grouped'[a] : group[g] # Isolation!NoName,
         \A k \in Callers : ensure'[k].stage = "configure" => \A g \in ensure'[k].seen : group[g] # Isolation!NoName
  PROVE  Isolation!NameInv'
<1>1. \A a \in Isolated : Isolation!Own(a)' = Isolation!Own(a)
  BY DEF Isolation!Own
<1> QED BY <1>1 DEF Isolation!NameInv, Isolation!At

\* A new group is nobody's yet but its owner's.
LEMMA FindOrCreateGroupHolds ==
  ASSUME Isolation!IsolationInv, NEW c \in Callers, Isolation!FindOrCreateGroup(c)
  PROVE  Isolation!IsolationInv'
<1> USE IsolationAssumption DEF Isolation!IsolationInv, Isolation!At, Isolation!Of
<1> DEFINE a == ensure[c].account
           plain == a \notin Taken
<1>1. /\ ensure[c].stage = "group" /\ a \in Isolated
      /\ UNCHANGED <<grouped, allowed, keyGroup, record, lock, measured>>
  BY DEF Isolation!FindOrCreateGroup, Isolation!LockInv
<1>2. PICK g \in Isolation!GroupIds :
        /\ ensure' = [ensure EXCEPT ![c].stage = "record", ![c].group = g]
        /\ \/ plain /\ group[g] = [of |-> a, base |-> TRUE] /\ UNCHANGED group
           \/ /\ plain => Isolation!Named(a, TRUE) = {}
              /\ group[g] = Isolation!NoName /\ group' = [group EXCEPT ![g] = [of |-> a, base |-> plain]]
  BY DEF Isolation!FindOrCreateGroup, Isolation!Named
<1>3. /\ \A k \in Callers \ {c} : ensure'[k] = ensure[k] /\ ensure[k].stage \in {"idle", "lock"}
      /\ ensure'[c].stage = "record" /\ ensure'[c].group = g /\ ensure'[c].account = a
  BY <1>1, <1>2, SMTT(30) DEF Isolation!TypeInv, Isolation!LockInv
<1>4. group' \in [Isolation!GroupIds -> [of : Isolated \cup {Isolation!Nobody}, base : BOOLEAN]]
  <2>1. [of |-> a, base |-> plain] \in [of : Isolated \cup {Isolation!Nobody}, base : BOOLEAN]
    BY <1>1
  <2> QED BY <1>2, <2>1 DEF Isolation!TypeInv
<1>5. Isolation!TypeInv'
  <2> DEFINE mid == [ensure EXCEPT ![c].stage = "record"]
  <2>2. mid \in [Callers -> Isolation!Ensures]
    BY EnsureMoves, EnsureStages DEF Isolation!TypeInv
  <2>3. ensure' = [mid EXCEPT ![c].group = g]
    BY <1>2
  <2> HIDE DEF mid
  <2>1. ensure' \in [Callers -> Isolation!Ensures]
    BY <2>2, <2>3, EnsureMoves
  <2> QED BY <1>1, <1>4, <2>1 DEF Isolation!TypeInv
<1>6. \A b \in Isolated, h \in Isolation!GroupIds :
        h \in Isolation!Own(b)' <=> h \in Isolation!Own(b) \/ (b = a /\ h = g)
  <2>1. /\ group'[g] = [of |-> a, base |-> plain]
        /\ \A h \in Isolation!GroupIds \ {g} : group'[h] = group[h]
    BY <1>2 DEF Isolation!TypeInv
  <2>2. \A b \in Isolated : b # a => g \notin Isolation!Own(b)
    <3>1. group[g] = [of |-> a, base |-> TRUE] \/ group[g] = [of |-> Isolation!Nobody, base |-> TRUE]
      BY <1>2 DEF Isolation!NoName
    <3>2. group[g].of \in {a, Isolation!Nobody}
      BY <3>1
    <3> QED BY <3>2 DEF Isolation!Own
  <2>3. \A b \in Isolated : g \in Isolation!Own(b)' => b = a
    BY <2>1 DEF Isolation!Own
  <2> QED BY <2>1, <2>2, <2>3 DEF Isolation!Own
<1>7. group[g] = Isolation!NoName \/ g \in Isolation!Own(a)
  BY <1>2 DEF Isolation!Own
<1>8. Isolation!LockInv'
  BY <1>1, <1>3, <1>6 DEF Isolation!LockInv
<1>9. Isolation!AllowedInv'
  BY <1>1, <1>3 DEF Isolation!AllowedInv
<1>10. \A h \in Isolation!GroupIds : group[h] # Isolation!NoName => group'[h] # Isolation!NoName
  BY <1>1, <1>2, <1>4 DEF Isolation!NoName, Isolation!TypeInv
<1>11. Isolation!NameInv'
  <2>1. plain => \A h \in Isolation!Own(a) : h = g
    <3>1. CASE g \in Isolation!Own(a)
      BY <1>1, <3>1 DEF Isolation!NameInv, Isolation!Own
    <3>2. CASE g \notin Isolation!Own(a)
      BY <1>2, <3>2 DEF Isolation!Own, Isolation!Named
    <3> QED BY <3>1, <3>2
  <2>2. \A b \in Isolated \ Taken, h, i \in Isolation!GroupIds :
          h \in Isolation!Own(b)' /\ i \in Isolation!Own(b)' => h = i
    BY <1>6, <2>1 DEF Isolation!NameInv
  <2>3. \A b \in Isolated : keyGroup[b] # Isolation!NoGroup => keyGroup[b] \in Isolation!Own(b)'
    BY <1>6 DEF Isolation!NameInv, Isolation!TypeInv
  <2>4. \A b \in Isolated : \A h \in grouped[b] : group'[h] # Isolation!NoName
    BY <1>10 DEF Isolation!NameInv, Isolation!TypeInv
  <2> QED BY <1>1, <1>3, <2>2, <2>3, <2>4 DEF Isolation!NameInv
<1>12. Isolation!ForeignInv'
  <2> SUFFICES ASSUME NEW o \in Isolated, NEW b \in Isolated, NEW h \in Isolation!Own(o)', o # b, Isolation!Joins(b, h)'
               PROVE  /\ o \notin Taken /\ ~record'[o].ready
                      /\ \A k \in Callers : ensure'[k].stage = "ready" => ensure'[k].account # o
    BY DEF Isolation!ForeignInv
  <2>1. h \in grouped[b]
    BY <1>1, <1>3 DEF Isolation!Joins
  <2>2. h \in Isolation!Own(o)
    <3>1. h \in Isolation!GroupIds /\ group[h] # Isolation!NoName
      BY <2>1 DEF Isolation!NameInv, Isolation!TypeInv
    <3> QED BY <1>6, <1>7, <3>1
  <2> QED BY <1>1, <1>3, <2>1, <2>2 DEF Isolation!ForeignInv, Isolation!Joins
<1>13. Isolation!MeasuredInv'
  BY <1>1 DEF Isolation!MeasuredInv
<1> QED BY <1>5, <1>8, <1>9, <1>11, <1>12, <1>13

LEMMA IsolationRecordHolds ==
  ASSUME Isolation!IsolationInv, NEW c \in Callers, Isolation!Record(c)
  PROVE  Isolation!IsolationInv'
<1> USE IsolationAssumption DEF Isolation!IsolationInv, Isolation!Record, Isolation!GoTo, Isolation!At, Isolation!Of
<1>1. Isolation!TypeInv'
  <2>1. ensure[c].group \in Isolation!GroupIds /\ ensure[c].seen \subseteq Isolation!GroupIds /\ Isolation!Of(c) \in Isolated
    BY DEF Isolation!TypeInv, Isolation!LockInv, Isolation!Own, Isolation!Ensures
  <2>5. ensure' \in [Callers -> Isolation!Ensures]
    BY EnsureMoves, EnsureStages DEF Isolation!TypeInv
  <2>6. record' \in [Isolated -> [group : Isolation!GroupIds \cup {Isolation!NoGroup}, ready : BOOLEAN]]
    BY <2>1 DEF Isolation!TypeInv
  <2> QED BY <2>5, <2>6 DEF Isolation!TypeInv, Isolation!Leave
<1>2. Isolation!LockInv'
  BY EnsureStages, SMTT(30) DEF Isolation!TypeInv, Isolation!LockInv, Isolation!Own
<1>3. Isolation!AllowedInv'
  <2>1. /\ \A k \in Callers \ {c} : ensure'[k] = ensure[k] /\ ensure[k].stage \in {"idle", "lock"}
        /\ ensure'[c].stage = "user"
    BY SMTT(30) DEF Isolation!TypeInv, Isolation!LockInv
  <2>2. \A a \in Isolated : record'[a].ready => record'[a] = record[a]
    BY SMTT(30) DEF Isolation!TypeInv, Isolation!NoRecord
  <2>3. UNCHANGED allowed
    BY DEF Isolation!Record
  <2> QED BY <2>1, <2>2, <2>3 DEF Isolation!AllowedInv
<1>4. Isolation!NameInv'
  BY SMTT(30) DEF Isolation!TypeInv, Isolation!LockInv, Isolation!NameInv, Isolation!Own
<1>5. Isolation!ForeignInv'
  BY SMTT(30) DEF Isolation!TypeInv, Isolation!LockInv, Isolation!NameInv, Isolation!ForeignInv, Isolation!Joins, Isolation!Own
<1>6. Isolation!MeasuredInv'
  BY DEF Isolation!MeasuredInv
<1> QED BY <1>1, <1>2, <1>3, <1>4, <1>5, <1>6

LEMMA FindUserHolds ==
  ASSUME Isolation!IsolationInv, NEW c \in Callers, Isolation!FindUser(c)
  PROVE  Isolation!IsolationInv'
<1> USE IsolationAssumption DEF Isolation!IsolationInv, Isolation!FindUser, Isolation!GoTo, Isolation!At, Isolation!Of
<1>1. Isolation!TypeInv'
  <2> DEFINE mid == [ensure EXCEPT ![c].stage = "allow"]
  <2>2. mid \in [Callers -> Isolation!Ensures]
    BY EnsureMoves, EnsureStages DEF Isolation!TypeInv
  <2>3. ensure' = [mid EXCEPT ![c].seen = allowed]
    OBVIOUS
  <2> HIDE DEF mid
  <2>4. allowed \in SUBSET Isolation!GroupIds
    BY DEF Isolation!TypeInv, Isolation!LockInv
  <2>5. [mid EXCEPT ![c].seen = allowed] \in [Callers -> Isolation!Ensures]
    BY <2>2, <2>4, EnsureMoves
  <2>7. ensure' \in [Callers -> Isolation!Ensures]
    BY <2>3, <2>5
  <2> QED BY <2>7 DEF Isolation!TypeInv, Isolation!Leave
<1>2. Isolation!LockInv'
  BY EnsureStages, SMTT(30) DEF Isolation!TypeInv, Isolation!LockInv, Isolation!Own
<1>3. Isolation!AllowedInv'
  BY SMTT(30) DEF Isolation!TypeInv, Isolation!LockInv, Isolation!AllowedInv
<1>4. Isolation!NameInv'
  BY SMTT(30) DEF Isolation!TypeInv, Isolation!LockInv, Isolation!NameInv, Isolation!Own
<1>5. Isolation!ForeignInv'
  BY SMTT(30) DEF Isolation!TypeInv, Isolation!LockInv, Isolation!NameInv, Isolation!ForeignInv, Isolation!Joins, Isolation!Own
<1>6. Isolation!MeasuredInv'
  BY DEF Isolation!MeasuredInv
<1> QED BY <1>1, <1>2, <1>3, <1>4, <1>5, <1>6

LEMMA EnsureMonitorUserHolds ==
  ASSUME Isolation!IsolationInv, NEW c \in Callers, Isolation!EnsureMonitorUser(c)
  PROVE  Isolation!IsolationInv'
<1> USE IsolationAssumption DEF Isolation!IsolationInv, Isolation!EnsureMonitorUser, Isolation!GoTo, Isolation!At, Isolation!Of
<1>1. Isolation!TypeInv'
  <2>1. ensure[c].group \in Isolation!GroupIds /\ ensure[c].seen \subseteq Isolation!GroupIds /\ Isolation!Of(c) \in Isolated
    BY DEF Isolation!TypeInv, Isolation!LockInv, Isolation!Own, Isolation!Ensures
  <2> DEFINE mid == [ensure EXCEPT ![c].stage = "key"]
  <2>2. mid \in [Callers -> Isolation!Ensures]
    BY EnsureMoves, EnsureStages DEF Isolation!TypeInv
  <2>3. ensure' = [mid EXCEPT ![c].seen = {}]
    OBVIOUS
  <2> HIDE DEF mid
  <2>4. {} \in SUBSET Isolation!GroupIds
    BY DEF Isolation!TypeInv, Isolation!LockInv
  <2>5. [mid EXCEPT ![c].seen = {}] \in [Callers -> Isolation!Ensures]
    BY <2>2, <2>4, EnsureMoves
  <2>7. ensure' \in [Callers -> Isolation!Ensures]
    BY <2>3, <2>5
  <2>6. allowed' \in SUBSET Isolation!GroupIds
    BY <2>1 DEF Isolation!TypeInv
  <2> QED BY <2>7, <2>6 DEF Isolation!TypeInv, Isolation!Leave
<1>2. Isolation!LockInv'
  BY EnsureStages, SMTT(30) DEF Isolation!TypeInv, Isolation!LockInv, Isolation!Own
<1>3. Isolation!AllowedInv'
  BY SMTT(30) DEF Isolation!TypeInv, Isolation!LockInv, Isolation!AllowedInv
<1>4. Isolation!NameInv'
  BY SMTT(30) DEF Isolation!TypeInv, Isolation!LockInv, Isolation!NameInv, Isolation!Own
<1>5. Isolation!ForeignInv'
  BY SMTT(30) DEF Isolation!TypeInv, Isolation!LockInv, Isolation!NameInv, Isolation!ForeignInv, Isolation!Joins, Isolation!Own
<1>6. Isolation!MeasuredInv'
  BY DEF Isolation!MeasuredInv
<1> QED BY <1>1, <1>2, <1>3, <1>4, <1>5, <1>6

LEMMA EnsureUserAndKeyHolds ==
  ASSUME Isolation!IsolationInv, NEW c \in Callers, Isolation!EnsureUserAndKey(c)
  PROVE  Isolation!IsolationInv'
<1> USE IsolationAssumption DEF Isolation!IsolationInv, Isolation!EnsureUserAndKey, Isolation!GoTo, Isolation!At, Isolation!Of
<1>1. Isolation!TypeInv'
  <2>1. ensure[c].group \in Isolation!GroupIds /\ ensure[c].seen \subseteq Isolation!GroupIds /\ Isolation!Of(c) \in Isolated
    BY DEF Isolation!TypeInv, Isolation!LockInv, Isolation!Own, Isolation!Ensures
  <2>5. ensure' \in [Callers -> Isolation!Ensures]
    BY EnsureMoves, EnsureStages DEF Isolation!TypeInv
  <2>6. keyGroup' \in [Isolated -> Isolation!GroupIds \cup {Isolation!NoGroup}]
    BY <2>1 DEF Isolation!TypeInv
  <2> QED BY <2>5, <2>6 DEF Isolation!TypeInv, Isolation!Leave
<1>2. Isolation!LockInv'
  BY EnsureStages, SMTT(30) DEF Isolation!TypeInv, Isolation!LockInv, Isolation!Own
<1>3. Isolation!AllowedInv'
  BY SMTT(30) DEF Isolation!TypeInv, Isolation!LockInv, Isolation!AllowedInv
<1>4. Isolation!NameInv'
  BY SMTT(30) DEF Isolation!TypeInv, Isolation!LockInv, Isolation!NameInv, Isolation!Own
<1>5. Isolation!ForeignInv'
  BY SMTT(30) DEF Isolation!TypeInv, Isolation!LockInv, Isolation!NameInv, Isolation!ForeignInv, Isolation!Joins, Isolation!Own
<1>6. Isolation!MeasuredInv'
  BY DEF Isolation!MeasuredInv
<1> QED BY <1>1, <1>2, <1>3, <1>4, <1>5, <1>6

LEMMA KeepKeyHolds ==
  ASSUME Isolation!IsolationInv, NEW c \in Callers, Isolation!KeepKey(c)
  PROVE  Isolation!IsolationInv'
<1> USE IsolationAssumption DEF Isolation!IsolationInv, Isolation!KeepKey, Isolation!GoTo, Isolation!At, Isolation!Of
<1>1. Isolation!TypeInv'
  <2>1. ensure[c].group \in Isolation!GroupIds /\ ensure[c].seen \subseteq Isolation!GroupIds /\ Isolation!Of(c) \in Isolated
    BY DEF Isolation!TypeInv, Isolation!LockInv, Isolation!Own, Isolation!Ensures
  <2>5. ensure' \in [Callers -> Isolation!Ensures]
    BY EnsureMoves, EnsureStages DEF Isolation!TypeInv
  <2>6. record' \in [Isolated -> [group : Isolation!GroupIds \cup {Isolation!NoGroup}, ready : BOOLEAN]]
    BY <2>1 DEF Isolation!TypeInv
  <2> QED BY <2>5, <2>6 DEF Isolation!TypeInv, Isolation!Leave
<1>2. Isolation!LockInv'
  BY EnsureStages, SMTT(30) DEF Isolation!TypeInv, Isolation!LockInv, Isolation!Own
<1>3. Isolation!AllowedInv'
  BY SMTT(30) DEF Isolation!TypeInv, Isolation!LockInv, Isolation!AllowedInv
<1>4. Isolation!NameInv'
  BY SMTT(30) DEF Isolation!TypeInv, Isolation!LockInv, Isolation!NameInv, Isolation!Own
<1>5. Isolation!ForeignInv'
  BY SMTT(30) DEF Isolation!TypeInv, Isolation!LockInv, Isolation!NameInv, Isolation!ForeignInv, Isolation!Joins, Isolation!Own
<1>6. Isolation!MeasuredInv'
  BY DEF Isolation!MeasuredInv
<1> QED BY <1>1, <1>2, <1>3, <1>4, <1>5, <1>6

LEMMA FindAccountHolds ==
  ASSUME Isolation!IsolationInv, NEW c \in Callers, Isolation!FindAccount(c)
  PROVE  Isolation!IsolationInv'
<1> USE IsolationAssumption DEF Isolation!IsolationInv, Isolation!FindAccount, Isolation!GoTo, Isolation!At, Isolation!Of
<1>1. Isolation!TypeInv'
  <2> DEFINE mid == [ensure EXCEPT ![c].stage = "configure"]
  <2>2. mid \in [Callers -> Isolation!Ensures]
    BY EnsureMoves, EnsureStages DEF Isolation!TypeInv
  <2>3. ensure' = [mid EXCEPT ![c].seen = grouped[Isolation!Of(c)]]
    OBVIOUS
  <2> HIDE DEF mid
  <2>4. grouped[Isolation!Of(c)] \in SUBSET Isolation!GroupIds
    BY DEF Isolation!TypeInv, Isolation!LockInv
  <2>5. [mid EXCEPT ![c].seen = grouped[Isolation!Of(c)]] \in [Callers -> Isolation!Ensures]
    BY <2>2, <2>4, EnsureMoves
  <2>7. ensure' \in [Callers -> Isolation!Ensures]
    BY <2>3, <2>5
  <2> QED BY <2>7 DEF Isolation!TypeInv, Isolation!Leave
<1>2. Isolation!LockInv'
  BY EnsureStages, SMTT(30) DEF Isolation!TypeInv, Isolation!LockInv, Isolation!Own
<1>3. Isolation!AllowedInv'
  BY SMTT(30) DEF Isolation!TypeInv, Isolation!LockInv, Isolation!AllowedInv
<1>4. Isolation!NameInv'
  <2>1. /\ \A k \in Callers \ {c} : ensure'[k] = ensure[k] /\ ensure[k].stage \in {"idle", "lock"}
        /\ ensure'[c].seen = grouped[Isolation!Of(c)] /\ Isolation!Of(c) \in Isolated
    BY SMTT(30) DEF Isolation!TypeInv, Isolation!LockInv
  <2>2. UNCHANGED <<group, grouped, keyGroup>>
    BY DEF Isolation!FindAccount
  <2>3. ASSUME NEW k \in Callers, ensure'[k].stage = "configure"
        PROVE  \A g \in ensure'[k].seen : group[g] # Isolation!NoName
    <3>1. CASE k = c
      BY <2>1, <3>1 DEF Isolation!NameInv
    <3>2. CASE k # c
      BY <2>1, <2>3, <3>2
    <3> QED BY <3>1, <3>2
  <2> HIDE DEF Isolation!FindAccount
  <2>4. \A a \in Isolated : \A g \in grouped'[a] : group[g] # Isolation!NoName
    BY <2>2 DEF Isolation!NameInv
  <2> QED BY <2>2, <2>3, <2>4, NamesStay
<1>5. Isolation!ForeignInv'
  BY SMTT(30) DEF Isolation!TypeInv, Isolation!LockInv, Isolation!NameInv, Isolation!ForeignInv, Isolation!Joins, Isolation!Own
<1>6. Isolation!MeasuredInv'
  BY DEF Isolation!MeasuredInv
<1> QED BY <1>1, <1>2, <1>3, <1>4, <1>5, <1>6

LEMMA ConfigureGroupsHolds ==
  ASSUME Isolation!IsolationInv, NEW c \in Callers, Isolation!ConfigureGroups(c)
  PROVE  Isolation!IsolationInv'
<1> USE IsolationAssumption DEF Isolation!IsolationInv, Isolation!ConfigureGroups, Isolation!GoTo, Isolation!At, Isolation!Of
<1>1. Isolation!TypeInv'
  <2>1. ensure[c].group \in Isolation!GroupIds /\ ensure[c].seen \subseteq Isolation!GroupIds /\ Isolation!Of(c) \in Isolated
    BY DEF Isolation!TypeInv, Isolation!LockInv, Isolation!Own, Isolation!Ensures
  <2> DEFINE mid == [ensure EXCEPT ![c].stage = "verify"]
  <2>2. mid \in [Callers -> Isolation!Ensures]
    BY EnsureMoves, EnsureStages DEF Isolation!TypeInv
  <2>3. ensure' = [mid EXCEPT ![c].seen = {}]
    OBVIOUS
  <2> HIDE DEF mid
  <2>4. {} \in SUBSET Isolation!GroupIds
    BY DEF Isolation!TypeInv, Isolation!LockInv
  <2>5. [mid EXCEPT ![c].seen = {}] \in [Callers -> Isolation!Ensures]
    BY <2>2, <2>4, EnsureMoves
  <2>7. ensure' \in [Callers -> Isolation!Ensures]
    BY <2>3, <2>5
  <2>6. grouped' \in [Isolated -> SUBSET Isolation!GroupIds]
    BY <2>1 DEF Isolation!TypeInv
  <2> QED BY <2>7, <2>6 DEF Isolation!TypeInv, Isolation!Leave
<1>2. Isolation!LockInv'
  BY EnsureStages, SMTT(30) DEF Isolation!TypeInv, Isolation!LockInv, Isolation!Own
<1>3. Isolation!AllowedInv'
  BY SMTT(30) DEF Isolation!TypeInv, Isolation!LockInv, Isolation!AllowedInv
<1>4. Isolation!NameInv'
  <2>1. /\ \A k \in Callers : ensure'[k].stage # "configure"
        /\ \A k \in Callers \ {c} : ensure'[k] = ensure[k]
        /\ ensure'[c].stage = "verify" /\ Isolation!Of(c) \in Isolated /\ ensure[c].stage = "configure"
        /\ ensure[c].group \in Isolation!Own(Isolation!Of(c))
    BY SMTT(30) DEF Isolation!TypeInv, Isolation!LockInv
  <2>2. /\ \A b \in Isolated \ {Isolation!Of(c)} : grouped'[b] = grouped[b]
        /\ grouped'[Isolation!Of(c)] = ensure[c].seen \cup {ensure[c].group}
    BY <2>1 DEF Isolation!TypeInv
  <2>3. UNCHANGED <<group, keyGroup, record>>
    BY DEF Isolation!ConfigureGroups
  <2>4. group[ensure[c].group] # Isolation!NoName
    BY <2>1, OwnGroups
  <2>5. \A a \in Isolated : \A g \in grouped'[a] : group[g] # Isolation!NoName
    BY <2>1, <2>2, <2>4 DEF Isolation!NameInv
  <2> HIDE DEF Isolation!ConfigureGroups
  <2> QED BY <2>1, <2>3, <2>5, NamesStay
<1>5. Isolation!ForeignInv'
  <2>1. /\ \A k \in Callers : ensure'[k].stage # "configure"
        /\ \A k \in Callers \ {c} : ensure'[k] = ensure[k]
        /\ ensure'[c].stage = "verify" /\ Isolation!Of(c) \in Isolated /\ ensure[c].stage = "configure"
        /\ ensure[c].group \in Isolation!Own(Isolation!Of(c))
    BY SMTT(30) DEF Isolation!TypeInv, Isolation!LockInv
  <2>2. /\ \A b \in Isolated \ {Isolation!Of(c)} : grouped'[b] = grouped[b]
        /\ grouped'[Isolation!Of(c)] = ensure[c].seen \cup {ensure[c].group}
    BY <2>1 DEF Isolation!TypeInv
  <2>3. UNCHANGED <<group, keyGroup, record>>
    BY DEF Isolation!ConfigureGroups
  <2> SUFFICES ASSUME NEW a \in Isolated, NEW b \in Isolated, NEW g \in Isolation!Own(a)', a # b, Isolation!Joins(b, g)'
               PROVE  /\ a \notin Taken /\ ~record'[a].ready
                      /\ \A k \in Callers : ensure'[k].stage = "ready" => ensure'[k].account # a
    BY DEF Isolation!ForeignInv
  <2>4. g \in Isolation!Own(a)
    BY <2>3 DEF Isolation!Own
  <2>5. g \in grouped'[b]
    BY <2>1 DEF Isolation!Joins
  <2>6. Isolation!Joins(b, g)
    BY <2>1, <2>2, <2>4, <2>5, OwnGroups DEF Isolation!Joins
  <2> QED BY <2>1, <2>3, <2>4, <2>6 DEF Isolation!ForeignInv
<1>6. Isolation!MeasuredInv'
  BY DEF Isolation!MeasuredInv
<1> QED BY <1>1, <1>2, <1>3, <1>4, <1>5, <1>6

LEMMA VerifyBindingHolds ==
  ASSUME Isolation!IsolationInv, NEW c \in Callers, Isolation!VerifyBinding(c)
  PROVE  Isolation!IsolationInv'
<1> USE IsolationAssumption DEF Isolation!IsolationInv, Isolation!VerifyBinding, Isolation!GoTo, Isolation!At, Isolation!Of
<1>1. Isolation!TypeInv'
  <2>5. ensure' \in [Callers -> Isolation!Ensures]
    BY EnsureMoves, EnsureStages DEF Isolation!TypeInv
  <2> QED BY <2>5 DEF Isolation!TypeInv, Isolation!Leave
<1>2. Isolation!LockInv'
  BY EnsureStages, SMTT(30) DEF Isolation!TypeInv, Isolation!LockInv, Isolation!Own
<1>3. Isolation!AllowedInv'
  BY SMTT(30) DEF Isolation!TypeInv, Isolation!LockInv, Isolation!AllowedInv
<1>4. Isolation!NameInv'
  BY SMTT(30) DEF Isolation!TypeInv, Isolation!LockInv, Isolation!NameInv, Isolation!Own
<1>5. Isolation!ForeignInv'
  <2>1. /\ Isolation!Of(c)' = Isolation!Of(c) /\ Isolation!Of(c) \in Isolated
        /\ ensure[c].group \in Isolation!Own(Isolation!Of(c)) /\ ensure[c].stage = "verify"
        /\ Isolation!Members(ensure[c].group) \subseteq {Isolation!Of(c)}
        /\ \A k \in Callers \ {c} : ensure'[k] = ensure[k] /\ ensure[k].stage \in {"idle", "lock"}
        /\ ensure'[c].stage = "ready"
    BY SMTT(30) DEF Isolation!TypeInv, Isolation!LockInv, Isolation!OnlyMember
  <2>2. UNCHANGED <<group, grouped, record>>
    BY DEF Isolation!VerifyBinding
  <2> SUFFICES ASSUME NEW a \in Isolated, NEW b \in Isolated, NEW g \in Isolation!Own(a)', a # b, Isolation!Joins(b, g)'
               PROVE  /\ a \notin Taken /\ ~record'[a].ready
                      /\ \A k \in Callers : ensure'[k].stage = "ready" => ensure'[k].account # a
    BY DEF Isolation!ForeignInv
  <2>3. g \in Isolation!Own(a) /\ g \in grouped[b]
    BY <2>1, <2>2 DEF Isolation!Own, Isolation!Joins
  <2>4. a \notin Taken /\ ~record[a].ready
    BY <2>3 DEF Isolation!ForeignInv, Isolation!Joins
  <2>5. Isolation!Of(c) # a
    <3>1. SUFFICES ASSUME Isolation!Of(c) = a PROVE FALSE
      OBVIOUS
    <3>2. g = ensure[c].group
      BY <2>1, <2>3, <2>4, <3>1 DEF Isolation!NameInv, Isolation!Own
    <3> QED BY <2>1, <2>3, <3>1, <3>2 DEF Isolation!Members
  <2> QED BY <2>1, <2>2, <2>4, <2>5
<1>6. Isolation!MeasuredInv'
  BY DEF Isolation!MeasuredInv
<1> QED BY <1>1, <1>2, <1>3, <1>4, <1>5, <1>6

LEMMA ReadyHolds ==
  ASSUME Isolation!IsolationInv, NEW c \in Callers, Isolation!Ready(c)
  PROVE  Isolation!IsolationInv'
<1> USE IsolationAssumption DEF Isolation!IsolationInv, Isolation!Ready, Isolation!GoTo, Isolation!At, Isolation!Of
<1>1. Isolation!TypeInv'
  <2>1. ensure[c].group \in Isolation!GroupIds /\ ensure[c].seen \subseteq Isolation!GroupIds /\ Isolation!Of(c) \in Isolated
    BY DEF Isolation!TypeInv, Isolation!LockInv, Isolation!Own, Isolation!Ensures
  <2>5. ensure' \in [Callers -> Isolation!Ensures]
    BY EnsureMoves DEF Isolation!TypeInv, Isolation!Leave
  <2>6. record' \in [Isolated -> [group : Isolation!GroupIds \cup {Isolation!NoGroup}, ready : BOOLEAN]]
    BY <2>1 DEF Isolation!TypeInv
  <2> QED BY <2>5, <2>6 DEF Isolation!TypeInv, Isolation!Leave
<1>2. Isolation!LockInv'
  <2>1. /\ \A k \in Callers \ {c} : ensure'[k] = ensure[k] /\ ensure[k].stage \in {"idle", "lock"}
        /\ ensure'[c].stage = "idle"
    BY SMTT(30) DEF Isolation!TypeInv, Isolation!LockInv, Isolation!Leave, Isolation!Idle
  <2> QED BY <2>1 DEF Isolation!LockInv
<1>3. Isolation!AllowedInv'
  BY SMTT(30) DEF Isolation!TypeInv, Isolation!LockInv, Isolation!AllowedInv, Isolation!Leave, Isolation!Idle
<1>4. Isolation!NameInv'
  BY SMTT(30) DEF Isolation!TypeInv, Isolation!LockInv, Isolation!NameInv, Isolation!Own, Isolation!Leave, Isolation!Idle
<1>5. Isolation!ForeignInv'
  BY SMTT(30) DEF Isolation!TypeInv, Isolation!LockInv, Isolation!NameInv, Isolation!ForeignInv, Isolation!Joins, Isolation!Own, Isolation!Leave, Isolation!Idle
<1>6. Isolation!MeasuredInv'
  BY DEF Isolation!MeasuredInv, Isolation!Leave, Isolation!Idle
<1> QED BY <1>1, <1>2, <1>3, <1>4, <1>5, <1>6

LEMMA StageFailsHolds ==
  ASSUME Isolation!IsolationInv, NEW c \in Callers, Isolation!StageFails(c)
  PROVE  Isolation!IsolationInv'
<1> USE IsolationAssumption DEF Isolation!IsolationInv, Isolation!StageFails, Isolation!GoTo, Isolation!At, Isolation!Of
<1>1. Isolation!TypeInv'
  <2>5. ensure' \in [Callers -> Isolation!Ensures]
    BY EnsureMoves DEF Isolation!TypeInv, Isolation!Leave
  <2> QED BY <2>5 DEF Isolation!TypeInv, Isolation!Leave
<1>2. Isolation!LockInv'
  <2>1. /\ \A k \in Callers \ {c} : ensure'[k] = ensure[k] /\ ensure[k].stage \in {"idle", "lock"}
        /\ ensure'[c].stage = "idle"
    BY SMTT(30) DEF Isolation!TypeInv, Isolation!LockInv, Isolation!Leave, Isolation!Idle
  <2> QED BY <2>1 DEF Isolation!LockInv
<1>3. Isolation!AllowedInv'
  BY SMTT(30) DEF Isolation!TypeInv, Isolation!LockInv, Isolation!AllowedInv, Isolation!Leave, Isolation!Idle
<1>4. Isolation!NameInv'
  BY SMTT(30) DEF Isolation!TypeInv, Isolation!LockInv, Isolation!NameInv, Isolation!Own, Isolation!Leave, Isolation!Idle
<1>5. Isolation!ForeignInv'
  BY SMTT(30) DEF Isolation!TypeInv, Isolation!LockInv, Isolation!NameInv, Isolation!ForeignInv, Isolation!Joins, Isolation!Own, Isolation!Leave, Isolation!Idle
<1>6. Isolation!MeasuredInv'
  BY DEF Isolation!MeasuredInv, Isolation!Leave, Isolation!Idle
<1> QED BY <1>1, <1>2, <1>3, <1>4, <1>5, <1>6

LEMMA EnterHolds ==
  ASSUME Isolation!IsolationInv, NEW c \in Callers, Isolation!Enter(c)
  PROVE  Isolation!IsolationInv'
<1> USE IsolationAssumption DEF Isolation!IsolationInv, Isolation!Enter, Isolation!GoTo, Isolation!At, Isolation!Of
<1>1. Isolation!TypeInv'
  <2>5. ensure' \in [Callers -> Isolation!Ensures]
    BY EnsureMoves, EnsureStages DEF Isolation!TypeInv
  <2> QED BY <2>5 DEF Isolation!TypeInv, Isolation!Leave
<1>2. Isolation!LockInv'
  <2>1. \A k \in Callers : ensure[k].stage \in {"idle", "lock"}
    BY SMTT(30) DEF Isolation!LockInv, Isolation!Enters
  <2>2. /\ \A k \in Callers \ {c} : ensure'[k] = ensure[k]
        /\ ensure'[c].stage = "group" /\ lock' = c /\ ensure'[c].account = ensure[c].account
    BY SMTT(30) DEF Isolation!TypeInv
  <2> QED BY <2>1, <2>2 DEF Isolation!LockInv
<1>3. Isolation!AllowedInv'
  BY SMTT(30) DEF Isolation!TypeInv, Isolation!LockInv, Isolation!AllowedInv
<1>4. Isolation!NameInv'
  BY SMTT(30) DEF Isolation!TypeInv, Isolation!LockInv, Isolation!NameInv, Isolation!Own
<1>5. Isolation!ForeignInv'
  BY SMTT(30) DEF Isolation!TypeInv, Isolation!LockInv, Isolation!NameInv, Isolation!ForeignInv, Isolation!Joins, Isolation!Own
<1>6. Isolation!MeasuredInv'
  BY DEF Isolation!MeasuredInv
<1> QED BY <1>1, <1>2, <1>3, <1>4, <1>5, <1>6

\* What nobody past the lock is concerned with: a caller begins to wait.
LEMMA AskHolds ==
  ASSUME Isolation!IsolationInv, NEW c \in Callers, NEW a \in Isolated, ensure[c].stage = "idle", Isolation!Ask(c, a),
         UNCHANGED <<group, grouped, allowed, keyGroup, record, lock, measured>>
  PROVE  Isolation!IsolationInv'
<1> USE DEF Isolation!IsolationInv
<1>1. /\ \A k \in Callers \ {c} : ensure'[k] = ensure[k]
      /\ ensure'[c] = [stage |-> "lock", account |-> a, group |-> Isolation!NoGroup, seen |-> {}]
  BY DEF Isolation!TypeInv, Isolation!Ask, Isolation!Idle
<1>2. Isolation!TypeInv'
  <2>1. [Isolation!Idle EXCEPT !.stage = "lock", !.account = a] \in Isolation!Ensures
    BY EnsureStages DEF Isolation!Ensures, Isolation!Idle, Isolation!NoGroup
  <2> QED BY <2>1 DEF Isolation!TypeInv, Isolation!Ask
<1>3. \A b \in Isolated : Isolation!Own(b)' = Isolation!Own(b)
  BY DEF Isolation!Own
<1>4. Isolation!LockInv'
  BY <1>1, <1>3 DEF Isolation!LockInv, Isolation!Of
<1>5. Isolation!AllowedInv'
  BY <1>1 DEF Isolation!AllowedInv, Isolation!At, Isolation!Of
<1>6. Isolation!NameInv'
  BY <1>1, <1>3 DEF Isolation!NameInv, Isolation!At
<1>7. Isolation!ForeignInv'
  BY <1>1, <1>3 DEF Isolation!ForeignInv, Isolation!Joins, Isolation!At, Isolation!Of
<1>8. Isolation!MeasuredInv'
  BY DEF Isolation!MeasuredInv
<1> QED BY <1>2, <1>4, <1>5, <1>6, <1>7, <1>8

\* A probe of an account that is ready reaches no other: its key is in a private
\* group of it, in which nobody else is.
LEMMA IsolatedProbeHolds ==
  ASSUME Isolation!IsolationInv, NEW a \in Isolated, Isolation!Probe(a)
  PROVE  Isolation!IsolationInv'
<1> USE DEF Isolation!IsolationInv
<1>1. UNCHANGED <<group, grouped, allowed, keyGroup, record, lock, ensure>>
  BY DEF Isolation!Probe
<1>2. ASSUME record[a].ready, keyGroup[a] \in allowed
      PROVE  Isolation!Members(keyGroup[a]) \subseteq {a}
  <2>1. keyGroup[a] \in Isolation!Own(a)
    <3>1. keyGroup[a] # Isolation!NoGroup
      BY <1>2 DEF Isolation!TypeInv, Isolation!GroupIds, Isolation!NoGroup
    <3> QED BY <3>1 DEF Isolation!NameInv
  <2> QED BY <1>2, <2>1 DEF Isolation!ForeignInv, Isolation!Joins, Isolation!Members
<1>3. \A pair \in measured' : pair[1] = pair[2]
  BY <1>2 DEF Isolation!Probe, Isolation!MeasuredInv
<1>4. Isolation!TypeInv' /\ Isolation!LockInv' /\ Isolation!AllowedInv'
  BY <1>1 DEF Isolation!TypeInv, Isolation!LockInv, Isolation!AllowedInv, Isolation!At, Isolation!Of, Isolation!Own
<1>5. Isolation!NameInv' /\ Isolation!ForeignInv'
  BY <1>1 DEF Isolation!NameInv, Isolation!ForeignInv, Isolation!Joins, Isolation!At, Isolation!Of, Isolation!Own
<1> QED BY <1>3, <1>4, <1>5 DEF Isolation!MeasuredInv

\* Fewer accounts in groups are no harm.
LEMMA RegroupHolds ==
  ASSUME Isolation!IsolationInv, NEW a \in Isolated, Isolation!Regroup(a)
  PROVE  Isolation!IsolationInv'
<1> USE DEF Isolation!IsolationInv
<1>1. UNCHANGED <<group, allowed, keyGroup, record, lock, ensure, measured>> /\ grouped' = [grouped EXCEPT ![a] = {}]
  BY DEF Isolation!Regroup
<1>2. \A b \in Isolated : grouped'[b] \subseteq grouped[b] /\ Isolation!Own(b)' = Isolation!Own(b)
  BY <1>1 DEF Isolation!TypeInv, Isolation!Own
<1>3. Isolation!TypeInv'
  BY <1>1 DEF Isolation!TypeInv
<1>4. Isolation!LockInv' /\ Isolation!AllowedInv' /\ Isolation!MeasuredInv'
  BY <1>1, <1>2 DEF Isolation!LockInv, Isolation!AllowedInv, Isolation!MeasuredInv, Isolation!At, Isolation!Of
<1>5. Isolation!NameInv'
  BY <1>1, <1>2 DEF Isolation!NameInv, Isolation!At
<1>6. Isolation!ForeignInv'
  BY <1>1, <1>2 DEF Isolation!ForeignInv, Isolation!Joins, Isolation!At, Isolation!Of
<1> QED BY <1>3, <1>4, <1>5, <1>6

LEMMA IsolationRestartHolds ==
  ASSUME Isolation!IsolationInv, Isolation!Restart
  PROVE  Isolation!IsolationInv'
<1> USE DEF Isolation!IsolationInv
<1>1. UNCHANGED <<group, grouped, allowed, keyGroup, record, measured>> /\ ensure' = [c \in Callers |-> Isolation!Idle]
  BY DEF Isolation!Restart
<1>2. ensure' \in [Callers -> Isolation!Ensures] /\ \A c \in Callers : ensure'[c].stage = "idle"
  <2>1. Isolation!Idle \in Isolation!Ensures /\ Isolation!Idle.stage = "idle"
    BY EnsureStages DEF Isolation!Ensures, Isolation!Idle, Isolation!NoGroup
  <2> QED BY <1>1, <2>1
<1>3. \A b \in Isolated : Isolation!Own(b)' = Isolation!Own(b)
  BY <1>1 DEF Isolation!Own
<1>4. Isolation!TypeInv' /\ Isolation!LockInv' /\ Isolation!AllowedInv' /\ Isolation!MeasuredInv'
  BY <1>1, <1>2 DEF Isolation!TypeInv, Isolation!LockInv, Isolation!AllowedInv, Isolation!MeasuredInv, Isolation!At
<1>5. Isolation!NameInv' /\ Isolation!ForeignInv'
  BY <1>1, <1>2, <1>3 DEF Isolation!NameInv, Isolation!ForeignInv, Isolation!Joins, Isolation!At
<1> QED BY <1>4, <1>5

LEMMA IsolationNextHolds ==
  ASSUME Isolation!IsolationInv, [Isolation!Next]_(Isolation!isolationVars)
  PROVE  Isolation!IsolationInv'
<1>1. ASSUME NEW c \in Callers,
             \/ Isolation!Enter(c) \/ Isolation!FindOrCreateGroup(c) \/ Isolation!Record(c) \/ Isolation!FindUser(c)
             \/ Isolation!EnsureMonitorUser(c) \/ Isolation!EnsureUserAndKey(c) \/ Isolation!KeepKey(c)
             \/ Isolation!FindAccount(c) \/ Isolation!ConfigureGroups(c) \/ Isolation!VerifyBinding(c)
             \/ Isolation!Ready(c) \/ Isolation!StageFails(c)
      PROVE  Isolation!IsolationInv'
  BY <1>1, EnterHolds, FindOrCreateGroupHolds, IsolationRecordHolds, FindUserHolds, EnsureMonitorUserHolds, EnsureUserAndKeyHolds,
     KeepKeyHolds, FindAccountHolds, ConfigureGroupsHolds, VerifyBindingHolds, ReadyHolds, StageFailsHolds
<1>2. ASSUME NEW c \in Callers, NEW a \in Isolated, Isolation!Ensure(c, a)
      PROVE  Isolation!IsolationInv'
  BY <1>2, AskHolds DEF Isolation!Ensure, Isolation!At
<1>3. ASSUME NEW a \in Isolated, Isolation!Repair(a)
      PROVE  Isolation!IsolationInv'
  BY <1>3, AskHolds, IsolationAssumption DEF Isolation!Repair, Isolation!At
<1>4. ASSUME NEW a \in Isolated, Isolation!Probe(a) \/ Isolation!Regroup(a)
      PROVE  Isolation!IsolationInv'
  BY <1>4, IsolatedProbeHolds, RegroupHolds
<1>5. CASE Isolation!Restart
  BY <1>5, IsolationRestartHolds
<1>6. ASSUME UNCHANGED <<group, grouped, allowed, keyGroup, record, lock, ensure, measured>>
      PROVE  Isolation!IsolationInv'
  <2>1. Isolation!TypeInv' /\ Isolation!LockInv' /\ Isolation!AllowedInv' /\ Isolation!MeasuredInv'
    BY <1>6 DEF Isolation!IsolationInv, Isolation!TypeInv, Isolation!LockInv, Isolation!AllowedInv, Isolation!MeasuredInv,
                Isolation!At, Isolation!Of, Isolation!Own
  <2>2. Isolation!NameInv' /\ Isolation!ForeignInv'
    BY <1>6 DEF Isolation!IsolationInv, Isolation!NameInv, Isolation!ForeignInv, Isolation!Joins, Isolation!At, Isolation!Of,
                Isolation!Own
  <2> QED BY <2>1, <2>2 DEF Isolation!IsolationInv
<1>7. ASSUME \/ \E planned \in SUBSET Isolated : Isolation!RunRound(planned, 1)
             \/ Isolation!Repaired \/ Isolation!RoundEnds \/ UNCHANGED Isolation!isolationVars
      PROVE  Isolation!IsolationInv'
  BY <1>6, <1>7 DEF Isolation!RunRound, Isolation!Repaired, Isolation!RoundEnds, Isolation!isolationVars
<1> QED BY <1>1, <1>2, <1>3, <1>4, <1>5, <1>7 DEF Isolation!Next

LEMMA IsolationInitHolds == ASSUME Isolation!Init PROVE Isolation!IsolationInv
<1>1. Isolation!Idle \in Isolation!Ensures /\ Isolation!Idle.stage = "idle"
  BY EnsureStages DEF Isolation!Ensures, Isolation!Idle, Isolation!NoGroup
<1>2. /\ ensure \in [Callers -> Isolation!Ensures] /\ \A c \in Callers : ensure[c].stage = "idle"
      /\ allowed = {} /\ measured = {} /\ keyGroup = [a \in Isolated |-> Isolation!NoGroup]
      /\ record = [a \in Isolated |-> Isolation!NoRecord]
  BY <1>1 DEF Isolation!Init
<1>3. PICK a \in Isolated, foreign \in SUBSET Isolated :
        /\ group \in {[g \in Isolation!GroupIds |-> Isolation!NoName],
                      [g \in Isolation!GroupIds |-> IF g = 1 THEN [of |-> a, base |-> TRUE] ELSE Isolation!NoName]}
        /\ grouped = [b \in Isolated |-> IF b \in foreign /\ group[1] # Isolation!NoName THEN {1} ELSE {}]
  BY DEF Isolation!Init
<1>4. 1 \in Isolation!GroupIds
  BY IsolationAssumption DEF Isolation!GroupIds
<1>5. Isolation!NoName \in [of : Isolated \cup {Isolation!Nobody}, base : BOOLEAN]
  BY DEF Isolation!NoName
<1>6. Isolation!NoRecord \in [group : Isolation!GroupIds \cup {Isolation!NoGroup}, ready : BOOLEAN] /\ ~Isolation!NoRecord.ready
  BY DEF Isolation!NoRecord
<1>7. group \in [Isolation!GroupIds -> [of : Isolated \cup {Isolation!Nobody}, base : BOOLEAN]]
  <2>1. [of |-> a, base |-> TRUE] \in [of : Isolated \cup {Isolation!Nobody}, base : BOOLEAN]
    OBVIOUS
  <2>2. CASE group = [g \in Isolation!GroupIds |-> Isolation!NoName]
    BY <1>5, <2>2
  <2>3. CASE group = [g \in Isolation!GroupIds |-> IF g = 1 THEN [of |-> a, base |-> TRUE] ELSE Isolation!NoName]
    BY <1>5, <2>1, <2>3
  <2> QED BY <1>3, <2>2, <2>3
<1>8. \A b \in Isolated : \A g \in Isolation!Own(b) : g = 1
  <2>1. \A g \in Isolation!GroupIds : g = 1 \/ group[g].of = Isolation!Nobody
    BY <1>3 DEF Isolation!NoName
  <2> QED BY <2>1, IsolationAssumption DEF Isolation!Own
<1>9. Isolation!TypeInv
  BY <1>2, <1>3, <1>4, <1>6, <1>7 DEF Isolation!TypeInv
<1>10. Isolation!LockInv /\ Isolation!AllowedInv /\ Isolation!MeasuredInv
  BY <1>2, <1>6 DEF Isolation!LockInv, Isolation!AllowedInv, Isolation!MeasuredInv, Isolation!At
<1>11. Isolation!NameInv
  BY <1>2, <1>3, <1>8 DEF Isolation!NameInv, Isolation!At
<1>12. Isolation!ForeignInv
  <2> SUFFICES ASSUME NEW o \in Isolated, NEW b \in Isolated, NEW g \in Isolation!Own(o), o # b
               PROVE  o \notin Taken /\ ~record[o].ready
    BY <1>2 DEF Isolation!ForeignInv, Isolation!At
  <2>1. group[g] = [of |-> o, base |-> o \notin Taken] /\ g = 1
    BY <1>8 DEF Isolation!Own
  <2>2. group[1].base = TRUE
    BY <1>3, <1>4 DEF Isolation!NoName
  <2> QED BY <1>2, <1>6, <2>1, <2>2
<1> QED BY <1>9, <1>10, <1>11, <1>12 DEF Isolation!IsolationInv

LEMMA IsolationInvSuffices == Isolation!IsolationInv => Isolation!ProbesReachTheirAccount
BY DEF Isolation!IsolationInv, Isolation!AllowedInv, Isolation!MeasuredInv, Isolation!ProbesReachTheirAccount

-----------------------------------------------------------------------------
(* Rounds of probes *)

round == v6
lastRound == v8
USE DEF round, lastRound

\* A round that is left alone stays in order.
LEMMA RoundsStay ==
  ASSUME Rounds!RoundInv, UNCHANGED round, Rounds!RoundsTellTheirProbes'
  PROVE  Rounds!RoundInv'
BY DEF Rounds!RoundInv, Rounds!StageInv, Rounds!CountInv, Rounds!OutcomeInv, Rounds!Open, Rounds!IsRound

LEMMA RoundRunHolds ==
  ASSUME Rounds!RoundInv, NEW explicit, NEW scoped, NEW loops, Rounds!Run(explicit, scoped, loops)
  PROVE  Rounds!RoundInv'
<1>1. CASE round # Rounds!NoRun
  <2>1. UNCHANGED round /\ lastRound' = Rounds!Nothing("skipped")
    BY <1>1 DEF Rounds!Run, Rounds!AddRound
  <2>2. Rounds!RoundsTellTheirProbes'
    BY <2>1 DEF Rounds!RoundsTellTheirProbes, Rounds!Nothing
  <2> QED BY <2>1, <2>2, RoundsStay
<1>2. CASE round = Rounds!NoRun
  <2>1. /\ Rounds!IsRound(round') /\ round'.stage = "plan" /\ round'.loop = 0
        /\ round'.plan = {} /\ round'.probing = {} /\ round'.owed = {} /\ round'.well = {} /\ round'.unready = {}
        /\ round'.succeeded = 0 /\ round'.failed = 0
        /\ lastRound' = Rounds!NoRecord
    BY <1>2 DEF Rounds!Run, Rounds!IsRound
  <2>2. Rounds!StageInv' /\ Rounds!CountInv' /\ Rounds!OutcomeInv'
    BY <2>1 DEF Rounds!StageInv, Rounds!CountInv, Rounds!OutcomeInv, Rounds!Open, Rounds!IsRound
  <2> QED BY <2>1, <2>2 DEF Rounds!RoundInv, Rounds!RoundsTellTheirProbes
<1> QED BY <1>1, <1>2

\* The accounts of the plan are open in the new loop, those of earlier loops are not.
LEMMA PlanHolds ==
  ASSUME Rounds!RoundInv, Rounds!Plan
  PROVE  Rounds!RoundInv'
<1> DEFINE planned == Rounds!Planned(round.explicit, round.scoped)
           live == Rounds!InTurn(planned \cap v1)
<1>1. /\ round.stage = "plan"
      /\ round' = [round EXCEPT !.stage = "repair", !.loop = round.loop + 1, !.left = round.left - 1,
                                !.plan = planned, !.member = v3, !.todo = live,
                                !.owed = round.owed \cup {<<round.loop + 1, a>> : a \in planned \cap v1}]
      /\ UNCHANGED lastRound
  BY DEF Rounds!Plan
<1> HIDE DEF planned, live
<1>2. Rounds!StageInv /\ Rounds!CountInv /\ Rounds!OutcomeInv /\ Rounds!RoundsTellTheirProbes
  BY DEF Rounds!RoundInv, Rounds!Plan
<1>3. /\ Rounds!IsRound(round') /\ round'.stage = "repair" /\ round'.loop = round.loop + 1 /\ round'.plan = planned
      /\ round'.owed = round.owed \cup {<<round.loop + 1, a>> : a \in planned \cap v1}
      /\ round'.probing = round.probing /\ round'.well = round.well /\ round'.unready = round.unready
      /\ round'.succeeded = round.succeeded /\ round'.failed = round.failed
  BY <1>1, <1>2 DEF Rounds!StageInv, Rounds!IsRound
<1>4. round.plan = {} /\ round.probing = {} /\ round.loop \in Nat
  BY <1>1, <1>2 DEF Rounds!StageInv, Rounds!CountInv
<1>5. Rounds!Open = {} /\ Rounds!Open' = {<<round.loop + 1, a>> : a \in planned \cap v1}
  <2>1. Rounds!Open = {}
    BY <1>4 DEF Rounds!Open
  <2>2. \A pair \in round.owed : pair[1] # round.loop + 1
    BY <1>2, <1>4 DEF Rounds!CountInv
  <2>3. \A pair \in Rounds!Open' : pair \in {<<round.loop + 1, a>> : a \in planned \cap v1}
    BY <1>3, <2>2 DEF Rounds!Open
  <2>4. \A pair \in {<<round.loop + 1, a>> : a \in planned \cap v1} : pair \in Rounds!Open'
    BY <1>3, <1>4 DEF Rounds!Open
  <2> QED BY <2>1, <2>3, <2>4
<1>6. Rounds!StageInv'
  BY <1>3, <1>4 DEF Rounds!StageInv
<1>7. \A pair \in round.owed : pair \notin Rounds!Open'
  BY <1>2, <1>4, <1>5 DEF Rounds!CountInv
<1>8. Rounds!CountInv'
  <2>1. \A pair \in round'.owed : pair = <<pair[1], pair[2]>> /\ pair[1] \in Nat /\ pair[1] <= round'.loop
    BY <1>2, <1>3, <1>4 DEF Rounds!CountInv
  <2>2. round'.well \subseteq round'.owed \ Rounds!Open'
    BY <1>2, <1>3, <1>5, <1>7 DEF Rounds!CountInv
  <2> QED BY <1>2, <1>3, <1>4, <2>1, <2>2 DEF Rounds!CountInv
<1>9. Rounds!OutcomeInv'
  BY <1>2, <1>3, <1>5, <1>7 DEF Rounds!OutcomeInv, Rounds!CountInv
<1>10. Rounds!RoundsTellTheirProbes'
  BY <1>1, <1>2 DEF Rounds!RoundsTellTheirProbes
<1> QED BY <1>6, <1>8, <1>9, <1>10 DEF Rounds!RoundInv

\* A round that ends without a row of its own, or with one that says nothing happened.
LEMMA RoundEndsHold ==
  ASSUME Rounds!RoundInv, round' = Rounds!NoRun, UNCHANGED lastRound \/ lastRound' = Rounds!Nothing("failed")
  PROVE  Rounds!RoundInv'
BY DEF Rounds!RoundInv, Rounds!RoundsTellTheirProbes, Rounds!Nothing

\* A step of the repairs: the first account to do is ready, or has to wait, or is
\* repaired, or its repair fails.
LEMMA RepairsAreSteps ==
  ASSUME Rounds!RoundInv, Rounds!Repair
  PROVE  /\ round # Rounds!NoRun /\ round.stage = "repair" /\ round.todo # <<>>
         /\ UNCHANGED <<v1, v2, v4, v5, lastRound>>
         /\ Rounds!IsRound(round') /\ round'.stage = "repair" /\ round'.loop = round.loop /\ round'.plan = round.plan
         /\ round'.member = round.member /\ round'.owed = round.owed /\ round'.probing = round.probing
         /\ round'.well = round.well /\ round'.succeeded = round.succeeded /\ round'.failed = round.failed
         /\ round'.todo = Tail(round.todo)
         /\ \/ /\ Rounds!Ready(Head(round.todo)) /\ UNCHANGED <<v3, v9>>
               /\ round'.budget = round.budget /\ round'.repaired = round.repaired /\ round'.unready = round.unready
            \/ /\ round.budget = 0 /\ UNCHANGED <<v3, v9>>
               /\ round'.budget = round.budget /\ round'.repaired = round.repaired
               /\ round'.unready = round.unready \cup {Head(round.todo)}
            \/ /\ round.budget > 0 /\ Head(round.todo) \notin v4 /\ v3' = v3 \cup {Head(round.todo)} /\ UNCHANGED v9
               /\ round'.budget = round.budget - 1 /\ round'.repaired = round.repaired \cup {Head(round.todo)}
               /\ round'.unready = round.unready
            \/ /\ round.budget > 0 /\ UNCHANGED v3 /\ ((Head(round.todo) \in v4 /\ UNCHANGED v9) \/ Rounds!Undisturbed)
               /\ round'.budget = round.budget - 1 /\ round'.repaired = round.repaired
               /\ round'.unready = round.unready \cup {Head(round.todo)}
<1> DEFINE a == Head(round.todo)
           rest == Tail(round.todo)
           next == [round EXCEPT !.todo = rest]
<1>1. round # Rounds!NoRun /\ round.stage = "repair" /\ round.todo # <<>> /\ UNCHANGED <<v1, v2, v4, v5, lastRound>>
  BY DEF Rounds!Repair, Rounds!scope
<1>2. Rounds!IsRound(round)
  BY <1>1 DEF Rounds!RoundInv, Rounds!StageInv
<1> HIDE DEF a, rest
<1>3. /\ Rounds!IsRound(next) /\ next.stage = round.stage /\ next.loop = round.loop /\ next.plan = round.plan
      /\ next.member = round.member /\ next.owed = round.owed /\ next.probing = round.probing
      /\ next.well = round.well /\ next.succeeded = round.succeeded /\ next.failed = round.failed
      /\ next.todo = rest
      /\ next.budget = round.budget /\ next.repaired = round.repaired /\ next.unready = round.unready
  <2>1. next = [explicit |-> round.explicit, scoped |-> round.scoped, left |-> round.left, loop |-> round.loop,
                stage |-> round.stage, plan |-> round.plan, member |-> round.member, todo |-> rest,
                probing |-> round.probing, budget |-> round.budget, repaired |-> round.repaired,
                unready |-> round.unready, succeeded |-> round.succeeded, failed |-> round.failed,
                owed |-> round.owed, well |-> round.well]
    BY <1>2 DEF Rounds!IsRound
  <2> HIDE DEF next
  <2> QED BY <2>1 DEF Rounds!IsRound
<1>4. \/ Rounds!Ready(a) /\ round' = next /\ UNCHANGED <<v3, v9>>
      \/ round.budget = 0 /\ round' = [next EXCEPT !.unready = next.unready \cup {a}] /\ UNCHANGED <<v3, v9>>
      \/ /\ round.budget > 0 /\ a \notin v4 /\ v3' = v3 \cup {a} /\ UNCHANGED v9
         /\ round' = [next EXCEPT !.budget = next.budget - 1, !.repaired = next.repaired \cup {a}]
      \/ /\ round.budget > 0 /\ UNCHANGED v3 /\ ((a \in v4 /\ UNCHANGED v9) \/ Rounds!Undisturbed)
         /\ round' = [next EXCEPT !.budget = next.budget - 1, !.unready = next.unready \cup {a}]
  BY SMTT(30) DEF Rounds!Repair, a, rest
<1> HIDE DEF next
<1>5. CASE Rounds!Ready(a) /\ round' = next /\ UNCHANGED <<v3, v9>>
  BY <1>1, <1>3, <1>5, Zenon DEF a, rest
<1>6. CASE round.budget = 0 /\ round' = [next EXCEPT !.unready = next.unready \cup {a}] /\ UNCHANGED <<v3, v9>>
  <2>1. /\ Rounds!IsRound(round') /\ round'.stage = next.stage /\ round'.loop = next.loop /\ round'.plan = next.plan
        /\ round'.member = next.member /\ round'.owed = next.owed /\ round'.probing = next.probing
        /\ round'.well = next.well /\ round'.succeeded = next.succeeded /\ round'.failed = next.failed
        /\ round'.todo = next.todo
        /\ round'.budget = next.budget /\ round'.repaired = next.repaired /\ round'.unready = next.unready \cup {a}
    BY <1>3, <1>6 DEF Rounds!IsRound
  <2> QED BY <1>1, <1>3, <1>6, <2>1, Zenon DEF a, rest
<1>7. CASE /\ round.budget > 0 /\ a \notin v4 /\ v3' = v3 \cup {a} /\ UNCHANGED v9
           /\ round' = [next EXCEPT !.budget = next.budget - 1, !.repaired = next.repaired \cup {a}]
  <2>1. /\ Rounds!IsRound(round') /\ round'.stage = next.stage /\ round'.loop = next.loop /\ round'.plan = next.plan
        /\ round'.member = next.member /\ round'.owed = next.owed /\ round'.probing = next.probing
        /\ round'.well = next.well /\ round'.succeeded = next.succeeded /\ round'.failed = next.failed
        /\ round'.todo = next.todo
        /\ round'.budget = next.budget - 1 /\ round'.repaired = next.repaired \cup {a} /\ round'.unready = next.unready
    BY <1>3, <1>7 DEF Rounds!IsRound
  <2> QED BY <1>1, <1>3, <1>7, <2>1, Zenon DEF a, rest
<1>8. CASE /\ round.budget > 0 /\ UNCHANGED v3 /\ ((a \in v4 /\ UNCHANGED v9) \/ Rounds!Undisturbed)
           /\ round' = [next EXCEPT !.budget = next.budget - 1, !.unready = next.unready \cup {a}]
  <2>1. /\ Rounds!IsRound(round') /\ round'.stage = next.stage /\ round'.loop = next.loop /\ round'.plan = next.plan
        /\ round'.member = next.member /\ round'.owed = next.owed /\ round'.probing = next.probing
        /\ round'.well = next.well /\ round'.succeeded = next.succeeded /\ round'.failed = next.failed
        /\ round'.todo = next.todo
        /\ round'.budget = next.budget - 1 /\ round'.repaired = next.repaired /\ round'.unready = next.unready \cup {a}
    BY <1>3, <1>8 DEF Rounds!IsRound
  <2> QED BY <1>1, <1>3, <1>8, <2>1, Zenon DEF a, rest
<1> QED BY <1>4, <1>5, <1>6, <1>7, <1>8

LEMMA RoundRepairHolds ==
  ASSUME Rounds!RoundInv, Rounds!Repair
  PROVE  Rounds!RoundInv'
<1>1. Rounds!StageInv /\ Rounds!CountInv /\ Rounds!OutcomeInv /\ Rounds!RoundsTellTheirProbes
  BY RepairsAreSteps DEF Rounds!RoundInv
<1>2. /\ Rounds!IsRound(round') /\ round'.stage = round.stage /\ round'.loop = round.loop /\ round'.plan = round.plan
      /\ round'.owed = round.owed /\ round'.probing = round.probing /\ round'.well = round.well
      /\ round'.succeeded = round.succeeded /\ round'.failed = round.failed /\ UNCHANGED lastRound
  BY RepairsAreSteps
<1>3. round.unready \subseteq round'.unready
  <2>1. \A a : round.unready \subseteq round.unready \cup {a}
    OBVIOUS
  <2>2. round'.unready = round.unready \/ \E a : round'.unready = round.unready \cup {a}
    BY RepairsAreSteps, Zenon
  <2> QED BY <2>1, <2>2
<1>4. Rounds!Open' = Rounds!Open
  BY <1>2 DEF Rounds!Open
<1>5. Rounds!StageInv'
  BY <1>1, <1>2 DEF Rounds!StageInv
<1>6. Rounds!CountInv'
  BY <1>1, <1>2, <1>4 DEF Rounds!CountInv
<1>7. Rounds!OutcomeInv'
  BY <1>1, <1>2, <1>3, <1>4 DEF Rounds!OutcomeInv
<1>8. Rounds!RoundsTellTheirProbes'
  BY <1>1, <1>2 DEF Rounds!RoundsTellTheirProbes
<1> QED BY <1>5, <1>6, <1>7, <1>8 DEF Rounds!RoundInv

\* Whoever is planned is probed, or counts as unready.
LEMMA RoundStartHolds ==
  ASSUME Rounds!RoundInv, Rounds!Start
  PROVE  Rounds!RoundInv'
<1>1. Rounds!StageInv /\ Rounds!CountInv /\ Rounds!OutcomeInv /\ Rounds!RoundsTellTheirProbes
  BY DEF Rounds!RoundInv, Rounds!Start, Rounds!NoRun
<1> DEFINE ready == {a \in round.plan : <<round.loop, a>> \in round.owed /\ (a \in round.repaired \/ Rounds!Ready(a))}
<1>2. /\ round.stage = "repair"
      /\ round' = [round EXCEPT !.stage = "probe", !.probing = ready, !.unready = round.unready \cup Rounds!Unready(round),
                                !.plan = {}, !.member = {}]
      /\ UNCHANGED lastRound
  BY DEF Rounds!Start, Rounds!Reached
<1>3. \A a \in round.plan : <<round.loop, a>> \in round.owed => a \in ready \/ a \in Rounds!Unready(round)
  BY DEF Rounds!Unready, Rounds!Ready
<1>4. ready \subseteq round.plan /\ \A a \in ready : <<round.loop, a>> \in round.owed
  OBVIOUS
<1> HIDE DEF ready
<1>5. /\ Rounds!IsRound(round') /\ round'.stage = "probe" /\ round'.loop = round.loop /\ round'.plan = {}
      /\ round'.owed = round.owed /\ round'.probing = ready /\ round'.well = round.well
      /\ round'.unready = round.unready \cup Rounds!Unready(round)
      /\ round'.succeeded = round.succeeded /\ round'.failed = round.failed
  BY <1>1, <1>2 DEF Rounds!StageInv, Rounds!IsRound
<1>6. Rounds!Open' \subseteq Rounds!Open
  BY <1>4, <1>5 DEF Rounds!Open
<1>7. Rounds!Unready(round) = {} => Rounds!Open \subseteq Rounds!Open'
  <2> SUFFICES ASSUME Rounds!Unready(round) = {}, NEW pair \in round.owed, pair[1] = round.loop, pair[2] \in round.plan
               PROVE  pair[2] \in ready
    BY <1>1, <1>2, <1>5 DEF Rounds!Open, Rounds!StageInv
  <2>1. pair = <<round.loop, pair[2]>>
    BY <1>1 DEF Rounds!CountInv
  <2> QED BY <1>3, <2>1
<1>8. Rounds!StageInv'
  BY <1>4, <1>5 DEF Rounds!StageInv
<1>9. Rounds!CountInv'
  BY <1>1, <1>5, <1>6 DEF Rounds!CountInv
<1>10. Rounds!OutcomeInv'
  <2>1. round'.unready = {} => round.unready = {} /\ Rounds!Unready(round) = {}
    BY <1>5
  <2> QED BY <1>1, <1>5, <1>6, <1>7, <2>1 DEF Rounds!OutcomeInv
<1>11. Rounds!RoundsTellTheirProbes'
  BY <1>1, <1>2 DEF Rounds!RoundsTellTheirProbes
<1> QED BY <1>8, <1>9, <1>10, <1>11 DEF Rounds!RoundInv

\* A probe that was not well is never made good: its account was open, and is no more.
LEMMA RoundProbeHolds ==
  ASSUME Rounds!RoundInv, NEW a \in Probed, NEW logged \in BOOLEAN, NEW answered \in BOOLEAN,
         Rounds!Probe(a, logged, answered)
  PROVE  Rounds!RoundInv'
<1>1. Rounds!StageInv /\ Rounds!CountInv /\ Rounds!OutcomeInv /\ Rounds!RoundsTellTheirProbes
  BY DEF Rounds!RoundInv, Rounds!Probe
<1> DEFINE this == <<round.loop, a>>
           good == logged /\ answered
<1>2. /\ round.stage = "probe" /\ a \in round.probing
      /\ round' = [round EXCEPT !.probing = round.probing \ {a},
                                !.well = IF good THEN round.well \cup {this} ELSE round.well,
                                !.succeeded = round.succeeded + (IF good THEN 1 ELSE 0),
                                !.failed = round.failed + (IF good THEN 0 ELSE 1)]
      /\ UNCHANGED lastRound
  BY DEF Rounds!Probe, Rounds!Well
<1>3. /\ Rounds!IsRound(round') /\ round'.stage = "probe" /\ round'.loop = round.loop /\ round'.plan = round.plan
      /\ round'.owed = round.owed /\ round'.probing = round.probing \ {a} /\ round'.unready = round.unready
      /\ round'.well = (IF good THEN round.well \cup {this} ELSE round.well)
      /\ round'.succeeded = round.succeeded + (IF good THEN 1 ELSE 0)
      /\ round'.failed = round.failed + (IF good THEN 0 ELSE 1)
  BY <1>1, <1>2 DEF Rounds!StageInv, Rounds!IsRound
<1>4. this \in Rounds!Open
  BY <1>1, <1>2 DEF Rounds!StageInv, Rounds!Open
<1>5. Rounds!Open' = Rounds!Open \ {this}
  <2>1. \A pair \in round.owed : pair[1] = round.loop => (pair[2] = a <=> pair = this)
    BY <1>1 DEF Rounds!CountInv
  <2>2. round.plan = {}
    BY <1>1, <1>2 DEF Rounds!StageInv
  <2> HIDE DEF this
  <2>3. \A pair : pair \in Rounds!Open' <=> pair \in Rounds!Open \ {this}
    BY <1>3, <2>1, <2>2 DEF Rounds!Open
  <2> QED BY <2>3
<1>6. this \in round.owed /\ this \notin round.well
  BY <1>1, <1>4 DEF Rounds!CountInv, Rounds!Open
<1> HIDE DEF this
<1>7. Rounds!StageInv'
  BY <1>1, <1>2, <1>3 DEF Rounds!StageInv
<1>8. Rounds!CountInv'
  <2>1. round'.well \subseteq round'.owed \ Rounds!Open'
    BY <1>1, <1>3, <1>5, <1>6 DEF Rounds!CountInv
  <2>2. CASE good
    <3>1. round'.well # {} /\ round'.succeeded = round.succeeded + 1 /\ round'.failed = round.failed + 0
      BY <1>3, <2>2
    <3> QED BY <1>1, <1>3, <2>1, <3>1 DEF Rounds!CountInv
  <2>3. CASE ~good
    <3>1. round'.well = round.well /\ round'.succeeded = round.succeeded + 0 /\ round'.failed = round.failed + 1
      BY <1>3, <2>3
    <3> QED BY <1>1, <1>3, <2>1, <3>1 DEF Rounds!CountInv
  <2> QED BY <2>2, <2>3
<1>9. Rounds!OutcomeInv'
  <2>1. CASE good
    <3>1. round'.well = round.well \cup {this} /\ round'.failed = round.failed
      BY <1>1, <1>3, <2>1 DEF Rounds!CountInv
    <3> QED BY <1>1, <1>3, <1>4, <1>5, <3>1 DEF Rounds!OutcomeInv
  <2>2. CASE ~good
    <3>1. round'.well = round.well /\ round'.failed > 0
      BY <1>1, <1>3, <2>2 DEF Rounds!CountInv
    <3>2. ~(round'.owed \subseteq round'.well \cup Rounds!Open')
      BY <1>3, <1>5, <1>6, <3>1
    <3>3. round'.failed # 0
      BY <1>1, <1>3, <2>2 DEF Rounds!CountInv
    <3> QED BY <3>2, <3>3 DEF Rounds!OutcomeInv
  <2> QED BY <2>1, <2>2
<1>10. Rounds!RoundsTellTheirProbes'
  BY <1>1, <1>2 DEF Rounds!RoundsTellTheirProbes
<1> QED BY <1>7, <1>8, <1>9, <1>10 DEF Rounds!RoundInv

LEMMA RoundAgainHolds ==
  ASSUME Rounds!RoundInv, Rounds!Again
  PROVE  Rounds!RoundInv'
<1>1. Rounds!StageInv /\ Rounds!CountInv /\ Rounds!OutcomeInv /\ Rounds!RoundsTellTheirProbes
  BY DEF Rounds!RoundInv, Rounds!Again
<1>2. /\ round.stage = "probe" /\ round.probing = {} /\ round' = [round EXCEPT !.stage = "plan"] /\ UNCHANGED lastRound
  BY DEF Rounds!Again
<1>3. /\ Rounds!IsRound(round') /\ round'.stage = "plan" /\ round'.loop = round.loop /\ round'.plan = round.plan
      /\ round'.owed = round.owed /\ round'.probing = round.probing /\ round'.well = round.well
      /\ round'.unready = round.unready /\ round'.succeeded = round.succeeded /\ round'.failed = round.failed
  BY <1>1, <1>2 DEF Rounds!StageInv, Rounds!IsRound
<1>4. Rounds!Open' = Rounds!Open
  BY <1>3 DEF Rounds!Open
<1>5. Rounds!StageInv'
  BY <1>1, <1>2, <1>3 DEF Rounds!StageInv
<1>6. Rounds!CountInv' /\ Rounds!OutcomeInv'
  BY <1>1, <1>3, <1>4 DEF Rounds!CountInv, Rounds!OutcomeInv
<1>7. Rounds!RoundsTellTheirProbes'
  BY <1>1, <1>2 DEF Rounds!RoundsTellTheirProbes
<1> QED BY <1>5, <1>6, <1>7 DEF Rounds!RoundInv

\* The end of a round: nothing is open any more.
LEMMA RoundFinishHolds ==
  ASSUME Rounds!RoundInv, Rounds!Finish
  PROVE  Rounds!RoundInv'
<1>1. Rounds!StageInv /\ Rounds!CountInv /\ Rounds!OutcomeInv
  BY DEF Rounds!RoundInv, Rounds!Finish
<1>2. /\ round.stage = "probe" /\ round.probing = {} /\ round' = Rounds!NoRun
      /\ lastRound'.status = Rounds!RoundStatus(round.succeeded, round.failed, round.unready)
      /\ lastRound'.unready = (round.unready # {})
      /\ lastRound'.all = (round.well = round.owed) /\ lastRound'.some = (round.well # {})
  BY DEF Rounds!Finish, Rounds!AddRound
<1>3. Rounds!Open = {} /\ round.well \subseteq round.owed
  BY <1>1, <1>2 DEF Rounds!StageInv, Rounds!CountInv, Rounds!Open
<1>4. /\ round.unready = {} /\ round.failed = 0 => round.well = round.owed
      /\ round.failed > 0 => round.well # round.owed
  BY <1>1, <1>3 DEF Rounds!OutcomeInv
<1>5. round.succeeded \in Nat /\ round.failed \in Nat /\ (round.succeeded = 0 <=> round.well = {})
  BY <1>1 DEF Rounds!CountInv
<1>6. /\ lastRound'.all <=> round.well = round.owed
      /\ lastRound'.some <=> round.well # {}
      /\ lastRound'.unready <=> round.unready # {}
  BY <1>2
<1>7. /\ lastRound'.status = "succeeded" => round.unready = {} /\ round.failed = 0
      /\ lastRound'.status = "partial" => round.succeeded # 0 /\ ~(round.unready = {} /\ round.failed = 0)
      /\ lastRound'.status = "failed" => round.succeeded = 0
  BY <1>2, <1>5 DEF Rounds!RoundStatus
<1>8. Rounds!RoundsTellTheirProbes'
  BY <1>4, <1>5, <1>6, <1>7 DEF Rounds!RoundsTellTheirProbes
<1> QED BY <1>2, <1>8 DEF Rounds!RoundInv

LEMMA RoundNextHolds ==
  ASSUME Rounds!RoundInv, [Rounds!Next]_(Rounds!probeVars)
  PROVE  Rounds!RoundInv'
<1>1. ASSUME \/ Rounds!Run({}, TRUE, 1)
             \/ \E scoped \in BOOLEAN, loops \in 1 .. MaxLoops : Rounds!Run({1, 2}, scoped, loops)
      PROVE  Rounds!RoundInv'
  BY <1>1, RoundRunHolds
<1>2. CASE Rounds!Plan \/ Rounds!Repair \/ Rounds!Start \/ Rounds!Again \/ Rounds!Finish
  BY <1>2, PlanHolds, RoundRepairHolds, RoundStartHolds, RoundAgainHolds, RoundFinishHolds
<1>3. CASE Rounds!PlanFails \/ Rounds!Restart
  <2>1. round' = Rounds!NoRun /\ (UNCHANGED lastRound \/ lastRound' = Rounds!Nothing("failed"))
    BY <1>3 DEF Rounds!PlanFails, Rounds!Restart, Rounds!AddRound
  <2> QED BY <2>1, RoundEndsHold
<1>4. ASSUME NEW a \in Probed, NEW logged \in BOOLEAN, NEW answered \in BOOLEAN, Rounds!Probe(a, logged, answered)
      PROVE  Rounds!RoundInv'
  BY <1>4, RoundProbeHolds
<1>5. ASSUME \/ Rounds!Reconcile \/ Rounds!ReconcileOne \/ \E a \in Probed : Rounds!Traffic(a) \/ Rounds!Edit(a)
             \/ UNCHANGED Rounds!probeVars
      PROVE  Rounds!RoundInv'
  <2>1. UNCHANGED <<round, lastRound>>
    BY <1>5 DEF Rounds!Reconcile, Rounds!ReconcileOne, Rounds!Traffic, Rounds!Edit, Rounds!probeVars
  <2>2. Rounds!RoundsTellTheirProbes'
    BY <2>1 DEF Rounds!RoundInv, Rounds!RoundsTellTheirProbes
  <2> QED BY <2>1, <2>2, RoundsStay
<1> QED BY <1>1, <1>2, <1>3, <1>4, <1>5 DEF Rounds!Next

LEMMA RoundInitHolds == ASSUME Rounds!Init PROVE Rounds!RoundInv
BY DEF Rounds!Init, Rounds!RoundInv, Rounds!RoundsTellTheirProbes

-----------------------------------------------------------------------------
(* Rounds of probes: turns *)

active == v1
bound == v3
unbindable == v4
waits == v9
USE DEF active, bound, unbindable, waits

\* The rounds count as everybody does.
LEMMA RoundsCount ==
  ASSUME NEW S
  PROVE  Rounds!Cardinality(S) = Cardinality(S) /\ (Rounds!IsFiniteSet(S) <=> IsFiniteSet(S))
BY DEF Rounds!Cardinality, Cardinality, Rounds!IsFiniteSet, IsFiniteSet

LEMMA PlacesAreCounted ==
  ASSUME Rounds!OrderInv
  PROVE  /\ Cardinality(Probed) \in Nat /\ Rounds!Cardinality(Probed) = Cardinality(Probed)
         /\ IsFiniteSet(unbindable) /\ Cardinality(unbindable) \in Nat
         /\ Rounds!Cardinality(unbindable) = Cardinality(unbindable)
         /\ \A a \in Probed : /\ order[a] \in 1 .. Cardinality(Probed) /\ waits[a] \in Nat
                              /\ Rounds!Behind(a) = Cardinality(Probed) - order[a] /\ Rounds!Behind(a) \in Nat
<1>1. Cardinality(Probed) \in Nat /\ Rounds!Cardinality(Probed) = Cardinality(Probed)
  BY RoundsAssumption, RoundsCount, FS_CardinalityType
<1>2. IsFiniteSet(unbindable) /\ Cardinality(unbindable) \in Nat /\ Rounds!Cardinality(unbindable) = Cardinality(unbindable)
  BY RoundsCount, FS_CardinalityType DEF Rounds!OrderInv
<1>3. ASSUME NEW a \in Probed
      PROVE  /\ order[a] \in 1 .. Cardinality(Probed) /\ waits[a] \in Nat
             /\ Rounds!Behind(a) = Cardinality(Probed) - order[a]
  BY <1>1, <1>3 DEF Rounds!OrderInv, Rounds!Behind
<1>4. ASSUME NEW a \in Probed
      PROVE  Rounds!Behind(a) \in Nat
  <2>1. PICK n \in Nat : n = Cardinality(Probed)
    BY <1>1
  <2> QED BY <1>3, <2>1
<1> QED BY <1>1, <1>2, <1>3, <1>4

\* Among some accounts one is first.
LEMMA SomebodyIsFirst ==
  ASSUME Rounds!OrderInv, NEW S \in SUBSET Probed, S # {}
  PROVE  \E x \in S : \A a \in S : order[x] <= order[a]
<1> DEFINE T == {order[a] : a \in S}
<1>1. T \in SUBSET Nat
  BY PlacesAreCounted
<1>2. T # {}
  OBVIOUS
<1>3. PICK n \in T : \A m \in T : <<m, n>> \notin OpToRel(<, Nat)
  <2> HIDE DEF T
  <2> QED BY <1>1, <1>2, WFMin, NatLessThanWellFounded, Zenon
<1>4. \A m \in T : n <= m
  <2>1. \A m \in T : n \in Nat /\ m \in Nat
    BY <1>1
  <2>2. \A m \in T : ~ (m < n)
    BY <1>3, <2>1 DEF OpToRel
  <2> QED BY <2>1, <2>2
<1>5. PICK x \in S : n = order[x]
  OBVIOUS
<1>6. \A a \in S : order[a] \in T
  OBVIOUS
<1> HIDE DEF T
<1> QED BY <1>4, <1>5, <1>6

\* Some accounts, up to a place, and the sequences of them that keep the order.
Upto(S, m) == {a \in S : order[a] <= m}
Sorted(q) == \A i, j \in DOMAIN q : i < j => order[q[i]] < order[q[j]]

LEMMA SortedGrows ==
  ASSUME Rounds!OrderInv, NEW S \in SUBSET Probed, NEW m \in Nat,
         \E q \in Rounds!SetToSeqs(Upto(S, m)) : Sorted(q)
  PROVE  \E q \in Rounds!SetToSeqs(Upto(S, m + 1)) : Sorted(q)
<1>1. \A a \in S : order[a] \in Nat
  BY PlacesAreCounted
<1>2. PICK q \in Rounds!SetToSeqs(Upto(S, m)) : Sorted(q)
  OBVIOUS
<1>3. CASE \A a \in S : order[a] # m + 1
  <2>1. Upto(S, m + 1) = Upto(S, m)
    BY <1>1, <1>3 DEF Upto
  <2> QED BY <1>2, <2>1
<1>4. ASSUME NEW x \in S, order[x] = m + 1
      PROVE  \E p \in Rounds!SetToSeqs(Upto(S, m + 1)) : Sorted(p)
  <2>1. Upto(S, m + 1) = Upto(S, m) \cup {x} /\ x \notin Upto(S, m)
    <3>1. \A a \in S : order[a] = m + 1 => a = x
      BY <1>4 DEF Rounds!OrderInv
    <3> QED BY <1>1, <1>4, <3>1 DEF Upto
  <2>2. IsFiniteSet(Upto(S, m))
    <3>1. Upto(S, m) \in SUBSET Probed
      BY DEF Upto
    <3> QED BY <3>1, FS_Subset, RoundsAssumption
  <2>3. PICK c \in Nat : c = Cardinality(Upto(S, m))
    BY <2>2, FS_CardinalityType
  <2>4. Cardinality(Upto(S, m + 1)) = c + 1
    BY <2>1, <2>2, <2>3, FS_AddElement
  <2>5. q \in [1 .. c -> Upto(S, m)] /\ \A i, j \in 1 .. c : i # j => q[i] # q[j]
    BY <2>3, RoundsCount DEF Rounds!SetToSeqs
  <2> DEFINE p == [i \in 1 .. c + 1 |-> IF i = c + 1 THEN x ELSE q[i]]
  <2>6. \A i \in 1 .. c + 1 : p[i] = IF i = c + 1 THEN x ELSE q[i]
    OBVIOUS
  <2>7. p \in [1 .. c + 1 -> Upto(S, m) \cup {x}]
    BY <2>3, <2>5
  <2> HIDE DEF p
  <2>8. DOMAIN p = 1 .. c + 1 /\ DOMAIN q = 1 .. c
    BY <2>5, <2>7
  <2>9. \A i \in 1 .. c : q[i] \in S /\ order[q[i]] < m + 1 /\ q[i] # x
    BY <1>1, <2>1, <2>5 DEF Upto
  <2>10. \A i, j \in 1 .. c + 1 : i # j => p[i] # p[j]
    <3> SUFFICES ASSUME NEW i \in 1 .. c + 1, NEW j \in 1 .. c + 1, i # j PROVE p[i] # p[j]
      OBVIOUS
    <3>1. CASE i = c + 1
      BY <2>3, <2>6, <2>9, <3>1
    <3>2. CASE j = c + 1
      BY <2>3, <2>6, <2>9, <3>2
    <3>3. CASE i # c + 1 /\ j # c + 1
      BY <2>3, <2>5, <2>6, <3>3
    <3> QED BY <3>1, <3>2, <3>3
  <2>11. p \in Rounds!SetToSeqs(Upto(S, m + 1))
    <3>1. Rounds!Cardinality(Upto(S, m + 1)) = c + 1
      BY <2>4, RoundsCount
    <3> QED BY <2>1, <2>7, <2>10, <3>1 DEF Rounds!SetToSeqs
  <2>12. Sorted(p)
    <3> SUFFICES ASSUME NEW i \in 1 .. c + 1, NEW j \in 1 .. c + 1, i < j PROVE order[p[i]] < order[p[j]]
      BY <2>8 DEF Sorted
    <3>1. i \in 1 .. c /\ p[i] = q[i]
      BY <2>3, <2>6
    <3>2. CASE j = c + 1
      BY <1>4, <2>6, <2>9, <3>1, <3>2
    <3>3. CASE j # c + 1
      <4>1. j \in 1 .. c /\ p[j] = q[j]
        BY <2>3, <2>6, <3>3
      <4> QED BY <1>2, <2>8, <3>1, <4>1 DEF Sorted
    <3> QED BY <3>2, <3>3
  <2> QED BY <2>11, <2>12
<1> QED BY <1>3, <1>4

\* Any accounts can be put in order.
LEMMA OrdersExist ==
  ASSUME Rounds!OrderInv, NEW S \in SUBSET Probed
  PROVE  \E q \in Rounds!SetToSeqs(S) : Sorted(q)
<1> DEFINE Fine(m) == \E q \in Rounds!SetToSeqs(Upto(S, m)) : Sorted(q)
           bad == {m \in Nat : ~Fine(m)}
<1>1. PICK n \in Nat : n = Cardinality(Probed)
  BY PlacesAreCounted
<1>2. \A a \in S : order[a] \in 1 .. n
  BY <1>1, PlacesAreCounted
<1>3. Fine(0)
  <2>1. Upto(S, 0) = {}
    BY <1>2 DEF Upto
  <2>2. Rounds!Cardinality({}) = 0
    BY FS_EmptySet, RoundsCount
  <2> DEFINE q == [i \in 1 .. 0 |-> 0]
  <2>3. q \in Rounds!SetToSeqs({})
    BY <2>2 DEF Rounds!SetToSeqs
  <2>4. Sorted(q)
    BY DEF Sorted
  <2> QED BY <2>1, <2>3, <2>4
<1>4. \A m \in Nat : Fine(m) => Fine(m + 1)
  BY SortedGrows
<1> HIDE DEF Fine
<1>5. bad = {}
  <2> SUFFICES ASSUME bad # {} PROVE FALSE
    OBVIOUS
  <2>1. bad \in SUBSET Nat
    OBVIOUS
  <2>2. PICK m \in bad : \A k \in bad : <<k, m>> \notin OpToRel(<, Nat)
    <3> HIDE DEF bad
    <3> QED BY <2>1, WFMin, NatLessThanWellFounded, Zenon
  <2>3. m \in Nat /\ ~Fine(m) /\ m # 0
    BY <1>3
  <2>4. m - 1 \in Nat /\ (m - 1) + 1 = m
    BY <2>3
  <2>5. m - 1 \notin bad
    <3>1. <<m - 1, m>> \in OpToRel(<, Nat)
      BY <2>3, <2>4 DEF OpToRel
    <3> QED BY <2>2, <3>1
  <2>6. Fine(m - 1)
    BY <2>4, <2>5
  <2>7. Fine((m - 1) + 1)
    BY <1>4, <2>4, <2>6
  <2> QED BY <2>3, <2>4, <2>7
<1>6. Fine(n)
  BY <1>1, <1>5
<1>7. Upto(S, n) = S
  BY <1>2 DEF Upto
<1> QED BY <1>6, <1>7 DEF Fine

\* The accounts one after the other: all of them, in order.
LEMMA InTurnIsSorted ==
  ASSUME Rounds!OrderInv, NEW S \in SUBSET Probed
  PROVE  /\ Rounds!InTurn(S) \in Seq(Probed)
         /\ \A i \in DOMAIN Rounds!InTurn(S) : Rounds!InTurn(S)[i] \in S
         /\ \A a \in S : \E i \in DOMAIN Rounds!InTurn(S) : Rounds!InTurn(S)[i] = a
         /\ Sorted(Rounds!InTurn(S))
<1>1. PICK q : q = Rounds!InTurn(S)
  OBVIOUS
<1>2. q \in Rounds!SetToSeqs(S) /\ Sorted(q)
  BY <1>1, OrdersExist DEF Rounds!InTurn, Sorted
<1>3. IsFiniteSet(S)
  BY FS_Subset, RoundsAssumption
<1>4. PICK c \in Nat : c = Cardinality(S)
  BY <1>3, FS_CardinalityType
<1>5. q \in [1 .. c -> S] /\ \A i, j \in 1 .. c : i # j => q[i] # q[j]
  BY <1>2, <1>4, RoundsCount DEF Rounds!SetToSeqs
<1>6. q \in Injection(1 .. c, S)
  BY <1>5 DEF Injection, IsInjective
<1>7. Cardinality(1 .. c) = Cardinality(S)
  BY <1>4, FS_Interval
<1>8. q \in Surjection(1 .. c, S)
  BY <1>3, <1>6, <1>7, FS_Injection
<1>9. \A a \in S : \E i \in 1 .. c : q[i] = a
  BY <1>8 DEF Surjection
<1>10. q \in Seq(Probed) /\ DOMAIN q = 1 .. c
  BY <1>5
<1> QED BY <1>1, <1>2, <1>5, <1>9, <1>10

\* The first account to be probed that can be repaired is planned, and there are
\* repairs left when its turn comes.
LEMMA PlansReachSomebody ==
  ASSUME Rounds!OrderInv, Rounds!Repairable, NEW a \in Rounds!Wanted \ unbindable
  PROVE  LET q == Rounds!InTurn(Rounds!First(Rounds!Wanted, CandidateLimit) \cap active)
         IN  \E i \in DOMAIN q : q[i] \notin unbindable /\ order[q[i]] <= order[a] /\ i <= RepairLimit
<1> DEFINE wanted == Rounds!Wanted
           planned == Rounds!First(wanted, CandidateLimit) \cap active
<1>1. wanted \subseteq active /\ active \subseteq Probed
  BY DEF Rounds!Wanted, Rounds!OrderInv
<1> HIDE DEF wanted
<1>2. PICK x \in wanted \ unbindable : \A b \in wanted \ unbindable : order[x] <= order[b]
  BY <1>1, SomebodyIsFirst DEF wanted
<1>3. \A b \in Probed : order[b] \in Nat
  BY PlacesAreCounted
<1>4. \A b \in wanted : order[b] < order[x] => b \in unbindable
  BY <1>1, <1>2, <1>3
<1>5. PICK u \in Nat : u = Cardinality(unbindable) /\ IsFiniteSet(unbindable) /\ u < CandidateLimit /\ u < RepairLimit
  BY PlacesAreCounted DEF Rounds!Repairable
<1>6. x \in planned
  <2> DEFINE before == {b \in wanted : order[b] < order[x]}
  <2>1. before \in SUBSET unbindable
    BY <1>4
  <2>2. Cardinality(before) <= u /\ Cardinality(before) \in Nat
    BY <1>5, <2>1, FS_Subset, FS_CardinalityType
  <2>3. Rounds!Cardinality(before) < CandidateLimit
    BY <1>5, <2>2, RoundsCount, RoundsAssumption
  <2> QED BY <1>1, <1>2, <2>3 DEF Rounds!First
<1>7. planned \in SUBSET Probed /\ planned \subseteq wanted
  BY <1>1 DEF Rounds!First
<1> HIDE DEF planned
<1>8. PICK q : q = Rounds!InTurn(planned)
  OBVIOUS
<1>9. q \in Seq(Probed) /\ (\A i \in DOMAIN q : q[i] \in planned) /\ Sorted(q)
  BY <1>7, <1>8, InTurnIsSorted
<1>10. PICK i \in DOMAIN q : q[i] = x
  BY <1>6, <1>7, <1>8, InTurnIsSorted
<1>11. i \in Nat \ {0} /\ \A j \in 1 .. i - 1 : j \in DOMAIN q /\ j < i
  BY <1>9, <1>10
<1>12. \A j \in 1 .. i - 1 : q[j] \in unbindable
  BY <1>4, <1>7, <1>9, <1>10, <1>11 DEF Sorted
<1>13. \A j, k \in 1 .. i - 1 : j # k => q[j] # q[k]
  <2> SUFFICES ASSUME NEW j \in 1 .. i - 1, NEW k \in 1 .. i - 1, j # k PROVE order[q[j]] # order[q[k]]
    OBVIOUS
  <2>1. j \in DOMAIN q /\ k \in DOMAIN q /\ order[q[j]] \in Nat /\ order[q[k]] \in Nat
    BY <1>3, <1>7, <1>9, <1>11
  <2>2. j < k => order[q[j]] < order[q[k]]
    BY <1>9, <2>1 DEF Sorted
  <2>3. k < j => order[q[k]] < order[q[j]]
    BY <1>9, <2>1 DEF Sorted
  <2>4. j < k \/ k < j
    BY <1>11
  <2> QED BY <2>1, <2>2, <2>3, <2>4
<1>14. i - 1 <= u
  <2> DEFINE f == [j \in 1 .. i - 1 |-> q[j]]
  <2>1. f \in Injection(1 .. i - 1, unbindable)
    BY <1>12, <1>13 DEF Injection, IsInjective
  <2>2. Cardinality(1 .. i - 1) <= u
    <3> HIDE DEF f
    <3> QED BY <1>5, <2>1, FS_Injection
  <2>3. PICK k \in Int : k = i - 1 /\ k >= 0
    BY <1>11
  <2>4. Cardinality(1 .. k) = IF 1 > k THEN 0 ELSE k - 1 + 1
    BY FS_Interval
  <2>5. Cardinality(1 .. k) = k
    BY <2>3, <2>4
  <2> QED BY <2>2, <2>3, <2>5
<1>15. i <= RepairLimit
  BY <1>5, <1>11, <1>14, RoundsAssumption
<1>16. order[x] <= order[a]
  BY <1>2 DEF wanted
<1> QED BY <1>2, <1>8, <1>10, <1>15, <1>16 DEF planned, wanted

LEMMA PlacesStay ==
  ASSUME Rounds!OrderInv, UNCHANGED <<active, unbindable, order, waits>>
  PROVE  Rounds!OrderInv'
BY DEF Rounds!OrderInv

\* Turns are kept where promises are.
LEMMA PromisesKeepTurns ==
  ASSUME Rounds!TurnInv, UNCHANGED <<unbindable, order, waits>>,
         \A a \in Probed : Rounds!Promised(a) => Rounds!Promised(a)'
  PROVE  Rounds!TurnInv'
BY DEF Rounds!TurnInv, Rounds!InTime, Rounds!Behind, Rounds!Repairable

\* A round that is left alone keeps its promises, whatever else is repaired.
LEMMA PromisesStay ==
  ASSUME UNCHANGED <<round, unbindable, order>>, bound \subseteq bound', NEW a, Rounds!Promised(a)
  PROVE  Rounds!Promised(a)'
<1>1. \A b : b \in Rounds!Reached => b \in Rounds!Reached'
  BY DEF Rounds!Reached, Rounds!Ready
<1> QED BY <1>1 DEF Rounds!Promised

\* Nobody has waited when something disturbs the rounds.
LEMMA NobodyWaits ==
  ASSUME Rounds!OrderInv, Rounds!Undisturbed, UNCHANGED <<unbindable, order>>, active' \subseteq Probed
  PROVE  Rounds!OrderInv' /\ Rounds!TurnInv'
<1>1. Rounds!OrderInv'
  BY DEF Rounds!OrderInv, Rounds!Undisturbed
<1>2. \A a \in Probed : waits'[a] <= Rounds!Behind(a)'
  <2> TAKE a \in Probed
  <2>1. Rounds!Behind(a) \in Nat
    BY PlacesAreCounted
  <2>2. waits'[a] = 0 /\ Rounds!Behind(a)' = Rounds!Behind(a)
    BY DEF Rounds!Undisturbed, Rounds!Behind
  <2> QED BY <2>1, <2>2
<1> QED BY <1>1, <1>2 DEF Rounds!TurnInv, Rounds!InTime

\* The account with the latest activity is the last, the others keep their order.
LEMMA PlacesMoveUp ==
  ASSUME Rounds!OrderInv, NEW c \in Probed, Rounds!Active(c)
  PROVE  /\ order' \in [Probed -> 1 .. Rounds!Cardinality(Probed)] /\ order'[c] = Cardinality(Probed)
         /\ \A a \in Probed : order[a] < order[c] => order'[a] = order[a]
         /\ \A a \in Probed : order[a] > order[c] => order'[a] = order[a] - 1
         /\ \A a, b \in Probed : order'[a] = order'[b] => a = b
<1>1. PICK n \in Nat : n = Cardinality(Probed)
  BY PlacesAreCounted
<1>2. /\ Rounds!Cardinality(Probed) = n /\ \A a \in Probed : order[a] \in 1 .. n
      /\ \A a, b \in Probed : order[a] = order[b] => a = b
  BY <1>1, PlacesAreCounted DEF Rounds!OrderInv
<1>3. order' = [a \in Probed |-> IF a = c THEN n ELSE order[a] - (IF order[a] > order[c] THEN 1 ELSE 0)]
  BY <1>2 DEF Rounds!Active
<1>4. order'[c] = n
  BY <1>3
<1>5. \A a \in Probed : order[a] < order[c] => order'[a] = order[a]
  BY <1>2, <1>3
<1>6. \A a \in Probed : order[a] > order[c] => order'[a] = order[a] - 1
  BY <1>2, <1>3
<1>7. \A a \in Probed : a = c \/ order[a] < order[c] \/ order[a] > order[c]
  <2> TAKE a \in Probed
  <2>1. order[a] \in Nat /\ order[c] \in Nat /\ (order[a] = order[c] => a = c)
    BY <1>2
  <2> QED BY <2>1
<1>8. \A a \in Probed : order'[a] \in 1 .. n
  BY <1>2, <1>4, <1>5, <1>6, <1>7
<1>9. ASSUME NEW a \in Probed, NEW b \in Probed, order'[a] = order'[b]
      PROVE  a = b
  <2>1. PICK x \in 1 .. n, y \in 1 .. n, z \in 1 .. n : x = order[a] /\ y = order[b] /\ z = order[c]
    BY <1>2
  <2>2. PICK v : v = order'[a] /\ v = order'[b]
    BY <1>9
  <2>3. /\ x < z => v = x
        /\ x > z => v = x - 1
        /\ y < z => v = y
        /\ y > z => v = y - 1
    BY <1>5, <1>6, <2>1, <2>2
  <2>4. (x = z => v = n) /\ (y = z => v = n)
    BY <1>2, <1>4, <2>1, <2>2
  <2>5. x = y
    BY <2>1, <2>3, <2>4
  <2> QED BY <1>2, <2>1, <2>5
<1> QED BY <1>1, <1>2, <1>3, <1>4, <1>5, <1>6, <1>8, <1>9

\* An activity is the turn of its account; whoever was behind it gains a place, and the
\* promises to those before it must be kept.
LEMMA ActivityKeepsTurns ==
  ASSUME Rounds!OrderInv, Rounds!TurnInv, NEW c \in Probed, Rounds!Active(c), UNCHANGED <<active, unbindable>>,
         \A a \in Probed : order[a] < order[c] /\ Rounds!Promised(a) => Rounds!Promised(a)'
  PROVE  Rounds!OrderInv' /\ Rounds!TurnInv'
<1>1. waits' = [waits EXCEPT ![c] = 0]
  BY DEF Rounds!Active
<1>2. Rounds!OrderInv'
  BY <1>1, PlacesMoveUp DEF Rounds!OrderInv
<1>3. PICK n \in Nat : n = Cardinality(Probed)
  BY PlacesAreCounted
<1>4. \A a \in Probed : /\ order[a] \in 1 .. n /\ waits[a] \in Nat
                        /\ Rounds!Behind(a) = n - order[a] /\ Rounds!Behind(a)' = n - order'[a]
  BY <1>3, PlacesAreCounted DEF Rounds!Behind
<1>5. ASSUME Rounds!Repairable, NEW a \in Probed \ unbindable
      PROVE  Rounds!InTime(a)'
  <2>1. Rounds!InTime(a)
    BY <1>5 DEF Rounds!TurnInv
  <2>2. order[a] \in 1 .. n /\ order[c] \in 1 .. n /\ waits[a] \in Nat
    BY <1>4
  <2>3. CASE a = c
    <3>1. waits'[a] = 0 /\ Rounds!Behind(a)' = n - n
      BY <1>1, <1>3, <1>4, <2>3, PlacesMoveUp DEF Rounds!OrderInv
    <3> QED BY <1>3, <3>1 DEF Rounds!InTime
  <2>4. CASE a # c /\ order[a] > order[c]
    <3>1. waits'[a] = waits[a] /\ order'[a] = order[a] - 1
      BY <1>1, <2>4, PlacesMoveUp DEF Rounds!OrderInv
    <3>2. waits[a] <= n - order[a] + 1
      BY <1>4, <2>1, <2>2 DEF Rounds!InTime
    <3>3. waits'[a] <= n - order'[a]
      BY <2>2, <3>1, <3>2
    <3> QED BY <1>4, <3>3 DEF Rounds!InTime
  <2>5. CASE a # c /\ order[a] < order[c]
    <3>1. waits'[a] = waits[a] /\ order'[a] = order[a] /\ Rounds!Behind(a)' = Rounds!Behind(a)
      BY <1>1, <1>4, <2>5, PlacesMoveUp DEF Rounds!OrderInv
    <3> QED BY <2>1, <2>5, <3>1 DEF Rounds!InTime
  <2>6. order[a] = order[c] => a = c
    BY DEF Rounds!OrderInv
  <2> QED BY <2>2, <2>3, <2>4, <2>5, <2>6
<1>6. Rounds!Repairable' = Rounds!Repairable
  BY DEF Rounds!Repairable
<1> QED BY <1>2, <1>5, <1>6 DEF Rounds!TurnInv

LEMMA RunWaits ==
  ASSUME Rounds!WaitInv, NEW explicit, NEW scoped, NEW loops, Rounds!Run(explicit, scoped, loops)
  PROVE  Rounds!WaitInv'
<1>1. UNCHANGED <<active, bound, unbindable, order, waits>>
  BY DEF Rounds!Run, Rounds!scope
<1>2. Rounds!OrderInv'
  BY <1>1, PlacesStay DEF Rounds!WaitInv
<1>3. CASE round # Rounds!NoRun
  <2>1. UNCHANGED round
    BY <1>3 DEF Rounds!Run
  <2>2. \A a \in Probed : Rounds!Promised(a) => Rounds!Promised(a)'
    BY <1>1, <2>1, PromisesStay
  <2>3. Rounds!TurnInv'
    BY <1>1, <2>2, PromisesKeepTurns DEF Rounds!WaitInv
  <2>4. Rounds!LoopInv'
    BY <1>3, <2>1 DEF Rounds!WaitInv, Rounds!LoopInv
  <2> QED BY <1>2, <2>3, <2>4 DEF Rounds!WaitInv
<1>4. CASE round = Rounds!NoRun
  <2>1. /\ round'.stage = "plan" /\ round'.loop = 0 /\ round'.plan = {} /\ round'.probing = {}
        /\ round'.budget = RepairLimit
    BY <1>4 DEF Rounds!Run
  <2>2. Rounds!LoopInv'
    BY <2>1, RoundsAssumption DEF Rounds!LoopInv
  <2>3. \A a \in Probed : ~Rounds!Promised(a)
    BY <1>4 DEF Rounds!Promised
  <2>4. Rounds!TurnInv'
    BY <1>1, <2>3, PromisesKeepTurns DEF Rounds!WaitInv
  <2> QED BY <1>2, <2>2, <2>4 DEF Rounds!WaitInv
<1> QED BY <1>3, <1>4

\* Everybody who waits is promised a turn by the plan of the operation: the first whose
\* isolation can be repaired is in it.
LEMMA PlanWaits ==
  ASSUME Rounds!RoundInv, Rounds!WaitInv, Rounds!Plan
  PROVE  Rounds!WaitInv'
<1> DEFINE planned == Rounds!Planned(round.explicit, round.scoped)
           live == Rounds!InTurn(planned \cap active)
<1>1. /\ round # Rounds!NoRun /\ round.stage = "plan"
      /\ round' = [round EXCEPT !.stage = "repair", !.loop = round.loop + 1, !.left = round.left - 1,
                                !.plan = planned, !.member = bound, !.todo = live,
                                !.owed = round.owed \cup {<<round.loop + 1, a>> : a \in planned \cap active}]
      /\ UNCHANGED <<active, bound, unbindable, order>>
  BY DEF Rounds!Plan, Rounds!scope
<1>2. waits' = IF round.explicit # {} \/ round.loop > 0 THEN waits
               ELSE [a \in Probed |-> IF a \in Rounds!Wanted /\ waits[a] < Rounds!MaxWait THEN waits[a] + 1 ELSE waits[a]]
  BY DEF Rounds!Plan
<1>3. /\ Rounds!IsRound(round) /\ round.loop \in Nat
      /\ Rounds!OrderInv /\ Rounds!LoopInv /\ Rounds!TurnInv
  BY <1>1 DEF Rounds!RoundInv, Rounds!StageInv, Rounds!CountInv, Rounds!WaitInv
<1>4. planned \in SUBSET Probed
  <2>1. active \subseteq Probed
    BY <1>3 DEF Rounds!OrderInv
  <2> QED BY <2>1 DEF Rounds!Planned, Rounds!First, Rounds!Wanted
<1>5. planned \cap active \in SUBSET Probed
  BY <1>4
<1>6. live \in Seq(Probed) /\ \A i \in DOMAIN live : live[i] \in planned \cap active
  BY <1>3, <1>5, InTurnIsSorted
<1>7. round.explicit = {} => planned = Rounds!First(Rounds!Wanted, CandidateLimit)
  BY DEF Rounds!Planned
<1>8. round.explicit = {} /\ Rounds!Repairable =>
        \A a \in Rounds!Wanted \ unbindable :
          \E i \in DOMAIN live : live[i] \notin unbindable /\ order[live[i]] <= order[a] /\ i <= RepairLimit
  <2> SUFFICES ASSUME round.explicit = {}, Rounds!Repairable, NEW a \in Rounds!Wanted \ unbindable
               PROVE  \E i \in DOMAIN live : live[i] \notin unbindable /\ order[live[i]] <= order[a] /\ i <= RepairLimit
    OBVIOUS
  <2>1. live = Rounds!InTurn(Rounds!First(Rounds!Wanted, CandidateLimit) \cap active)
    BY <1>7
  <2> HIDE DEF live
  <2> QED BY <1>3, <2>1, PlansReachSomebody
<1> HIDE DEF planned, live
<1>9. /\ round'.stage = "repair" /\ round'.loop = round.loop + 1 /\ round'.plan = planned /\ round'.todo = live
      /\ round'.owed = round.owed \cup {<<round.loop + 1, a>> : a \in planned \cap active}
      /\ round'.probing = round.probing /\ round'.budget = round.budget /\ round' # Rounds!NoRun
  BY <1>1, <1>3 DEF Rounds!IsRound, Rounds!NoRun
<1>10. Rounds!LoopInv'
  <2>1. round'.loop # 0
    BY <1>3, <1>9
  <2>2. \A i \in DOMAIN live : <<round.loop + 1, live[i]>> \in round'.owed
    BY <1>6, <1>9
  <2> QED BY <1>3, <1>4, <1>6, <1>9, <2>1, <2>2 DEF Rounds!LoopInv
<1>11. \A a \in Probed : waits[a] \in Nat
  BY <1>3, PlacesAreCounted
<1>12. waits \in [Probed -> Nat]
  BY <1>3 DEF Rounds!OrderInv
<1>13. waits' \in [Probed -> Nat]
  BY <1>2, <1>11, <1>12
<1>14. Rounds!OrderInv'
  BY <1>1, <1>3, <1>13 DEF Rounds!OrderInv
<1>15. ASSUME Rounds!Repairable, NEW a \in Probed \ unbindable
       PROVE  Rounds!InTime(a)'
  <2>1. waits[a] <= Rounds!Behind(a)
    BY <1>1, <1>3, <1>15 DEF Rounds!TurnInv, Rounds!InTime, Rounds!Promised
  <2>2. Rounds!Behind(a)' = Rounds!Behind(a)
    BY <1>1 DEF Rounds!Behind
  <2>3. CASE waits'[a] = waits[a]
    BY <2>1, <2>2, <2>3 DEF Rounds!InTime
  <2>4. CASE waits'[a] # waits[a]
    <3>1. round.explicit = {} /\ ~(round.loop > 0) /\ a \in Rounds!Wanted /\ waits'[a] = waits[a] + 1
      BY <1>2, <2>4
    <3>2. round.loop = 0
      BY <1>3, <3>1
    <3>3. round'.budget = RepairLimit
      BY <1>3, <1>9, <3>2 DEF Rounds!LoopInv
    <3>4. PICK i \in DOMAIN live : live[i] \notin unbindable /\ order[live[i]] <= order[a] /\ i <= RepairLimit
      BY <1>8, <1>15, <3>1
    <3>5. Rounds!Promised(a)'
      BY <1>1, <1>9, <3>3, <3>4 DEF Rounds!Promised
    <3>6. Rounds!Behind(a) \in Nat /\ waits[a] \in Nat
      BY <1>3, PlacesAreCounted
    <3>7. waits'[a] <= Rounds!Behind(a) \/ waits'[a] = Rounds!Behind(a) + 1
      BY <2>1, <3>1, <3>6
    <3> QED BY <2>2, <3>5, <3>7 DEF Rounds!InTime
  <2> QED BY <2>3, <2>4
<1>16. Rounds!Repairable' = Rounds!Repairable
  BY <1>1 DEF Rounds!Repairable
<1>17. Rounds!TurnInv'
  BY <1>1, <1>15, <1>16 DEF Rounds!TurnInv
<1> QED BY <1>10, <1>14, <1>17 DEF Rounds!WaitInv

\* The repair of one account brings those after it nearer, and uses up one repair at
\* most; the account itself is to be probed, unless something failed.
LEMMA RepairWaits ==
  ASSUME Rounds!RoundInv, Rounds!WaitInv, Rounds!Repair
  PROVE  Rounds!WaitInv'
<1>1. /\ round # Rounds!NoRun /\ round.stage = "repair" /\ round.todo # <<>>
      /\ UNCHANGED <<active, unbindable, order>>
      /\ Rounds!IsRound(round') /\ round'.stage = "repair" /\ round'.loop = round.loop /\ round'.plan = round.plan
      /\ round'.member = round.member /\ round'.owed = round.owed /\ round'.probing = round.probing
      /\ round'.todo = Tail(round.todo)
  BY RepairsAreSteps
<1> DEFINE h == Head(round.todo)
<1>2. /\ Rounds!OrderInv /\ Rounds!LoopInv /\ Rounds!TurnInv /\ round.loop \in Nat
      /\ round.todo \in Seq(Probed) /\ round.budget \in Nat
      /\ \A i \in DOMAIN round.todo : round.todo[i] \in round.plan /\ <<round.loop, round.todo[i]>> \in round.owed
  BY <1>1 DEF Rounds!WaitInv, Rounds!LoopInv, Rounds!RoundInv, Rounds!CountInv
<1>3. h = round.todo[1] /\ h \in round.plan /\ <<round.loop, h>> \in round.owed /\ 1 \in DOMAIN round.todo
  BY <1>1, <1>2
<1>4. /\ \A i \in DOMAIN round'.todo : i \in Nat \ {0} /\ i + 1 \in DOMAIN round.todo /\ round'.todo[i] = round.todo[i + 1]
      /\ \A i \in DOMAIN round.todo : i \in Nat \ {0} /\ (i # 1 => i - 1 \in DOMAIN round'.todo /\ round'.todo[i - 1] = round.todo[i])
      /\ round'.todo \in Seq(Probed)
  <2>1. PICK q \in Seq(Probed) : q = round.todo /\ q # <<>>
    BY <1>1, <1>2
  <2>2. /\ \A i \in DOMAIN Tail(q) : i \in Nat \ {0} /\ i + 1 \in DOMAIN q /\ Tail(q)[i] = q[i + 1]
        /\ \A i \in DOMAIN q : i \in Nat \ {0} /\ (i # 1 => i - 1 \in DOMAIN Tail(q) /\ Tail(q)[i - 1] = q[i])
        /\ Tail(q) \in Seq(Probed)
    BY <2>1
  <2> QED BY <1>1, <2>1, <2>2
<1>5. round'.budget \in Nat /\ round'.budget >= round.budget - 1
  <2>1. round'.budget = round.budget \/ (round.budget > 0 /\ round'.budget = round.budget - 1)
    BY RepairsAreSteps, Zenon
  <2> QED BY <1>2, <2>1
<1>6. round.loop # 0
  BY <1>1, <1>2 DEF Rounds!LoopInv
<1>7. Rounds!LoopInv'
  BY <1>1, <1>2, <1>4, <1>5, <1>6 DEF Rounds!LoopInv
<1>8. CASE Rounds!Undisturbed
  <2>1. active' \subseteq Probed
    BY <1>1, <1>2 DEF Rounds!OrderInv
  <2>2. Rounds!OrderInv' /\ Rounds!TurnInv'
    BY <1>1, <1>2, <1>8, <2>1, NobodyWaits
  <2> QED BY <1>7, <2>2 DEF Rounds!WaitInv
<1>9. CASE ~Rounds!Undisturbed
  <2>1. \/ Rounds!Ready(h) /\ UNCHANGED <<bound, waits>> /\ round'.repaired = round.repaired
        \/ round.budget = 0 /\ UNCHANGED <<bound, waits>> /\ round'.repaired = round.repaired
        \/ bound' = bound \cup {h} /\ UNCHANGED waits /\ round'.repaired = round.repaired \cup {h}
        \/ h \in unbindable /\ UNCHANGED <<bound, waits>> /\ round'.repaired = round.repaired
    BY <1>9, RepairsAreSteps, Zenon
  <2>2. UNCHANGED waits /\ bound \subseteq bound' /\ round.repaired \subseteq round'.repaired
    BY <2>1
  <2>3. \A b : b \in Rounds!Reached => b \in Rounds!Reached'
    BY <1>1, <2>2 DEF Rounds!Reached, Rounds!Ready
  <2>4. h \notin unbindable /\ round.budget > 0 => h \in Rounds!Reached'
    <3>1. h \notin unbindable /\ round.budget > 0 => h \in round'.repaired \/ (h \in bound' /\ h \in round.member)
      BY <1>2, <2>1 DEF Rounds!Ready
    <3> QED BY <1>1, <1>3, <3>1 DEF Rounds!Reached, Rounds!Ready
  <2>5. ASSUME NEW a \in Probed, Rounds!Promised(a)
        PROVE  Rounds!Promised(a)'
    <3>1. round' # Rounds!NoRun
      BY <1>1 DEF Rounds!NoRun
    <3>2. CASE \E b \in Rounds!Reached : order[b] <= order[a]
      <4>1. \E b \in Rounds!Reached' : order'[b] <= order'[a]
        BY <1>1, <2>3, <3>2
      <4> QED BY <1>1, <3>1, <4>1 DEF Rounds!Promised
    <3>3. ASSUME NEW i \in DOMAIN round.todo, round.todo[i] \notin unbindable, order[round.todo[i]] <= order[a],
                 i <= round.budget
          PROVE  Rounds!Promised(a)'
      <4>1. CASE i = 1
        <5>1. h \in Rounds!Reached' /\ order'[h] <= order'[a]
          BY <1>1, <1>2, <1>3, <2>4, <3>3, <4>1
        <5> QED BY <1>1, <3>1, <5>1 DEF Rounds!Promised
      <4>2. CASE i # 1
        <5>1. PICK j \in DOMAIN round'.todo : j = i - 1 /\ round'.todo[j] = round.todo[i] /\ j \in Nat /\ i \in Nat
          BY <1>4, <4>2
        <5>2. j <= round'.budget
          BY <1>2, <1>5, <3>3, <5>1
        <5>3. round'.todo[j] \notin unbindable' /\ order'[round'.todo[j]] <= order'[a]
          BY <1>1, <3>3, <5>1
        <5> QED BY <1>1, <3>1, <5>2, <5>3 DEF Rounds!Promised
      <4> QED BY <4>1, <4>2
    <3> QED BY <1>1, <2>5, <3>2, <3>3 DEF Rounds!Promised
  <2>6. Rounds!TurnInv'
    BY <1>1, <1>2, <2>2, <2>5, PromisesKeepTurns
  <2>7. Rounds!OrderInv'
    BY <1>1, <1>2, <2>2, PlacesStay
  <2> QED BY <1>7, <2>6, <2>7 DEF Rounds!WaitInv
<1> QED BY <1>8, <1>9

\* Whoever the round reaches is probed.
LEMMA StartWaits ==
  ASSUME Rounds!RoundInv, Rounds!WaitInv, Rounds!Start
  PROVE  Rounds!WaitInv'
<1> DEFINE reached == Rounds!Reached
<1>1. /\ round # Rounds!NoRun /\ round.stage = "repair" /\ round.todo = <<>>
      /\ round' = [round EXCEPT !.stage = "probe", !.probing = reached, !.unready = round.unready \cup Rounds!Unready(round),
                                !.plan = {}, !.member = {}]
      /\ UNCHANGED <<active, unbindable, order, waits>>
  BY DEF Rounds!Start, Rounds!scope
<1>2. Rounds!IsRound(round) /\ Rounds!OrderInv /\ Rounds!LoopInv /\ Rounds!TurnInv
  BY <1>1 DEF Rounds!RoundInv, Rounds!StageInv, Rounds!WaitInv
<1>3. reached \subseteq round.plan
  BY DEF Rounds!Reached
<1> HIDE DEF reached
<1>4. /\ round'.stage = "probe" /\ round'.loop = round.loop /\ round'.plan = {} /\ round'.probing = reached
      /\ round'.budget = round.budget /\ round' # Rounds!NoRun
  BY <1>1, <1>2 DEF Rounds!IsRound, Rounds!NoRun
<1>5. Rounds!LoopInv'
  BY <1>1, <1>2, <1>3, <1>4 DEF Rounds!LoopInv
<1>6. Rounds!OrderInv'
  BY <1>1, <1>2, PlacesStay
<1>7. ASSUME NEW a \in Probed, Rounds!Promised(a)
      PROVE  Rounds!Promised(a)'
  <2>1. DOMAIN round.todo = {}
    BY <1>1
  <2>2. \E b \in reached : order[b] <= order[a]
    BY <1>1, <1>7, <2>1 DEF Rounds!Promised, reached
  <2> QED BY <1>1, <1>4, <2>2 DEF Rounds!Promised
<1>8. Rounds!TurnInv'
  BY <1>1, <1>2, <1>7, PromisesKeepTurns
<1> QED BY <1>5, <1>6, <1>8 DEF Rounds!WaitInv

\* A probe that is logged is the turn of its account.
LEMMA ProbeWaits ==
  ASSUME Rounds!RoundInv, Rounds!WaitInv, NEW c \in Probed, NEW logged \in BOOLEAN, NEW answered \in BOOLEAN,
         Rounds!Probe(c, logged, answered)
  PROVE  Rounds!WaitInv'
<1> DEFINE good == IF logged /\ answered THEN round.well \cup {<<round.loop, c>>} ELSE round.well
           well == Rounds!Well(logged, answered)
           succeeded == round.succeeded + (IF well THEN 1 ELSE 0)
           failed == round.failed + (IF well THEN 0 ELSE 1)
<1>1. /\ round # Rounds!NoRun /\ round.stage = "probe" /\ c \in round.probing
      /\ round' = [round EXCEPT !.probing = round.probing \ {c}, !.well = good, !.succeeded = succeeded, !.failed = failed]
      /\ UNCHANGED <<active, bound, unbindable>>
  BY DEF Rounds!Probe, Rounds!scope
<1>2. Rounds!IsRound(round) /\ Rounds!OrderInv /\ Rounds!LoopInv /\ Rounds!TurnInv
  BY <1>1 DEF Rounds!RoundInv, Rounds!StageInv, Rounds!WaitInv
<1> HIDE DEF good, succeeded, failed
<1>3. /\ round'.stage = "probe" /\ round'.loop = round.loop /\ round'.plan = round.plan
      /\ round'.probing = round.probing \ {c} /\ round'.budget = round.budget /\ round' # Rounds!NoRun
  BY <1>1, <1>2 DEF Rounds!IsRound, Rounds!NoRun
<1>4. Rounds!LoopInv'
  BY <1>1, <1>2, <1>3 DEF Rounds!LoopInv
<1>5. CASE logged
  <2>1. Rounds!Active(c)
    BY <1>5 DEF Rounds!Probe
  <2>2. ASSUME NEW a \in Probed, order[a] < order[c], Rounds!Promised(a)
        PROVE  Rounds!Promised(a)'
    <3>1. PICK b \in round.probing : order[b] <= order[a]
      BY <1>1, <2>2 DEF Rounds!Promised
    <3>2. b \in Probed
      BY <1>2 DEF Rounds!LoopInv
    <3>3. order[a] \in Nat /\ order[b] \in Nat /\ order[c] \in Nat
      BY <1>2, <3>2, PlacesAreCounted
    <3>4. order[b] < order[c]
      BY <2>2, <3>1, <3>3
    <3>5. order'[a] = order[a] /\ order'[b] = order[b]
      BY <1>2, <2>1, <2>2, <3>2, <3>4, PlacesMoveUp
    <3>6. b # c
      BY <3>3, <3>4
    <3> QED BY <1>3, <3>1, <3>5, <3>6 DEF Rounds!Promised
  <2>3. Rounds!OrderInv' /\ Rounds!TurnInv'
    BY <1>1, <1>2, <2>1, <2>2, ActivityKeepsTurns
  <2> QED BY <1>4, <2>3 DEF Rounds!WaitInv
<1>6. CASE ~logged
  <2>1. Rounds!Undisturbed /\ UNCHANGED order
    BY <1>6 DEF Rounds!Probe
  <2>2. active' \subseteq Probed
    BY <1>1, <1>2 DEF Rounds!OrderInv
  <2>3. Rounds!OrderInv' /\ Rounds!TurnInv'
    BY <1>1, <1>2, <2>1, <2>2, NobodyWaits
  <2> QED BY <1>4, <2>3 DEF Rounds!WaitInv
<1> QED BY <1>5, <1>6

\* When all probes are through, no promise is open.
LEMMA AgainWaits ==
  ASSUME Rounds!RoundInv, Rounds!WaitInv, Rounds!Again \/ Rounds!Finish
  PROVE  Rounds!WaitInv'
<1>1. /\ round # Rounds!NoRun /\ round.stage = "probe" /\ round.probing = {}
      /\ UNCHANGED <<active, unbindable, order, waits>>
      /\ round' = [round EXCEPT !.stage = "plan"] \/ round' = Rounds!NoRun
  BY DEF Rounds!Again, Rounds!Finish, Rounds!scope
<1>2. Rounds!IsRound(round) /\ Rounds!OrderInv /\ Rounds!LoopInv /\ Rounds!TurnInv
  BY <1>1 DEF Rounds!RoundInv, Rounds!StageInv, Rounds!WaitInv
<1>3. ASSUME round' = [round EXCEPT !.stage = "plan"]
      PROVE  Rounds!LoopInv'
  <2>1. /\ round'.stage = "plan" /\ round'.loop = round.loop /\ round'.plan = round.plan
        /\ round'.probing = round.probing /\ round'.budget = round.budget
    BY <1>2, <1>3 DEF Rounds!IsRound
  <2> QED BY <1>1, <1>2, <2>1 DEF Rounds!LoopInv
<1>4. \A a \in Probed : ~Rounds!Promised(a)
  BY <1>1 DEF Rounds!Promised
<1>5. Rounds!OrderInv' /\ Rounds!TurnInv'
  BY <1>1, <1>2, <1>4, PlacesStay, PromisesKeepTurns
<1>6. round' # Rounds!NoRun => Rounds!LoopInv'
  BY <1>1, <1>3
<1> QED BY <1>5, <1>6 DEF Rounds!WaitInv

\* The end of the process or of a round that cannot be planned.
LEMMA EndWaits ==
  ASSUME Rounds!WaitInv, Rounds!PlanFails \/ Rounds!Restart
  PROVE  Rounds!WaitInv'
<1>1. round' = Rounds!NoRun /\ Rounds!Undisturbed /\ UNCHANGED <<active, unbindable, order>>
  BY DEF Rounds!PlanFails, Rounds!Restart, Rounds!scope
<1>2. Rounds!OrderInv
  BY DEF Rounds!WaitInv
<1>3. active' \subseteq Probed
  BY <1>1, <1>2 DEF Rounds!OrderInv
<1>4. Rounds!OrderInv' /\ Rounds!TurnInv'
  BY <1>1, <1>2, <1>3, NobodyWaits
<1> QED BY <1>1, <1>4 DEF Rounds!WaitInv

LEMMA LoopsStay ==
  ASSUME Rounds!WaitInv, UNCHANGED round
  PROVE  round' # Rounds!NoRun => Rounds!LoopInv'
BY DEF Rounds!WaitInv, Rounds!LoopInv

\* Repairs outside rounds.
LEMMA ReconcileWaits ==
  ASSUME Rounds!WaitInv, Rounds!Reconcile \/ Rounds!ReconcileOne \/ UNCHANGED Rounds!probeVars
  PROVE  Rounds!WaitInv'
<1>1. UNCHANGED <<active, unbindable, order, round, waits>> /\ bound \subseteq bound'
  BY DEF Rounds!Reconcile, Rounds!ReconcileOne, Rounds!probeVars, Rounds!scope
<1>2. \A a \in Probed : Rounds!Promised(a) => Rounds!Promised(a)'
  BY <1>1, PromisesStay
<1>3. Rounds!TurnInv' /\ Rounds!OrderInv'
  BY <1>1, <1>2, PromisesKeepTurns, PlacesStay DEF Rounds!WaitInv
<1> QED BY <1>1, <1>3, LoopsStay DEF Rounds!WaitInv

\* The requests of users are activities of their accounts.
LEMMA TrafficWaits ==
  ASSUME Rounds!RoundInv, Rounds!WaitInv, NEW c \in Probed, Rounds!Traffic(c)
  PROVE  Rounds!WaitInv'
<1>1. Rounds!Active(c) /\ UNCHANGED <<active, bound, unbindable, round>>
  BY DEF Rounds!Traffic
<1>2. Rounds!OrderInv /\ Rounds!TurnInv
  BY DEF Rounds!WaitInv
<1>3. ASSUME NEW a \in Probed, order[a] < order[c], NEW b \in Probed, order[b] <= order[a]
      PROVE  order'[b] <= order'[a]
  <2>1. order[a] \in Nat /\ order[b] \in Nat /\ order[c] \in Nat
    BY <1>2, PlacesAreCounted
  <2>2. order[b] < order[c]
    BY <1>3, <2>1
  <2>3. order'[a] = order[a] /\ order'[b] = order[b]
    BY <1>1, <1>2, <1>3, <2>2, PlacesMoveUp
  <2> QED BY <1>3, <2>3
<1>4. ASSUME NEW a \in Probed, order[a] < order[c], Rounds!Promised(a)
      PROVE  Rounds!Promised(a)'
  <2>1. round # Rounds!NoRun /\ Rounds!LoopInv
    BY <1>4 DEF Rounds!Promised, Rounds!WaitInv
  <2>2. Rounds!Reached \subseteq Probed /\ Rounds!Reached' = Rounds!Reached
    BY <1>1, <2>1 DEF Rounds!Reached, Rounds!Ready, Rounds!LoopInv
  <2>3. CASE round.stage = "probe" /\ \E b \in round.probing : order[b] <= order[a]
    <3>1. \E b \in round.probing : order'[b] <= order'[a]
      BY <1>3, <1>4, <2>1, <2>3 DEF Rounds!LoopInv
    <3> QED BY <1>1, <2>1, <2>3, <3>1 DEF Rounds!Promised
  <2>4. CASE round.stage = "repair" /\ \E b \in Rounds!Reached : order[b] <= order[a]
    <3>1. \E b \in Rounds!Reached' : order'[b] <= order'[a]
      BY <1>3, <1>4, <2>2, <2>4
    <3> QED BY <1>1, <2>1, <2>4, <3>1 DEF Rounds!Promised
  <2>5. CASE round.stage = "repair" /\ \E i \in DOMAIN round.todo :
               round.todo[i] \notin unbindable /\ order[round.todo[i]] <= order[a] /\ i <= round.budget
    <3>1. PICK i \in DOMAIN round.todo :
               round.todo[i] \notin unbindable /\ order[round.todo[i]] <= order[a] /\ i <= round.budget
      BY <2>5
    <3>2. round.todo[i] \in Probed
      BY <2>1, <2>5 DEF Rounds!LoopInv
    <3>3. order'[round.todo[i]] <= order'[a]
      BY <1>3, <1>4, <3>1, <3>2
    <3> QED BY <1>1, <2>1, <2>5, <3>1, <3>3 DEF Rounds!Promised
  <2> QED BY <1>4, <2>3, <2>4, <2>5 DEF Rounds!Promised
<1>5. Rounds!OrderInv' /\ Rounds!TurnInv'
  BY <1>1, <1>2, <1>4, ActivityKeepsTurns
<1> QED BY <1>1, <1>5, LoopsStay DEF Rounds!WaitInv

LEMMA EditWaits ==
  ASSUME Rounds!WaitInv, NEW c \in Probed, Rounds!Edit(c)
  PROVE  Rounds!WaitInv'
<1>1. Rounds!Undisturbed /\ UNCHANGED <<unbindable, order, round>>
  BY DEF Rounds!Edit
<1>2. Rounds!OrderInv
  BY DEF Rounds!WaitInv
<1>3. active' \subseteq Probed
  <2>1. active \subseteq Probed
    BY <1>2 DEF Rounds!OrderInv
  <2>2. active' = active \/ active' = active \cup {c} \/ active' = active \ {c}
    BY DEF Rounds!Edit
  <2> QED BY <2>1, <2>2
<1>4. Rounds!OrderInv' /\ Rounds!TurnInv'
  BY <1>1, <1>2, <1>3, NobodyWaits
<1> QED BY <1>1, <1>4, LoopsStay DEF Rounds!WaitInv

LEMMA WaitsNextHolds ==
  ASSUME Rounds!RoundInv, Rounds!WaitInv, [Rounds!Next]_(Rounds!probeVars)
  PROVE  Rounds!WaitInv'
<1>1. ASSUME \/ Rounds!Run({}, TRUE, 1)
             \/ \E scoped \in BOOLEAN, loops \in 1 .. MaxLoops : Rounds!Run({1, 2}, scoped, loops)
      PROVE  Rounds!WaitInv'
  BY <1>1, RunWaits
<1>2. CASE Rounds!Plan \/ Rounds!Repair \/ Rounds!Start \/ Rounds!Again \/ Rounds!Finish
  BY <1>2, PlanWaits, RepairWaits, StartWaits, AgainWaits
<1>3. CASE Rounds!PlanFails \/ Rounds!Restart
  BY <1>3, EndWaits
<1>4. ASSUME NEW a \in Probed, NEW logged \in BOOLEAN, NEW answered \in BOOLEAN, Rounds!Probe(a, logged, answered)
      PROVE  Rounds!WaitInv'
  BY <1>4, ProbeWaits
<1>5. ASSUME NEW a \in Probed, Rounds!Traffic(a) \/ Rounds!Edit(a)
      PROVE  Rounds!WaitInv'
  BY <1>5, TrafficWaits, EditWaits
<1>6. CASE Rounds!Reconcile \/ Rounds!ReconcileOne \/ UNCHANGED Rounds!probeVars
  BY <1>6, ReconcileWaits
<1> QED BY <1>1, <1>2, <1>3, <1>4, <1>5, <1>6 DEF Rounds!Next

LEMMA WaitsInitHolds == ASSUME Rounds!Init PROVE Rounds!WaitInv
<1>1. PICK n \in Nat : n = Cardinality(Probed) /\ Rounds!Cardinality(Probed) = n /\ Probed = 1 .. n
  BY RoundsAssumption, RoundsCount, FS_CardinalityType
<1>2. /\ active \in SUBSET Probed /\ unbindable \in {{}, {1}} /\ order = [a \in Probed |-> a]
      /\ round = Rounds!NoRun /\ waits = [a \in Probed |-> 0]
  BY DEF Rounds!Init
<1>3. Rounds!IsFiniteSet(unbindable)
  <2>1. IsFiniteSet({}) /\ IsFiniteSet({1})
    BY FS_EmptySet, FS_Singleton
  <2> QED BY <1>2, <2>1, RoundsCount
<1>4. Rounds!OrderInv
  BY <1>1, <1>2, <1>3 DEF Rounds!OrderInv
<1>5. \A a \in Probed : waits[a] <= Rounds!Behind(a)
  <2> TAKE a \in Probed
  <2>1. waits[a] = 0 /\ order[a] = a /\ a \in 1 .. n
    BY <1>1, <1>2
  <2>2. Rounds!Behind(a) = n - a
    BY <1>1, <2>1 DEF Rounds!Behind
  <2> QED BY <2>1, <2>2
<1> QED BY <1>2, <1>4, <1>5 DEF Rounds!WaitInv, Rounds!TurnInv, Rounds!InTime

LEMMA WaitInvSuffices ==
  ASSUME Rounds!WaitInv
  PROVE  Rounds!NobodyIsPassedOver
<1>1. Rounds!OrderInv /\ Rounds!TurnInv
  BY DEF Rounds!WaitInv
<1>2. ASSUME Rounds!Repairable, NEW a \in Probed \ unbindable
      PROVE  waits[a] <= Rounds!Cardinality(Probed)
  <2>1. PICK n \in Nat : n = Cardinality(Probed)
    BY <1>1, PlacesAreCounted
  <2>2. /\ Rounds!Cardinality(Probed) = n /\ order[a] \in 1 .. n /\ waits[a] \in Nat
        /\ Rounds!Behind(a) = n - order[a]
    BY <1>1, <2>1, PlacesAreCounted
  <2>3. waits[a] <= n - order[a] + 1
    BY <1>1, <1>2, <2>2 DEF Rounds!TurnInv, Rounds!InTime
  <2> QED BY <2>2, <2>3
<1> QED BY <1>2 DEF Rounds!NobodyIsPassedOver

-----------------------------------------------------------------------------
(* Synchronizations of models *)

eligible == v1
cursor == v2
rows == v3
finished == v5
USE DEF eligible, cursor, rows, finished

LEMMA OrdersAreSequences ==
  ASSUME NEW listed \in SUBSET Synced, NEW q \in Models!SetToSeqs(listed)
  PROVE  q \in Seq(Synced)
<1>1. IsFiniteSet(listed) /\ Cardinality(listed) \in Nat
  BY ModelsAssumption, FS_Subset, FS_CardinalityType
<1>2. Models!Cardinality(listed) = Cardinality(listed)
  BY DEF Models!Cardinality, Cardinality
<1>3. q \in [1 .. Cardinality(listed) -> listed]
  BY <1>2 DEF Models!SetToSeqs
<1> QED BY <1>1, <1>3

LEMMA BatchesAreSequences ==
  ASSUME NEW q \in Seq(Synced)
  PROVE  Models!Batch(q) \in Seq(Synced)
BY ModelsAssumption, SMTT(30) DEF Models!Batch

\* Whatever is selected consists of listed.
LEMMA SelectedAreSequences ==
  ASSUME Models!TypeInv, NEW requested \in SUBSET Synced, NEW selected \in Models!Selected(requested)
  PROVE  selected \in Seq(Synced)
<1>1. ASSUME NEW q \in Models!Asked(requested) PROVE q \in Seq(Synced)
  BY <1>1, OrdersAreSequences DEF Models!Asked
<1>2. Models!Rotated \in Seq(Synced)
  <2>1. eligible \in Seq(Synced) /\ Len(eligible) \in Nat
    BY DEF Models!TypeInv
  <2>2. PICK n \in 1 .. Len(eligible) + 1 : Models!Start = n
    <3> DEFINE at == {i \in DOMAIN eligible : eligible[i] = cursor}
    <3>1. Models!Start = IF at = {} THEN 1 ELSE 1 + CHOOSE i \in at : TRUE
      BY DEF Models!Start, Models!After
    <3>2. at \subseteq 1 .. Len(eligible)
      BY <2>1
    <3> HIDE DEF at
    <3>3. at # {} => (CHOOSE i \in at : TRUE) \in at
      OBVIOUS
    <3>4. CASE at = {}
      BY <2>1, <3>1, <3>4
    <3>5. CASE at # {}
      <4>1. PICK i \in 1 .. Len(eligible) : i = CHOOSE j \in at : TRUE
        BY <3>2, <3>3, <3>5
      <4>2. Models!Start = 1 + i
        BY <3>1, <3>5, <4>1
      <4> QED BY <2>1, <4>2
    <3> QED BY <3>4, <3>5
  <2>3. SubSeq(eligible, n, Len(eligible)) \in Seq(Synced) /\ SubSeq(eligible, 1, n - 1) \in Seq(Synced)
    BY <2>1, <2>2, SMTT(30)
  <2> QED BY <2>2, <2>3 DEF Models!Rotated
<1> QED BY <1>1, <1>2, BatchesAreSequences DEF Models!Selected

\* The row and the call of one runner change; the others' stay.
LEMMA RunnerHolds ==
  ASSUME Models!SyncInv, NEW r \in Runners, NEW row, NEW call, Models!Agrees(row, call),
         rows' = [rows EXCEPT ![r] = row], run' = [run EXCEPT ![r] = call], UNCHANGED <<eligible, cursor, finished>>
  PROVE  Models!SyncInv'
<1>1. row \in Models!RowRecord /\ call \in Models!RunRecord
  BY DEF Models!Agrees
<1>2. Models!TypeInv'
  BY <1>1 DEF Models!SyncInv, Models!TypeInv
<1>3. /\ rows'[r] = row /\ run'[r] = call
      /\ \A k \in Runners \ {r} : rows'[k] = rows[k] /\ run'[k] = run[k]
  BY DEF Models!SyncInv, Models!TypeInv
<1>4. \A k \in Runners : run'[k] # Off => Models!Agrees(rows'[k], run'[k])
  BY <1>3 DEF Models!SyncInv
<1>5. Models!RoundsTellTheirAccounts'
  BY DEF Models!SyncInv, Models!RoundsTellTheirAccounts
<1> QED BY <1>2, <1>4, <1>5 DEF Models!SyncInv

LEMMA ModelsBeginHolds ==
  ASSUME Models!SyncInv, NEW r \in Runners, NEW requested \in SUBSET Synced, Models!Begin(r, requested)
  PROVE  Models!SyncInv'
<1>1. PICK selected \in Models!Selected(requested) :
        /\ rows' = [rows EXCEPT ![r] = [status |-> "running", accounts |-> [a \in Models!ToSet(selected) |-> "planned"]]]
        /\ run' = [run EXCEPT ![r] = [automatic |-> requested = {}, todo |-> selected, synced |-> {}, attempted |-> 0,
                     failed |-> 0, cursorAfter |-> IF selected = <<>> THEN cursor ELSE Models!Last(selected)]]
        /\ UNCHANGED <<eligible, cursor, finished>>
  BY DEF Models!Begin, Models!CreateRound
<1>2. selected \in Seq(Synced)
  BY SelectedAreSequences DEF Models!SyncInv
<1>3. Models!ToSet(selected) \subseteq Synced
  BY <1>2 DEF Models!ToSet
<1> DEFINE listed == [a \in Models!ToSet(selected) |-> "planned"]
           row == [status |-> "running", accounts |-> listed]
           cursorAfter == IF selected = <<>> THEN cursor ELSE Models!Last(selected)
           call == [automatic |-> requested = {}, todo |-> selected, synced |-> {}, attempted |-> 0, failed |-> 0,
                    cursorAfter |-> cursorAfter]
<1>4. /\ DOMAIN listed = Models!ToSet(selected) /\ \A a \in DOMAIN listed : listed[a] = "planned"
      /\ listed \in [Models!ToSet(selected) -> Models!Statuses]
  BY DEF Models!Statuses
<1>5. cursorAfter \in Synced \cup {Off}
  <2>1. CASE selected = <<>>
    BY <2>1 DEF Models!SyncInv, Models!TypeInv
  <2>2. CASE selected # <<>>
    <3>1. Len(selected) \in 1 .. Len(selected)
      BY <1>2, <2>2
    <3> QED BY <1>2, <2>2, <3>1 DEF Models!Last
  <2> QED BY <2>1, <2>2
<1>6. row \in Models!RowRecord
  <2> HIDE DEF listed
  <2>1. listed \in UNION {[s -> Models!Statuses] : s \in SUBSET Synced}
    BY <1>3, <1>4
  <2> QED BY <2>1 DEF Models!RowRecord
<1>7. call \in Models!RunRecord
  <2> HIDE DEF cursorAfter
  <2> QED BY <1>2, <1>5 DEF Models!RunRecord
<1>8. Models!Agrees(row, call)
  <2>1. /\ row.accounts = listed /\ call.todo = selected /\ call.synced = {} /\ call.failed = 0 /\ call.attempted = 0
    OBVIOUS
  <2> HIDE DEF row, call, listed
  <2>2. {a \in DOMAIN listed : listed[a] = "succeeded"} = {}
    BY <1>4
  <2>3. \A a \in DOMAIN listed : listed[a] # "failed"
    BY <1>4
  <2> QED BY <1>4, <1>6, <1>7, <2>1, <2>2, <2>3 DEF Models!Agrees
<1>9. rows' = [rows EXCEPT ![r] = row] /\ run' = [run EXCEPT ![r] = call]
  BY <1>1
<1> HIDE DEF row, call
<1> QED BY <1>1, <1>8, <1>9, RunnerHolds

\* What a call and its row are, one account of it in hand.
LEMMA CallAgrees ==
  ASSUME Models!SyncInv, NEW r \in Runners, run[r] # Off
  PROVE  /\ Models!Agrees(rows[r], run[r]) /\ rows[r] \in Models!RowRecord /\ run[r] \in Models!RunRecord
         /\ DOMAIN rows[r].accounts \subseteq Synced
         /\ rows[r].accounts \in [DOMAIN rows[r].accounts -> Models!Statuses]
         /\ run[r].todo # <<>> => Head(run[r].todo) \in DOMAIN rows[r].accounts
<1>1. Models!Agrees(rows[r], run[r])
  BY DEF Models!SyncInv
<1>2. rows[r] \in Models!RowRecord /\ run[r] \in Models!RunRecord
  BY <1>1 DEF Models!Agrees
<1>3. PICK s \in SUBSET Synced : rows[r].accounts \in [s -> Models!Statuses]
  BY <1>2 DEF Models!RowRecord
<1>4. run[r].todo \in Seq(Synced)
  BY <1>2 DEF Models!RunRecord
<1>5. run[r].todo # <<>> => Head(run[r].todo) \in Models!ToSet(run[r].todo)
  BY <1>4 DEF Models!ToSet
<1>6. Models!ToSet(run[r].todo) \subseteq DOMAIN rows[r].accounts
  BY <1>1 DEF Models!Agrees
<1> QED BY <1>1, <1>2, <1>3, <1>5, <1>6

\* The status of an account of a row changes.
LEMMA UpdateAccountHolds ==
  ASSUME Models!SyncInv, NEW r \in Runners, run[r] # Off, NEW a \in DOMAIN rows[r].accounts,
         NEW status \in Models!Statuses, Models!UpdateAccount(r, a, status)
  PROVE  \E row \in Models!RowRecord :
           /\ rows' = [rows EXCEPT ![r] = row]
           /\ row.accounts \in [DOMAIN rows[r].accounts -> Models!Statuses]
           /\ row.accounts[a] = status
           /\ \A b \in DOMAIN rows[r].accounts : b # a => row.accounts[b] = rows[r].accounts[b]
<1> DEFINE listed == [rows[r].accounts EXCEPT ![a] = status]
           row == [status |-> "running", accounts |-> listed]
<1>1. /\ listed \in [DOMAIN rows[r].accounts -> Models!Statuses] /\ listed[a] = status
      /\ \A b \in DOMAIN rows[r].accounts : b # a => listed[b] = rows[r].accounts[b]
  BY CallAgrees
<1>2. [rows[r] EXCEPT !.accounts = listed] = row
  BY CallAgrees DEF Models!RowRecord
<1>3. rows' = [rows EXCEPT ![r] = [rows[r] EXCEPT !.accounts = listed]]
  BY DEF Models!UpdateAccount, Models!SyncInv, Models!TypeInv
<1> HIDE DEF listed
<1>4. row \in Models!RowRecord
  <2>1. listed \in UNION {[s -> Models!Statuses] : s \in SUBSET Synced}
    BY <1>1, CallAgrees
  <2> QED BY <2>1 DEF Models!RowRecord
<1> QED BY <1>1, <1>2, <1>3, <1>4

LEMMA ModelsAccountHolds ==
  ASSUME Models!SyncInv, NEW r \in Runners, Models!Account(r)
  PROVE  Models!SyncInv'
<1>1. run[r] # Off /\ run[r].todo # <<>> /\ UNCHANGED <<eligible, cursor, run, finished>>
  BY DEF Models!Account
<1>2. PICK a \in DOMAIN rows[r].accounts : a = Head(run[r].todo)
  BY <1>1, CallAgrees
<1>3. rows[r].accounts[a] = "planned" /\ Models!UpdateAccount(r, a, "running") /\ "running" \in Models!Statuses
  BY <1>2 DEF Models!Account, Models!Statuses
<1>4. PICK row \in Models!RowRecord :
        /\ rows' = [rows EXCEPT ![r] = row]
        /\ row.accounts \in [DOMAIN rows[r].accounts -> Models!Statuses]
        /\ row.accounts[a] = "running"
        /\ \A b \in DOMAIN rows[r].accounts : b # a => row.accounts[b] = rows[r].accounts[b]
  BY <1>1, <1>3, UpdateAccountHolds
<1>5. Models!Agrees(rows[r], run[r]) /\ run[r] \in Models!RunRecord
  BY <1>1, CallAgrees
<1>6. a \in Models!ToSet(run[r].todo)
  BY <1>3, <1>5 DEF Models!Agrees
<1>7. DOMAIN row.accounts = DOMAIN rows[r].accounts
  BY <1>4
<1>8. \A b \in DOMAIN row.accounts : row.accounts[b] \in {"planned", "running"} => b \in Models!ToSet(run[r].todo)
  BY <1>4, <1>5, <1>6, <1>7 DEF Models!Agrees
<1>9. run[r].synced = {b \in DOMAIN row.accounts : row.accounts[b] = "succeeded"}
  BY <1>3, <1>4, <1>5, <1>7 DEF Models!Agrees
<1>10. (\A b \in DOMAIN row.accounts : row.accounts[b] # "failed")
         <=> (\A b \in DOMAIN rows[r].accounts : rows[r].accounts[b] # "failed")
  BY <1>3, <1>4, <1>7
<1>11. Models!Agrees(row, run[r])
  BY <1>5, <1>7, <1>8, <1>9, <1>10 DEF Models!Agrees
<1>12. run' = [run EXCEPT ![r] = run[r]]
  BY <1>1 DEF Models!SyncInv, Models!TypeInv
<1> QED BY <1>1, <1>4, <1>11, <1>12, RunnerHolds

LEMMA TailHasTheRest ==
  ASSUME NEW q \in Seq(Synced), q # <<>>
  PROVE  /\ Models!ToSet(Tail(q)) \subseteq Models!ToSet(q)
         /\ Models!ToSet(q) \subseteq Models!ToSet(Tail(q)) \cup {Head(q)}
<1>1. /\ Tail(q) \in Seq(Synced) /\ Len(Tail(q)) = Len(q) - 1 /\ Len(q) \in Nat \ {0}
      /\ \A i \in 1 .. Len(q) - 1 : Tail(q)[i] = q[i + 1]
      /\ Head(q) = q[1]
  OBVIOUS
<1>2. \A i \in DOMAIN Tail(q) : Tail(q)[i] \in Models!ToSet(q)
  BY <1>1 DEF Models!ToSet
<1>3. ASSUME NEW i \in DOMAIN q PROVE q[i] \in Models!ToSet(Tail(q)) \cup {Head(q)}
  <2>1. CASE i = 1
    BY <1>1, <2>1
  <2>2. CASE i # 1
    <3>1. i - 1 \in 1 .. Len(q) - 1
      BY <1>1, <2>2
    <3>2. Tail(q)[i - 1] = q[i - 1 + 1] /\ i - 1 + 1 = i /\ i - 1 \in DOMAIN Tail(q)
      BY <1>1, <3>1
    <3> QED BY <3>2 DEF Models!ToSet
  <2> QED BY <2>1, <2>2
<1> QED BY <1>2, <1>3 DEF Models!ToSet

\* An answer is the first of its account, which is to do no more.
LEMMA ModelsAnswerHolds ==
  ASSUME Models!SyncInv, NEW r \in Runners, NEW ok \in BOOLEAN, Models!Answer(r, ok)
  PROVE  Models!SyncInv'
<1>1. run[r] # Off /\ run[r].todo # <<>> /\ UNCHANGED <<eligible, cursor, finished>>
  BY DEF Models!Answer
<1>2. PICK a \in DOMAIN rows[r].accounts : a = Head(run[r].todo)
  BY <1>1, CallAgrees
<1> DEFINE status == IF ok THEN "succeeded" ELSE "failed"
           old == run[r]
           call == [automatic |-> old.automatic, todo |-> Tail(old.todo), synced |-> IF ok THEN old.synced \cup {a} ELSE old.synced,
                    attempted |-> old.attempted + 1, failed |-> old.failed + (IF ok THEN 0 ELSE 1),
                    cursorAfter |-> old.cursorAfter]
<1>3. rows[r].accounts[a] = "running" /\ Models!UpdateAccount(r, a, status) /\ status \in Models!Statuses
  BY <1>2 DEF Models!Answer, Models!Statuses
<1> HIDE DEF status
<1>4. PICK row \in Models!RowRecord :
        /\ rows' = [rows EXCEPT ![r] = row]
        /\ row.accounts \in [DOMAIN rows[r].accounts -> Models!Statuses]
        /\ row.accounts[a] = status
        /\ \A b \in DOMAIN rows[r].accounts : b # a => row.accounts[b] = rows[r].accounts[b]
  BY <1>1, <1>3, UpdateAccountHolds
<1>5. Models!Agrees(rows[r], old) /\ old \in Models!RunRecord /\ a \in Synced
  BY <1>1, CallAgrees
<1>6. run' = [run EXCEPT ![r] = call]
  BY <1>2, <1>5 DEF Models!Answer, Models!Remaining, Models!RunRecord, Models!SyncInv, Models!TypeInv
<1> USE DEF status
<1>7. call \in Models!RunRecord
  BY <1>1, <1>5 DEF Models!RunRecord
<1>8. DOMAIN row.accounts = DOMAIN rows[r].accounts
  BY <1>4
<1>9. /\ call.todo = Tail(old.todo) /\ call.attempted = old.attempted + 1
      /\ call.synced = (IF ok THEN old.synced \cup {a} ELSE old.synced)
      /\ call.failed = old.failed + (IF ok THEN 0 ELSE 1)
      /\ old.todo \in Seq(Synced) /\ old.failed \in Nat /\ old.attempted \in Nat
  BY <1>5 DEF Models!RunRecord
<1> HIDE DEF call, old
<1>10. /\ Models!ToSet(Tail(old.todo)) \subseteq Models!ToSet(old.todo)
       /\ Models!ToSet(old.todo) \subseteq Models!ToSet(Tail(old.todo)) \cup {a}
  BY <1>1, <1>2, <1>9, TailHasTheRest DEF old
<1>11. Models!ToSet(call.todo) \subseteq DOMAIN row.accounts
  BY <1>5, <1>8, <1>9, <1>10 DEF Models!Agrees
<1>12. \A b \in DOMAIN row.accounts : row.accounts[b] \in {"planned", "running"} => b \in Models!ToSet(call.todo)
  BY <1>4, <1>5, <1>8, <1>9, <1>10 DEF Models!Agrees
<1>13. a \notin old.synced
  BY <1>3, <1>5 DEF Models!Agrees
<1>14. call.synced = {b \in DOMAIN row.accounts : row.accounts[b] = "succeeded"}
  BY <1>3, <1>4, <1>5, <1>8, <1>9 DEF Models!Agrees
<1>15. call.failed = 0 <=> \A b \in DOMAIN row.accounts : row.accounts[b] # "failed"
  <2>1. old.failed = 0 <=> \A b \in DOMAIN row.accounts : rows[r].accounts[b] # "failed"
    BY <1>5, <1>8 DEF Models!Agrees
  <2>2. CASE ok
    <3>1. call.failed = old.failed /\ row.accounts[a] # "failed" /\ rows[r].accounts[a] # "failed"
      BY <1>3, <1>4, <1>9, <2>2
    <3>2. \A b \in DOMAIN row.accounts : row.accounts[b] # "failed" <=> rows[r].accounts[b] # "failed"
      BY <1>4, <1>8, <3>1
    <3> QED BY <2>1, <3>1, <3>2
  <2>3. CASE ~ok
    <3>1. call.failed # 0 /\ row.accounts[a] = "failed"
      BY <1>4, <1>9, <2>3
    <3> QED BY <1>8, <3>1
  <2> QED BY <2>2, <2>3
<1>16. call.failed <= call.attempted /\ (call.failed = call.attempted <=> call.synced = {})
  <2>1. old.failed <= old.attempted /\ (old.failed = old.attempted <=> old.synced = {})
    BY <1>5 DEF Models!Agrees
  <2>2. CASE ok
    <3>1. call.synced # {} /\ call.failed = old.failed + 0 /\ call.attempted = old.attempted + 1
      BY <1>9, <2>2
    <3>2. call.failed < call.attempted
      BY <1>9, <2>1, <3>1
    <3>3. call.failed \in Nat /\ call.attempted \in Nat
      BY <1>9, <3>1
    <3>4. call.failed <= call.attempted /\ call.failed # call.attempted
      BY <3>2, <3>3
    <3> QED BY <3>1, <3>4
  <2>3. CASE ~ok
    <3>1. call.synced = old.synced /\ call.failed = old.failed + 1 /\ call.attempted = old.attempted + 1
      BY <1>9, <2>3
    <3> QED BY <1>9, <2>1, <3>1
  <2> QED BY <2>2, <2>3
<1>17. Models!Agrees(row, call)
  BY <1>7, <1>11, <1>12, <1>14, <1>15, <1>16 DEF Models!Agrees
<1> QED BY <1>1, <1>4, <1>6, <1>17, RunnerHolds

\* A round that ends has nothing left to do: each of its listed was answered.
LEMMA ModelsFinishHolds ==
  ASSUME Models!SyncInv, NEW r \in Runners, Models!Finish(r)
  PROVE  Models!SyncInv'
<1>1. run[r] # Off /\ run[r].todo = <<>> /\ UNCHANGED eligible /\ cursor' = run[r].cursorAfter
  BY DEF Models!Finish, Models!LatestCursor
<1> DEFINE listed == rows[r].accounts
           call == run[r]
<1>2. /\ Models!Agrees(rows[r], call) /\ call \in Models!RunRecord
      /\ listed \in [DOMAIN listed -> Models!Statuses]
  BY <1>1, CallAgrees
<1>3. /\ finished' = [status |-> Models!RoundStatus(call.failed, call.attempted - call.failed),
                      accounts |-> listed, synced |-> call.synced]
      /\ rows' = [rows EXCEPT ![r] = Models!NoRow] /\ run' = [run EXCEPT ![r] = Off]
  BY DEF Models!Finish, Models!FinishRound
<1>4. Models!TypeInv'
  <2>1. cursor' \in Synced \cup {Off}
    BY <1>1, <1>2 DEF Models!RunRecord
  <2> QED BY <1>1, <1>3, <2>1 DEF Models!SyncInv, Models!TypeInv
<1>5. \A k \in Runners : run'[k] # Off => rows'[k] = rows[k] /\ run'[k] = run[k]
  BY <1>3 DEF Models!SyncInv, Models!TypeInv
<1>6. \A k \in Runners : run'[k] # Off => Models!Agrees(rows'[k], run'[k])
  BY <1>5 DEF Models!SyncInv
<1>7. \A a : a \notin Models!ToSet(call.todo)
  BY <1>1 DEF Models!ToSet
<1>8. /\ \A a \in DOMAIN listed : listed[a] \in {"succeeded", "failed"}
      /\ call.synced = {a \in DOMAIN listed : listed[a] = "succeeded"}
      /\ call.failed = 0 <=> \A a \in DOMAIN listed : listed[a] # "failed"
      /\ call.failed = call.attempted <=> call.synced = {}
      /\ call.failed \in Nat /\ call.attempted \in Nat
  BY <1>2, <1>7 DEF Models!Agrees, Models!Statuses, Models!RunRecord
<1>9. /\ finished'.accounts = listed /\ finished'.synced = call.synced
      /\ finished'.status = Models!RoundStatus(call.failed, call.attempted - call.failed)
  BY <1>3
<1> HIDE DEF listed, call
<1>10. \A a \in DOMAIN listed : listed[a] = IF a \in call.synced THEN "succeeded" ELSE "failed"
  BY <1>8
<1>11. call.failed = 0 <=> call.synced = DOMAIN listed
  BY <1>8
<1>12. /\ finished'.status = "succeeded" <=> call.failed = 0
       /\ finished'.status = "partial" => call.attempted - call.failed # 0
  BY <1>8, <1>9 DEF Models!RoundStatus
<1>13. finished'.status = "partial" => call.synced # {}
  BY <1>8, <1>12
<1>14. Models!RoundsTellTheirAccounts'
  BY <1>9, <1>10, <1>11, <1>12, <1>13 DEF Models!RoundsTellTheirAccounts
<1> QED BY <1>4, <1>6, <1>14 DEF Models!SyncInv

LEMMA ModelsNextHolds ==
  ASSUME Models!SyncInv, [Models!Next]_(Models!syncVars)
  PROVE  Models!SyncInv'
<1>1. ASSUME NEW r \in Runners,
             \/ Models!Begin(r, {}) \/ \E requested \in (SUBSET Synced) \ {{}} : Models!Begin(r, requested)
             \/ Models!Account(r) \/ (\E ok \in BOOLEAN : Models!Answer(r, ok)) \/ Models!Finish(r)
      PROVE  Models!SyncInv'
  BY <1>1, ModelsBeginHolds, ModelsAccountHolds, ModelsAnswerHolds, ModelsFinishHolds
<1>2. CASE Models!Reorder
  <2>1. PICK listed \in SUBSET Synced : eligible' \in Models!SetToSeqs(listed)
    BY <1>2 DEF Models!Reorder
  <2>2. UNCHANGED <<cursor, rows, run, finished>>
    BY <1>2 DEF Models!Reorder
  <2>3. eligible' \in Seq(Synced)
    <3>1. PICK q \in Models!SetToSeqs(listed) : q = eligible'
      BY <2>1
    <3> QED BY <3>1, OrdersAreSequences
  <2> QED BY <2>2, <2>3 DEF Models!SyncInv, Models!TypeInv, Models!RoundsTellTheirAccounts
<1>3. CASE Models!Restart
  <2>1. /\ run' = [r \in Runners |-> Off] /\ rows' = [r \in Runners |-> Models!NoRow]
        /\ UNCHANGED <<eligible, cursor, finished>>
    BY <1>3 DEF Models!Restart
  <2> QED BY <2>1 DEF Models!SyncInv, Models!TypeInv, Models!RoundsTellTheirAccounts
<1>4. CASE UNCHANGED Models!syncVars
  BY <1>4 DEF Models!syncVars, Models!SyncInv, Models!TypeInv, Models!RoundsTellTheirAccounts
<1> QED BY <1>1, <1>2, <1>3, <1>4 DEF Models!Next

LEMMA ModelsInitHolds == ASSUME Models!Init PROVE Models!SyncInv
<1>1. eligible \in Seq(Synced)
  <2>1. Cardinality(Synced) \in Nat /\ eligible = [a \in 1 .. Cardinality(Synced) |-> a]
    BY ModelsAssumption, FS_CardinalityType DEF Models!Init
  <2>2. PICK n \in Nat : n = Cardinality(Synced)
    BY <2>1
  <2>3. Synced = 1 .. n /\ eligible = [a \in 1 .. n |-> a]
    BY <2>1, <2>2, ModelsAssumption
  <2>4. [a \in 1 .. n |-> a] \in Seq(1 .. n)
    BY <2>2
  <2> QED BY <2>3, <2>4
<1> QED BY <1>1 DEF Models!Init, Models!SyncInv, Models!TypeInv, Models!RoundsTellTheirAccounts

LEMMA SyncInvSuffices == Models!SyncInv => Models!RoundsTellTheirAccounts
BY DEF Models!SyncInv

-----------------------------------------------------------------------------
(* Synchronizations of models: turns *)

turn == v6
USE DEF turn

\* The turns, of any sequence.
LEMMA RoundsComeCloser ==
  ASSUME NEW t \in Nat, NEW n \in Nat, NEW b \in Nat, NEW size \in Nat
  PROVE  /\ (t + 1) * size = t * size + size /\ t * size \in Nat
         /\ ((t + 1) - 1) * size = t * size /\ 0 * size = 0
OBVIOUS

LEMMA AfterIsAPlace ==
  ASSUME NEW q \in Seq(Synced), \A i, j \in DOMAIN q : q[i] = q[j] => i = j, NEW account
  PROVE  /\ Models!After(q, account) \in 1 .. Len(q) + 1
         /\ \A j \in DOMAIN q : q[j] = account => Models!After(q, account) = j + 1
<1> DEFINE at == {i \in DOMAIN q : q[i] = account}
<1>1. Models!After(q, account) = IF at = {} THEN 1 ELSE 1 + CHOOSE i \in at : TRUE
  BY DEF Models!After
<1>2. at \subseteq 1 .. Len(q) /\ Len(q) \in Nat /\ DOMAIN q = 1 .. Len(q)
  OBVIOUS
<1>3. CASE at = {}
  <2>1. Models!After(q, account) = 1
    BY <1>1, <1>3
  <2>2. \A j \in DOMAIN q : q[j] # account
    BY <1>3
  <2> QED BY <1>2, <2>1, <2>2
<1>4. CASE at # {}
  <2>1. (CHOOSE i \in at : TRUE) \in at
    BY <1>4
  <2>2. PICK k \in DOMAIN q : k = (CHOOSE i \in at : TRUE) /\ q[k] = account
    BY <2>1
  <2>3. Models!After(q, account) = 1 + k
    <3> HIDE DEF at
    <3> QED BY <1>1, <1>4, <2>2
  <2>4. \A j \in DOMAIN q : q[j] = account => j = k
    BY <2>2
  <2> QED BY <1>2, <2>2, <2>3, <2>4
<1> QED BY <1>3, <1>4

LEMMA BeforeIsBounded ==
  ASSUME NEW q \in Seq(Synced), \A i, j \in DOMAIN q : q[i] = q[j] => i = j, NEW account, NEW i \in DOMAIN q
  PROVE  Models!Before(q, i, account) \in Nat /\ Models!Before(q, i, account) < Len(q)
<1>1. PICK s \in 1 .. Len(q) + 1 : s = Models!After(q, account)
  BY AfterIsAPlace
<1>2. Len(q) \in Nat /\ i \in 1 .. Len(q)
  OBVIOUS
<1> QED BY <1>1, <1>2 DEF Models!Before

\* After the turn of the j-th account those before it have to wait for the longest.
LEMMA TurnsGoOn ==
  ASSUME NEW q \in Seq(Synced), \A i, j \in DOMAIN q : q[i] = q[j] => i = j, NEW account,
         NEW i \in DOMAIN q, NEW j \in DOMAIN q, Models!Before(q, j, account) < Models!Before(q, i, account)
  PROVE  Models!Before(q, i, q[j]) = Models!Before(q, i, account) - Models!Before(q, j, account) - 1
<1>1. PICK s \in 1 .. Len(q) + 1 : s = Models!After(q, account)
  BY AfterIsAPlace
<1>2. Models!After(q, q[j]) = j + 1
  BY AfterIsAPlace
<1>3. PICK n \in Nat : n = Len(q) /\ i \in 1 .. n /\ j \in 1 .. n
  OBVIOUS
<1>4. /\ Models!Before(q, i, account) = IF i >= s THEN i - s ELSE i - s + n
      /\ Models!Before(q, j, account) = IF j >= s THEN j - s ELSE j - s + n
      /\ Models!Before(q, i, q[j]) = IF i >= j + 1 THEN i - (j + 1) ELSE i - (j + 1) + n
  BY <1>1, <1>2, <1>3 DEF Models!Before
<1>5. s \in 1 .. n + 1
  BY <1>1, <1>3
<1>6. PICK x \in Int, y \in Int :
        /\ x = Models!Before(q, i, account) /\ x = IF i >= s THEN i - s ELSE i - s + n
        /\ y = Models!Before(q, j, account) /\ y = IF j >= s THEN j - s ELSE j - s + n
  <2>1. (IF i >= s THEN i - s ELSE i - s + n) \in Int /\ (IF j >= s THEN j - s ELSE j - s + n) \in Int
    BY <1>3, <1>5
  <2> QED BY <1>4, <2>1
<1>7. y < x
  BY <1>6
<1>8. (IF i >= j + 1 THEN i - (j + 1) ELSE i - (j + 1) + n) = x - y - 1
  <2>1. CASE j >= s
    <3>1. i >= s => x = i - s /\ i > j
      BY <1>3, <1>5, <1>6, <1>7, <2>1
    <3>2. i < s => x = i - s + n /\ ~(i >= j + 1)
      BY <1>3, <1>5, <1>6, <2>1
    <3>3. y = j - s
      BY <1>6, <2>1
    <3>4. CASE i >= s
      <4>1. i >= j + 1 /\ i - (j + 1) = x - y - 1
        BY <1>3, <1>5, <3>1, <3>3, <3>4
      <4> QED BY <4>1
    <3>5. CASE i < s
      <4>1. ~(i >= j + 1) /\ x = i - s + n
        BY <3>2, <3>5
      <4>2. i - (j + 1) + n = (i - s + n) - (j - s) - 1
        BY <1>3, <1>5
      <4> QED BY <3>3, <4>1, <4>2
    <3> QED BY <1>3, <1>5, <3>4, <3>5
  <2>2. CASE j < s
    BY <1>3, <1>5, <1>6, <1>7, <2>2
  <2> QED BY <1>3, <1>5, <2>1, <2>2
<1> QED BY <1>4, <1>6, <1>8

\* The accounts of the scope in the order of their turns.
LEMMA RotatedInTurn ==
  ASSUME eligible \in Seq(Synced), \A i, j \in DOMAIN eligible : eligible[i] = eligible[j] => i = j
  PROVE  /\ Models!Rotated \in Seq(Synced) /\ Len(Models!Rotated) = Len(eligible)
         /\ \A i \in DOMAIN eligible : Models!Rotated[Models!Before(eligible, i, cursor) + 1] = eligible[i]
         /\ \A k \in DOMAIN eligible : \E i \in DOMAIN eligible : Models!Before(eligible, i, cursor) = k - 1
<1>1. PICK s \in 1 .. Len(eligible) + 1 : s = Models!After(eligible, cursor)
  BY AfterIsAPlace
<1> DEFINE n == Len(eligible)
           first == SubSeq(eligible, s, n)
           rest == SubSeq(eligible, 1, s - 1)
<1>2. n \in Nat /\ DOMAIN eligible = 1 .. n
  OBVIOUS
<1>3. /\ first \in Seq(Synced) /\ Len(first) = n - s + 1
      /\ \A k \in 1 .. n - s + 1 : first[k] = eligible[s + k - 1]
  BY <1>1, <1>2, SMTT(30)
<1>4. /\ rest \in Seq(Synced) /\ Len(rest) = s - 1
      /\ \A k \in 1 .. s - 1 : rest[k] = eligible[k]
  BY <1>1, <1>2, SMTT(30)
<1>5. Models!Rotated = first \o rest
  <2>1. Models!Start = s
    BY <1>1 DEF Models!Start
  <2> QED BY <2>1 DEF Models!Rotated
<1> HIDE DEF first, rest, n
<1>6. Models!Rotated \in Seq(Synced) /\ Len(Models!Rotated) = n
  <2>1. \A x, y \in Seq(Synced) : x \o y \in Seq(Synced) /\ Len(x \o y) = Len(x) + Len(y)
    OBVIOUS
  <2>2. first \o rest \in Seq(Synced) /\ Len(first \o rest) = n - s + 1 + (s - 1)
    BY <1>3, <1>4, <2>1
  <2>3. n - s + 1 + (s - 1) = n
    BY <1>1, <1>2
  <2> QED BY <1>5, <2>2, <2>3
<1>7. ASSUME NEW i \in DOMAIN eligible PROVE Models!Rotated[Models!Before(eligible, i, cursor) + 1] = eligible[i]
  <2>1. CASE i >= s
    <3>1. Models!Before(eligible, i, cursor) + 1 = i - s + 1
      BY <1>1, <1>2, <2>1 DEF Models!Before
    <3>2. i - s + 1 \in 1 .. n - s + 1 /\ s + (i - s + 1) - 1 = i
      BY <1>1, <1>2, <2>1
    <3>3. first[i - s + 1] = eligible[i]
      BY <1>3, <3>2
    <3>4. (first \o rest)[i - s + 1] = first[i - s + 1]
      BY <1>1, <1>2, <1>3, <1>4, <3>2
    <3> QED BY <1>5, <3>1, <3>3, <3>4
  <2>2. CASE i < s
    <3>1. Models!Before(eligible, i, cursor) + 1 = n - s + 1 + i
      BY <1>1, <1>2, <2>2 DEF Models!Before, n
    <3>2. i \in 1 .. s - 1
      BY <1>1, <1>2, <2>2
    <3>3. (first \o rest)[n - s + 1 + i] = rest[i]
      BY <1>1, <1>2, <1>3, <1>4, <3>2
    <3> QED BY <1>4, <1>5, <3>1, <3>2, <3>3
  <2> QED BY <1>1, <1>2, <2>1, <2>2
<1>8. ASSUME NEW k \in DOMAIN eligible PROVE \E i \in DOMAIN eligible : Models!Before(eligible, i, cursor) = k - 1
  <2>1. CASE k <= n - s + 1
    <3>1. k + s - 1 \in DOMAIN eligible /\ k + s - 1 >= s
      BY <1>1, <1>2, <2>1
    <3>2. Models!Before(eligible, k + s - 1, cursor) = k - 1
      BY <1>1, <1>2, <3>1 DEF Models!Before
    <3> QED BY <3>1, <3>2
  <2>2. CASE k > n - s + 1
    <3>1. k - (n - s + 1) \in DOMAIN eligible /\ k - (n - s + 1) < s
      BY <1>1, <1>2, <2>2 DEF n
    <3>2. Models!Before(eligible, k - (n - s + 1), cursor) = k - 1
      BY <1>1, <1>2, <3>1 DEF Models!Before, n
    <3> QED BY <3>1, <3>2
  <2> QED BY <1>1, <1>2, <2>1, <2>2
<1> QED BY <1>6, <1>7, <1>8 DEF n

\* An automatic round takes the accounts whose turn it is; the others come closer.
LEMMA BatchTakesTurns ==
  ASSUME eligible \in Seq(Synced), \A i, j \in DOMAIN eligible : eligible[i] = eligible[j] => i = j,
         NEW selected, selected = Models!Batch(Models!Rotated), NEW i \in DOMAIN eligible
  PROVE  /\ selected # <<>>
         /\ Models!Before(eligible, i, cursor) < BatchSize => eligible[i] \in Models!ToSet(selected)
         /\ Models!Before(eligible, i, cursor) >= BatchSize =>
              Models!Before(eligible, i, Models!Last(selected)) = Models!Before(eligible, i, cursor) - BatchSize
<1>1. PICK b \in Nat : b = Models!Before(eligible, i, cursor) /\ b < Len(eligible)
  BY BeforeIsBounded
<1>2. PICK n \in Nat : n = Len(eligible) /\ DOMAIN eligible = 1 .. n /\ i \in 1 .. n
  OBVIOUS
<1>3. PICK q \in Seq(Synced) : q = Models!Rotated /\ Len(q) = n
  BY <1>2, RotatedInTurn
<1>4. PICK m \in Nat : m = IF BatchSize < n THEN BatchSize ELSE n
  BY <1>2, ModelsAssumption
<1>5. m \in 1 .. n /\ selected = SubSeq(q, 1, m)
  BY <1>2, <1>3, <1>4, ModelsAssumption DEF Models!Batch
<1>6. selected \in Seq(Synced) /\ Len(selected) = m /\ \A k \in 1 .. m : selected[k] = q[k]
  BY <1>2, <1>3, <1>5, SMTT(30)
<1>7. selected # <<>>
  <2>1. Len(selected) # 0
    BY <1>5, <1>6
  <2> QED BY <2>1
<1>8. ASSUME b < BatchSize PROVE eligible[i] \in Models!ToSet(selected)
  <2>1. b + 1 \in 1 .. m
    BY <1>1, <1>2, <1>4, <1>8, ModelsAssumption
  <2>2. q[b + 1] = eligible[i]
    BY <1>1, <1>3, RotatedInTurn
  <2>3. DOMAIN selected = 1 .. m /\ selected[b + 1] = eligible[i]
    BY <1>5, <1>6, <2>1, <2>2
  <2> QED BY <2>1, <2>3 DEF Models!ToSet
<1>9. ASSUME b >= BatchSize PROVE Models!Before(eligible, i, Models!Last(selected)) = b - BatchSize
  <2>1. m = BatchSize /\ m \in DOMAIN eligible
    BY <1>1, <1>2, <1>4, <1>5, <1>9, ModelsAssumption
  <2>2. PICK j \in DOMAIN eligible : Models!Before(eligible, j, cursor) = m - 1
    BY <2>1, RotatedInTurn
  <2>3. q[m - 1 + 1] = eligible[j]
    BY <1>3, <2>2, RotatedInTurn
  <2>4. Models!Last(selected) = eligible[j]
    BY <1>5, <1>6, <2>3 DEF Models!Last
  <2>5. Models!Before(eligible, j, cursor) < Models!Before(eligible, i, cursor)
    BY <1>1, <1>5, <1>9, <2>1, <2>2
  <2>6. Models!Before(eligible, i, eligible[j]) = b - (m - 1) - 1
    BY <1>1, <2>2, <2>5, TurnsGoOn
  <2> QED BY <1>1, <1>5, <2>1, <2>4, <2>6
<1> QED BY <1>1, <1>7, <1>8, <1>9

\* Whoever begins anew is not late.
LEMMA NobodyIsLate ==
  ASSUME NEW n \in Nat, NEW b \in Nat, b < n
  PROVE  0 * BatchSize + b < n
BY ModelsAssumption, RoundsComeCloser

\* The turns are forgotten when something disturbs them.
LEMMA UndisturbedHolds ==
  ASSUME turn' = [a \in Synced |-> 0], eligible' \in Seq(Synced),
         \A i, j \in DOMAIN eligible' : eligible'[i] = eligible'[j] => i = j,
         \A r, s \in Runners : Models!Automatic(r)' /\ Models!Automatic(s)' => r = s
  PROVE  Models!TurnInv'
<1>1. \A i \in DOMAIN eligible' : eligible'[i] \in Synced /\ turn'[eligible'[i]] = 0
  OBVIOUS
<1>2. Len(eligible') \in Nat
  OBVIOUS
<1>3. ASSUME NEW i \in DOMAIN eligible', NEW account
      PROVE  turn'[eligible'[i]] * BatchSize + Models!Before(eligible', i, account) < Len(eligible')
  <2>1. Models!Before(eligible', i, account) \in Nat /\ Models!Before(eligible', i, account) < Len(eligible')
    BY BeforeIsBounded
  <2> QED BY <1>1, <1>2, <2>1, NobodyIsLate
<1>4. turn' \in [Synced -> Nat] /\ \A a \in Synced : turn'[a] = 0
  OBVIOUS
<1> QED BY <1>3, <1>4 DEF Models!TurnInv, Models!Comes

\* The turns stay, and so do the rounds: only what they have to do may change.
LEMMA TurnsStay ==
  ASSUME Models!TurnInv, UNCHANGED <<eligible, cursor, turn>>,
         \A r \in Runners : Models!Automatic(r)' = Models!Automatic(r)
                            /\ (Models!Automatic(r) => run'[r].cursorAfter = run[r].cursorAfter /\ run'[r].todo = run[r].todo)
  PROVE  Models!TurnInv'
<1>1. \A i, account : Models!Comes(i, account)' = Models!Comes(i, account)
  BY DEF Models!Comes
<1> QED BY <1>1 DEF Models!TurnInv

\* An automatic round begins with those whose turn it is.
LEMMA AutomaticRoundBegins ==
  ASSUME Models!SyncInv, Models!TurnInv, NEW r \in Runners, Models!Begin(r, {})
  PROVE  Models!TurnInv'
<1> DEFINE n == Len(eligible)
           selected == Models!Batch(Models!Rotated)
           cursorAfter == IF selected = <<>> THEN cursor ELSE Models!Last(selected)
<1>1. Models!Selected({}) = {selected}
  BY DEF Models!Selected
<1>2. /\ run' = [run EXCEPT ![r] = [automatic |-> TRUE, todo |-> selected, synced |-> {}, attempted |-> 0,
                                   failed |-> 0, cursorAfter |-> cursorAfter]]
      /\ \A s \in Runners : ~Models!Automatic(s)
      /\ turn' = [a \in Synced |-> IF a \in Models!ToSet(eligible) THEN turn[a] + 1 ELSE 0]
      /\ UNCHANGED <<eligible, cursor>>
  <2> HIDE DEF selected
  <2> QED BY <1>1 DEF Models!Begin, Models!Automatic
<1>3. run'[r].automatic = TRUE /\ run'[r].todo = selected /\ run'[r].cursorAfter = cursorAfter
  BY <1>2 DEF Models!SyncInv, Models!TypeInv
<1>4. \A s \in Runners \ {r} : run'[s] = run[s]
  BY <1>2 DEF Models!SyncInv, Models!TypeInv
<1>5. run'[r] # Off /\ Models!Automatic(r)' /\ \A s \in Runners \ {r} : ~Models!Automatic(s)'
  <2>1. selected \in Models!Selected({}) /\ selected \in Seq(Synced)
    BY <1>1, SelectedAreSequences DEF Models!SyncInv
  <2>2. cursorAfter \in Synced \cup {Off}
    <3> HIDE DEF selected
    <3>1. CASE selected = <<>>
      BY <3>1 DEF Models!SyncInv, Models!TypeInv
    <3>2. CASE selected # <<>>
      BY <2>1, <3>2 DEF Models!Last
    <3> QED BY <3>1, <3>2
  <2> HIDE DEF selected, cursorAfter
  <2>3. run'[r] = [automatic |-> TRUE, todo |-> selected, synced |-> {}, attempted |-> 0, failed |-> 0,
                   cursorAfter |-> cursorAfter]
    BY <1>2 DEF Models!SyncInv, Models!TypeInv
  <2>4. run'[r] \in Models!RunRecord
    BY <2>1, <2>2, <2>3 DEF Models!RunRecord
  <2>5. run'[r] # Off
    BY <2>4, NothingAssumption
  <2> QED BY <1>2, <1>3, <1>4, <2>5 DEF Models!Automatic
<1>6. eligible \in Seq(Synced) /\ turn \in [Synced -> Nat] /\ n \in Nat /\ DOMAIN eligible = 1 .. n
      /\ (\A i, j \in DOMAIN eligible : eligible[i] = eligible[j] => i = j)
  BY DEF Models!SyncInv, Models!TypeInv, Models!TurnInv
<1>7. ASSUME NEW i \in DOMAIN eligible
      PROVE  \/ Models!Comes(i, run[r].cursorAfter)'
             \/ eligible'[i] \in Models!ToSet(run'[r].todo) /\ (turn'[eligible'[i]] - 1) * BatchSize < Len(eligible')
  <2>1. eligible[i] \in Synced /\ eligible[i] \in Models!ToSet(eligible)
    BY <1>6 DEF Models!ToSet
  <2>2. PICK t \in Nat : t = turn[eligible[i]] /\ turn'[eligible'[i]] = t + 1
    BY <1>2, <1>6, <2>1
  <2>3. PICK b \in Nat : b = Models!Before(eligible, i, cursor) /\ b < n
    BY <1>6, BeforeIsBounded
  <2>4. t * BatchSize + b < n
    BY <1>2, <2>2, <2>3 DEF Models!TurnInv, Models!Comes
  <2>5. BatchSize \in Nat /\ t * BatchSize \in Nat /\ (t + 1) * BatchSize = t * BatchSize + BatchSize
        /\ ((t + 1) - 1) * BatchSize = t * BatchSize
    BY <2>2, ModelsAssumption, RoundsComeCloser
  <2> HIDE DEF n, selected
  <2>6. CASE b < BatchSize
    <3>1. eligible[i] \in Models!ToSet(selected)
      BY <1>6, <2>3, <2>6, BatchTakesTurns DEF selected
    <3>2. t * BatchSize < n
      BY <1>6, <2>3, <2>4, <2>5
    <3> QED BY <1>2, <1>3, <2>2, <2>5, <3>1, <3>2 DEF n
  <2>7. CASE b >= BatchSize
    <3>1. selected # <<>> /\ Models!Before(eligible, i, Models!Last(selected)) = b - BatchSize
      BY <1>6, <2>3, <2>7, BatchTakesTurns DEF selected
    <3>2. run'[r].cursorAfter = Models!Last(selected)
      BY <1>3, <3>1
    <3>3. (t + 1) * BatchSize + (b - BatchSize) < n
      BY <1>6, <2>3, <2>4, <2>5
    <3> QED BY <1>2, <2>2, <3>1, <3>2, <3>3 DEF Models!Comes, n
  <2> QED BY <2>3, <2>5, <2>6, <2>7
<1>8. turn' \in [Synced -> Nat] /\ \A a \in Synced : turn'[a] # 0 => a \in Models!ToSet(eligible')
  BY <1>2, <1>6
<1> HIDE DEF n, selected, cursorAfter
<1> QED BY <1>2, <1>5, <1>6, <1>7, <1>8 DEF Models!TurnInv

\* A round by hand disturbs the turns.
LEMMA ManualRoundBegins ==
  ASSUME Models!SyncInv, Models!TurnInv, NEW r \in Runners, NEW requested \in (SUBSET Synced) \ {{}},
         Models!Begin(r, requested)
  PROVE  Models!TurnInv'
<1>1. /\ turn' = [a \in Synced |-> 0] /\ UNCHANGED eligible /\ run[r] = Off
      /\ \A s \in Runners \ {r} : run'[s] = run[s]
      /\ ~run'[r].automatic
  <2>1. requested # {} /\ (requested = {}) = FALSE
    <3>1. requested # {}
      OBVIOUS
    <3> QED BY <3>1, Zenon
  <2>2. UNCHANGED eligible /\ run[r] = Off
    BY DEF Models!Begin
  <2>3. turn' = [a \in Synced |-> 0]
    BY <2>1, Zenon DEF Models!Begin, Models!Event, Models!Undisturbed
  <2>4. PICK selected, cursorAfter :
          run' = [run EXCEPT ![r] = [automatic |-> FALSE, todo |-> selected, synced |-> {}, attempted |-> 0,
                    failed |-> 0, cursorAfter |-> cursorAfter]]
    BY <2>1, Zenon DEF Models!Begin
  <2>5. (\A s \in Runners \ {r} : run'[s] = run[s]) /\ run'[r].automatic = FALSE
    BY <2>4 DEF Models!SyncInv, Models!TypeInv
  <2> QED BY <2>2, <2>3, <2>5
<1>2. \A s \in Runners : Models!Automatic(s)' => s # r /\ Models!Automatic(s)
  BY <1>1 DEF Models!Automatic
<1>3. /\ \A s, k \in Runners : Models!Automatic(s) /\ Models!Automatic(k) => s = k
      /\ \A i, j \in DOMAIN eligible : eligible[i] = eligible[j] => i = j
      /\ eligible \in Seq(Synced)
  BY DEF Models!TurnInv, Models!SyncInv, Models!TypeInv
<1> QED BY <1>1, <1>2, <1>3, UndisturbedHolds

\* An account that is answered has had its turn.
LEMMA AnswerTurns ==
  ASSUME Models!SyncInv, Models!TurnInv, NEW r \in Runners, NEW ok \in BOOLEAN, Models!Answer(r, ok)
  PROVE  Models!TurnInv'
<1>1. run[r] # Off /\ run[r].todo # <<>> /\ UNCHANGED <<eligible, cursor>>
  BY DEF Models!Answer
<1>2. PICK a \in Synced : a = Head(run[r].todo)
  BY <1>1, CallAgrees
<1>3. run[r] \in Models!RunRecord /\ run[r].todo \in Seq(Synced)
  BY <1>1, CallAgrees DEF Models!RunRecord
<1>4. turn' = [turn EXCEPT ![a] = 0] /\ turn \in [Synced -> Nat]
  BY <1>2 DEF Models!Answer, Models!TurnInv
<1>5. /\ run'[r].automatic = run[r].automatic /\ run'[r].cursorAfter = run[r].cursorAfter
      /\ run'[r].todo = Tail(run[r].todo)
      /\ \A s \in Runners \ {r} : run'[s] = run[s]
  BY <1>3 DEF Models!Answer, Models!Remaining, Models!SyncInv, Models!TypeInv, Models!RunRecord
<1>6. \A s \in Runners : Models!Automatic(s)' => Models!Automatic(s)
  BY <1>1, <1>5 DEF Models!Automatic
<1>7. run'[r] # Off
  <2> DEFINE old == run[r]
             call == [automatic |-> old.automatic, todo |-> Tail(old.todo),
                      synced |-> IF ok THEN old.synced \cup {a} ELSE old.synced, attempted |-> old.attempted + 1,
                      failed |-> old.failed + (IF ok THEN 0 ELSE 1), cursorAfter |-> old.cursorAfter]
  <2>1. run' = [run EXCEPT ![r] = call]
    BY <1>2, <1>3, SMTT(30) DEF Models!Answer, Models!Remaining, Models!RunRecord, Models!SyncInv, Models!TypeInv
  <2>2. call \in Models!RunRecord
    BY <1>1, <1>3 DEF Models!RunRecord
  <2> HIDE DEF call
  <2> QED BY <2>1, <2>2, NothingAssumption DEF Models!SyncInv, Models!TypeInv
<1>8. \A s \in Runners : Models!Automatic(s)' = Models!Automatic(s)
  BY <1>1, <1>5, <1>7 DEF Models!Automatic
<1>9. /\ eligible \in Seq(Synced) /\ Len(eligible) \in Nat
      /\ \A i, j \in DOMAIN eligible : eligible[i] = eligible[j] => i = j
      /\ \A i \in DOMAIN eligible : eligible[i] \in Synced
  BY DEF Models!SyncInv, Models!TypeInv, Models!TurnInv
<1>10. ASSUME NEW i \in DOMAIN eligible, eligible[i] = a, NEW account PROVE Models!Comes(i, account)'
  <2>1. Models!Before(eligible, i, account) \in Nat /\ Models!Before(eligible, i, account) < Len(eligible)
    BY <1>9, BeforeIsBounded
  <2>2. turn'[eligible'[i]] = 0 /\ eligible' = eligible
    BY <1>1, <1>4, <1>10
  <2>3. 0 * BatchSize + Models!Before(eligible, i, account) < Len(eligible)
    BY <1>9, <2>1, NobodyIsLate
  <2> QED BY <2>2, <2>3 DEF Models!Comes
<1>11. ASSUME NEW i \in DOMAIN eligible, eligible[i] # a
       PROVE  turn'[eligible'[i]] = turn[eligible[i]] /\ \A account : Models!Comes(i, account)' = Models!Comes(i, account)
  <2>1. turn'[eligible[i]] = turn[eligible[i]]
    BY <1>4, <1>9, <1>11
  <2> QED BY <1>1, <2>1 DEF Models!Comes
<1>12. turn' \in [Synced -> Nat] /\ \A b \in Synced : turn'[b] # 0 => b \in Models!ToSet(eligible')
  <2>1. \A b \in Synced : turn'[b] # 0 => turn[b] # 0
    BY <1>4
  <2> QED BY <1>1, <1>4, <2>1 DEF Models!TurnInv
<1>13. ASSUME \A s \in Runners : ~Models!Automatic(s)', NEW i \in DOMAIN eligible'
       PROVE  Models!Comes(i, cursor)'
  <2>1. Models!Comes(i, cursor) /\ i \in DOMAIN eligible /\ cursor' = cursor
    BY <1>1, <1>8, <1>13 DEF Models!TurnInv
  <2>2. Models!Comes(i, cursor)' <=> turn'[eligible'[i]] * BatchSize + Models!Before(eligible', i, cursor') < Len(eligible')
    BY DEF Models!Comes
  <2>3. \A account : account = cursor => Models!Comes(i, account)'
    BY <1>10, <1>11, <2>1
  <2> QED BY <2>1, <2>3 DEF Models!Comes
<1>14. ASSUME NEW s \in Runners, Models!Automatic(s)', NEW i \in DOMAIN eligible'
       PROVE  \/ Models!Comes(i, run[s].cursorAfter)'
              \/ /\ eligible'[i] \in Models!ToSet(run'[s].todo)
                 /\ (turn'[eligible'[i]] - 1) * BatchSize < Len(eligible')
  <2>1. /\ i \in DOMAIN eligible
        /\ \/ Models!Comes(i, run[s].cursorAfter)
           \/ eligible[i] \in Models!ToSet(run[s].todo) /\ (turn[eligible[i]] - 1) * BatchSize < Len(eligible)
    BY <1>1, <1>8, <1>14 DEF Models!TurnInv
  <2>2. PICK account : account = run[s].cursorAfter /\ account = run'[s].cursorAfter
    BY <1>5
  <2>3. CASE eligible[i] = a
    <3>1. Models!Comes(i, account)'
      BY <1>10, <2>1, <2>3
    <3> QED BY <2>2, <3>1 DEF Models!Comes
  <2>4. CASE eligible[i] # a
    <3>1. turn'[eligible'[i]] = turn[eligible[i]] /\ Models!Comes(i, account)' = Models!Comes(i, account)
      BY <1>11, <2>1, <2>4
    <3>2. eligible[i] \in Models!ToSet(run[s].todo) => eligible[i] \in Models!ToSet(run'[s].todo)
      BY <1>1, <1>2, <1>3, <1>5, <2>4, TailHasTheRest
    <3>3. CASE Models!Comes(i, account)
      BY <2>2, <3>1, <3>3 DEF Models!Comes
    <3>4. CASE ~Models!Comes(i, account)
      BY <1>1, <2>1, <2>2, <3>1, <3>2, <3>4
    <3> QED BY <3>3, <3>4
  <2> QED BY <2>3, <2>4
<1>15. \A s, k \in Runners : Models!Automatic(s)' /\ Models!Automatic(k)' => s = k
  BY <1>8 DEF Models!TurnInv
<1> QED BY <1>1, <1>9, <1>12, <1>13, <1>14, <1>15 DEF Models!TurnInv

\* When a round ends, the next one goes on after it.
LEMMA FinishTurns ==
  ASSUME Models!SyncInv, Models!TurnInv, NEW r \in Runners, Models!Finish(r)
  PROVE  Models!TurnInv'
<1>1. /\ run[r] # Off /\ run[r].todo = <<>> /\ UNCHANGED eligible /\ cursor' = run[r].cursorAfter
      /\ run'[r] = Off /\ \A s \in Runners \ {r} : run'[s] = run[s]
  BY DEF Models!Finish, Models!LatestCursor, Models!SyncInv, Models!TypeInv
<1>2. \A s \in Runners : Models!Automatic(s)' => s # r /\ Models!Automatic(s) /\ run'[s] = run[s]
  BY <1>1 DEF Models!Automatic
<1>3. /\ eligible \in Seq(Synced)
      /\ \A i, j \in DOMAIN eligible : eligible[i] = eligible[j] => i = j
      /\ \A s, k \in Runners : Models!Automatic(s) /\ Models!Automatic(k) => s = k
  BY DEF Models!SyncInv, Models!TypeInv, Models!TurnInv
<1>4. CASE run[r].automatic
  <2>1. Models!Automatic(r) /\ turn' = turn
    BY <1>1, <1>4 DEF Models!Automatic, Models!Finish
  <2>2. \A s \in Runners : ~Models!Automatic(s)'
    BY <1>2, <1>3, <2>1
  <2>3. \A i \in DOMAIN eligible : Models!Comes(i, run[r].cursorAfter)
    <3>1. \A a : a \notin Models!ToSet(run[r].todo)
      BY <1>1 DEF Models!ToSet
    <3> QED BY <2>1, <3>1 DEF Models!TurnInv
  <2>4. \A i \in DOMAIN eligible' : Models!Comes(i, cursor)'
    BY <1>1, <2>1, <2>3 DEF Models!Comes
  <2> QED BY <1>1, <1>3, <2>1, <2>2, <2>4 DEF Models!TurnInv
<1>5. CASE ~run[r].automatic
  <2>1. turn' = [a \in Synced |-> 0]
    BY <1>5 DEF Models!Finish, Models!Undisturbed
  <2> QED BY <1>1, <1>2, <1>3, <2>1, UndisturbedHolds
<1> QED BY <1>4, <1>5

LEMMA TurnsNextHolds ==
  ASSUME Models!SyncInv, Models!TurnInv, [Models!Next]_(Models!syncVars)
  PROVE  Models!TurnInv'
<1>1. ASSUME NEW r \in Runners, Models!Begin(r, {}) PROVE Models!TurnInv'
  BY <1>1, AutomaticRoundBegins
<1>2. ASSUME NEW r \in Runners, NEW requested \in (SUBSET Synced) \ {{}}, Models!Begin(r, requested) PROVE Models!TurnInv'
  BY <1>2, ManualRoundBegins
<1>3. ASSUME NEW r \in Runners, Models!Account(r) PROVE Models!TurnInv'
  <2>1. UNCHANGED <<eligible, cursor, turn, run>>
    BY <1>3 DEF Models!Account
  <2> QED BY <2>1, TurnsStay DEF Models!Automatic
<1>4. ASSUME NEW r \in Runners, NEW ok \in BOOLEAN, Models!Answer(r, ok) PROVE Models!TurnInv'
  BY <1>4, AnswerTurns
<1>5. ASSUME NEW r \in Runners, Models!Finish(r) PROVE Models!TurnInv'
  BY <1>5, FinishTurns
<1>6. CASE Models!Reorder
  <2>1. PICK listed \in SUBSET Synced : eligible' \in Models!SetToSeqs(listed)
    BY <1>6 DEF Models!Reorder
  <2>2. PICK q \in Models!SetToSeqs(listed) : q = eligible'
    BY <2>1
  <2>3. q \in Seq(Synced) /\ \A i, j \in DOMAIN q : q[i] = q[j] => i = j
    BY OrdersAreSequences, Zenon DEF Models!SetToSeqs, Models!IsInjective
  <2>4. turn' = [a \in Synced |-> 0] /\ UNCHANGED run
    BY <1>6 DEF Models!Reorder, Models!Event, Models!Undisturbed
  <2>5. \A s, k \in Runners : Models!Automatic(s)' /\ Models!Automatic(k)' => s = k
    BY <2>4 DEF Models!Automatic, Models!TurnInv
  <2> QED BY <2>2, <2>3, <2>4, <2>5, UndisturbedHolds
<1>7. CASE Models!Restart
  <2>1. turn' = [a \in Synced |-> 0] /\ UNCHANGED eligible /\ \A s \in Runners : run'[s] = Off
    BY <1>7 DEF Models!Restart, Models!Event, Models!Undisturbed
  <2>2. eligible \in Seq(Synced) /\ \A i, j \in DOMAIN eligible : eligible[i] = eligible[j] => i = j
    BY DEF Models!SyncInv, Models!TypeInv, Models!TurnInv
  <2> QED BY <2>1, <2>2, UndisturbedHolds DEF Models!Automatic
<1>8. CASE UNCHANGED Models!syncVars
  <2>1. UNCHANGED <<eligible, cursor, turn, run>>
    BY <1>8 DEF Models!syncVars
  <2> QED BY <2>1, TurnsStay DEF Models!Automatic
<1> QED BY <1>1, <1>2, <1>3, <1>4, <1>5, <1>6, <1>7, <1>8 DEF Models!Next

LEMMA TurnsInitHolds ==
  ASSUME Models!Init, Models!SyncInv
  PROVE  Models!TurnInv
<1>1. /\ turn = [a \in Synced |-> 0] /\ \A s \in Runners : ~Models!Automatic(s)
      /\ eligible = [a \in Synced |-> a]
  BY DEF Models!Init, Models!Automatic
<1>2. eligible \in Seq(Synced) /\ Len(eligible) \in Nat
  BY DEF Models!SyncInv, Models!TypeInv
<1>3. \A i, j \in DOMAIN eligible : eligible[i] = eligible[j] => i = j
  BY <1>1
<1>4. \A i \in DOMAIN eligible : eligible[i] \in Synced /\ turn[eligible[i]] = 0
  BY <1>1
<1>5. ASSUME NEW i \in DOMAIN eligible PROVE Models!Comes(i, cursor)
  <2>1. Models!Before(eligible, i, cursor) \in Nat /\ Models!Before(eligible, i, cursor) < Len(eligible)
    BY <1>2, <1>3, BeforeIsBounded
  <2> QED BY <1>2, <1>4, <2>1, NobodyIsLate DEF Models!Comes
<1>6. turn \in [Synced -> Nat] /\ \A a \in Synced : turn[a] = 0
  BY <1>1
<1> QED BY <1>1, <1>3, <1>5, <1>6 DEF Models!TurnInv

\* Nobody waits longer than it takes to go round once.
LEMMA TurnInvSuffices ==
  ASSUME Models!SyncInv, Models!TurnInv
  PROVE  Models!EverybodyHasATurn
<1>1. /\ eligible \in Seq(Synced) /\ Len(eligible) \in Nat /\ turn \in [Synced -> Nat] /\ BatchSize \in Nat \ {0}
      /\ \A i, j \in DOMAIN eligible : eligible[i] = eligible[j] => i = j
  BY ModelsAssumption DEF Models!SyncInv, Models!TypeInv, Models!TurnInv
<1> SUFFICES ASSUME NEW a \in Synced PROVE (turn[a] - 1) * BatchSize < Len(eligible)
  BY DEF Models!EverybodyHasATurn
<1>2. CASE turn[a] = 0
  <2>1. (0 - 1) * BatchSize = 0 - BatchSize
    BY <1>1
  <2> QED BY <1>1, <1>2, <2>1
<1>3. CASE turn[a] # 0
  <2>1. PICK i \in DOMAIN eligible : eligible[i] = a
    BY <1>3, Zenon DEF Models!TurnInv, Models!ToSet
  <2>2. PICK t \in Nat : turn[a] = t + 1
    <3>1. turn[a] \in Nat /\ turn[a] - 1 \in Nat /\ turn[a] = (turn[a] - 1) + 1
      BY <1>1, <1>3
    <3> QED BY <3>1
  <2>3. (t + 1) * BatchSize = t * BatchSize + BatchSize /\ t * BatchSize \in Nat /\ ((t + 1) - 1) * BatchSize = t * BatchSize
    BY <1>1, <2>2, RoundsComeCloser
  <2>4. ASSUME NEW account, Models!Comes(i, account) PROVE t * BatchSize < Len(eligible)
    <3>1. Models!Before(eligible, i, account) \in Nat
      BY <1>1, BeforeIsBounded
    <3>2. (t + 1) * BatchSize + Models!Before(eligible, i, account) < Len(eligible)
      BY <2>1, <2>2, <2>4 DEF Models!Comes
    <3> QED BY <1>1, <2>3, <3>1, <3>2
  <2>5. CASE \E r \in Runners : Models!Automatic(r)
    <3>1. PICK r \in Runners : Models!Automatic(r)
      BY <2>5
    <3>2. \/ Models!Comes(i, run[r].cursorAfter)
          \/ (turn[eligible[i]] - 1) * BatchSize < Len(eligible)
      BY <3>1 DEF Models!TurnInv
    <3> QED BY <2>1, <2>2, <2>3, <2>4, <3>2
  <2>6. CASE \A r \in Runners : ~Models!Automatic(r)
    <3>1. Models!Comes(i, cursor)
      BY <2>6 DEF Models!TurnInv
    <3> QED BY <2>2, <2>3, <2>4, <3>1
  <2> QED BY <2>5, <2>6
<1> QED BY <1>2, <1>3

\* Isolated probes, rounds and synchronizations, for any accounts, callers, limits and
\* faults: however calls fail, restart and repair at once, a probe of an account goes
\* to this account or to none, and its record is ready only when the monitor user may
\* use the group; the row of a round of probes, and that of a synchronization, says
\* "succeeded" only when each of its accounts was, and "partial" only when some was.
THEOREM RoundsTellTheTruth == ActingSpec => []RoundsAreHonest
<1> DEFINE RInv == /\ part = "isolation" => Isolation!IsolationInv
                   /\ part = "rounds" => Rounds!RoundInv
                   /\ part = "models" => Models!SyncInv
<1>1. ActingInit => RInv
  BY PartsBegin, IsolationInitHolds, RoundInitHolds, ModelsInitHolds
<1>2. RInv /\ [ActingNext]_vars => RInv'
  BY PartsTakeTurns, IsolationNextHolds, RoundNextHolds, ModelsNextHolds
<1>3. RInv => RoundsAreHonest
  BY IsolationInvSuffices, SyncInvSuffices DEF RoundsAreHonest, Rounds!RoundInv
<1> QED BY <1>1, <1>2, <1>3, PTL DEF ActingSpec

\* Rounds of probes and synchronizations of models, for any accounts, limits, batches
\* and faults: however activities, requests, skipped rounds and repairs interleave,
\* everybody has a turn.  While nothing fails and nobody changes the scope, no account
\* that needs a probe is passed over by more operations than there are accounts, as long
\* as fewer accounts are beyond repair than a round repairs and plans; and no eligible
\* account waits for its synchronization longer than it takes to go round once.
THEOREM EverybodyTakesTurns == ActingSpec => []TurnsAreFair
<1> DEFINE TInv == /\ part = "rounds" => Rounds!RoundInv /\ Rounds!WaitInv
                   /\ part = "models" => Models!SyncInv /\ Models!TurnInv
<1>1. ActingInit => TInv
  BY PartsBegin, RoundInitHolds, WaitsInitHolds, ModelsInitHolds, TurnsInitHolds
<1>2. TInv /\ [ActingNext]_vars => TInv'
  BY PartsTakeTurns, RoundNextHolds, WaitsNextHolds, ModelsNextHolds, TurnsNextHolds
<1>3. TInv => TurnsAreFair
  BY WaitInvSuffices, TurnInvSuffices DEF TurnsAreFair
<1> QED BY <1>1, <1>2, <1>3, PTL DEF ActingSpec
=============================================================================
