----------------------------- MODULE AnsweringProofs -----------------------------
(***************************************************************************)
(* Proofs about the parts that answer and ask (AnsweringParts): the        *)
(* response cache, the read model of the scores, the snapshot of a         *)
(* scheduling scope, the configuration in use, balances, what a probe      *)
(* hears, three pages of the browser and the command line.  A part has an  *)
(* inductive invariant of its own, which its module defines; the theorems  *)
(* say that what is answered, or in use, is as fresh and as right as it    *)
(* claims, that the pages show and submit what they say, and that commands *)
(* write what was wanted of them.                                          *)
(***************************************************************************)
EXTENDS AnsweringParts, TLAPS, FiniteSetTheorems, SequenceTheorems, WellFoundedInduction

\* A step is one of the part that is examined, or none.
LEMMA PartsTakeTurns ==
  ASSUME [AnsweringNext]_vars
  PROVE  /\ UNCHANGED part
         /\ part = "scores" => [Scores!Next]_(Scores!scoreVars)
         /\ part = "responses" => [Responses!Next]_(Responses!cacheVars)
         /\ part = "snapshot" => [Snapshot!Next]_(Snapshot!snapshotVars)
         /\ part = "reload" => [Reload!Next]_(Reload!vars)
         /\ part = "quota" => [Quota!Next]_(Quota!quotaVars)
         /\ part = "stream" => [Stream!Next]_(Stream!streamVars)
         /\ part = "scheduling page" => [Scheduling!Next]_(Scheduling!pageVars)
         /\ part = "import page" => [Import!Next]_(Import!importVars)
         /\ part = "quota page" => [Page!Next]_(Page!vars)
         /\ part = "command" => [Command!Next]_(Command!cliVars)
BY DEF AnsweringNext, vars, Scores!scoreVars, Responses!cacheVars, Snapshot!snapshotVars, Reload!vars,
       Scheduling!pageVars, Import!importVars, Page!vars, Page!summaryVars, Page!pageVars, Command!cliVars,
       Quota!quotaVars, Stream!streamVars

LEMMA PartsBegin ==
  ASSUME AnsweringInit
  PROVE  /\ part = "scores" => Scores!Init
         /\ part = "responses" => Responses!Init
         /\ part = "snapshot" => Snapshot!Init
         /\ part = "reload" => Reload!Init
         /\ part = "quota" => Quota!Init
         /\ part = "stream" => Stream!Init
         /\ part = "scheduling page" => Scheduling!Init
         /\ part = "import page" => Import!Init
         /\ part = "quota page" => Page!Init
         /\ part = "command" => Command!Init
BY DEF AnsweringInit

-----------------------------------------------------------------------------
(* Responses *)

request == v1
live == v2
entry == v3
inflight == v4
job == v5
shownBody == v6
USE DEF request, live, entry, inflight, job, shownBody

LEMMA ResponsesInitHolds == ASSUME Responses!Init PROVE Responses!ResponseInv
<1>1. Responses!TypeInv
  <2>1. request \in [Clients -> Responses!RequestValues]
    BY SMTT(30) DEF Responses!Init, Responses!Stages, Responses!RequestValues
  <2>2. job \in [Clients -> [stage : {"none", "refresh", "write"}, read : Nat]]
    BY DEF Responses!Init, Responses!NoJob
  <2> QED BY <2>1, <2>2 DEF Responses!Init, Responses!TypeInv
<1>2. ASSUME NEW r \in Clients PROVE request[r].stage = "new" /\ job[r].stage = "none"
  BY SMTT(30) DEF Responses!Init, Responses!NoJob
<1>3. Responses!EntryInv
  BY DEF Responses!Init, Responses!EntryInv
<1> QED BY <1>1, <1>2, <1>3 DEF Responses!ResponseInv, Responses!AnswersNeverGoBack, Responses!JobInv, Responses!RequestInv

\* What an answer, or a step of one request, leaves behind.
LEMMA RequestHolds ==
  ASSUME Responses!ResponseInv, NEW r \in Clients,
         NEW asked \in Responses!RequestValues,
         request' = [request EXCEPT ![r] = asked], asked.key = request[r].key,
         asked.stage \notin {"joined", "written"},
         asked.stage \in {"hit", "refreshed"} => asked.got >= asked.floor,
         asked.stage = "miss" => asked.floor = 0,
         asked.stage = "refreshed" => asked.got >= asked.seen,
         \/ UNCHANGED shownBody
         \/ shownBody' = [shownBody EXCEPT ![asked.key] = entry[asked.key]],
         UNCHANGED <<live, entry, inflight, job>>
  PROVE  Responses!ResponseInv'
<1> USE DEF Responses!ResponseInv
<1>1. request'[r] = asked /\ \A q \in Clients : q # r => request'[q] = request[q]
  BY DEF Responses!TypeInv
<1>2. Responses!TypeInv'
  BY DEF Responses!TypeInv
<1>3. Responses!EntryInv'
  BY SMTT(30) DEF Responses!EntryInv, Responses!TypeInv
<1>4. Responses!AnswersNeverGoBack'
  BY <1>1 DEF Responses!AnswersNeverGoBack
<1>5. ASSUME NEW q \in Clients PROVE Responses!JobInv(q)' /\ Responses!RequestInv(q)'
  <2>1. request'[q].key = request[q].key
    BY <1>1
  <2> QED BY <1>1, <2>1 DEF Responses!JobInv, Responses!RequestInv
<1> QED BY <1>2, <1>3, <1>4, <1>5

LEMMA HandleHolds ==
  ASSUME Responses!ResponseInv, NEW r \in Clients, Responses!Handle(r)
  PROVE  Responses!ResponseInv'
<1>1. request[r] \in Responses!RequestValues /\ live \in Nat
  BY DEF Responses!ResponseInv, Responses!TypeInv
<1>2. PICK status \in {"refused", "handled"}, version \in Nat :
        request' = [request EXCEPT ![r] = Responses!Answered(r, status, version)]
  BY <1>1 DEF Responses!Handle
<1> DEFINE asked == Responses!Answered(r, status, version)
<1>3. /\ asked \in Responses!RequestValues
      /\ asked.key = request[r].key /\ asked.stage = status
  BY <1>1 DEF Responses!Answered, Responses!Stages, Responses!RequestValues
<1> HIDE DEF asked
<1> QED BY <1>2, <1>3, RequestHolds DEF Responses!Handle, asked

\* What the handling of one request may rely on.
LEMMA RequestIsSound ==
  ASSUME Responses!ResponseInv, NEW r \in Clients
  PROVE  /\ request[r] \in Responses!RequestValues /\ request[r].key \in Keys
         /\ entry[request[r].key] \in Nat /\ shownBody[request[r].key] \in Nat /\ live \in Nat
         /\ shownBody[request[r].key] <= entry[request[r].key] /\ entry[request[r].key] <= live
<1>1. request[r] \in Responses!RequestValues
  BY DEF Responses!ResponseInv, Responses!TypeInv
<1>2. request[r].key \in Keys
  BY <1>1 DEF Responses!RequestValues
<1> QED BY <1>1, <1>2 DEF Responses!ResponseInv, Responses!TypeInv, Responses!EntryInv

LEMMA ReadApiCacheHolds ==
  ASSUME Responses!ResponseInv, NEW r \in Clients, Responses!ReadApiCache(r)
  PROVE  Responses!ResponseInv'
<1>1. /\ request[r] \in Responses!RequestValues /\ request[r].key \in Keys
      /\ entry[request[r].key] \in Nat /\ shownBody[request[r].key] \in Nat
      /\ shownBody[request[r].key] <= entry[request[r].key]
      /\ UNCHANGED <<live, entry, inflight, job>>
  BY RequestIsSound DEF Responses!ReadApiCache
<1>2. PICK asked \in Responses!RequestValues :
        /\ request' = [request EXCEPT ![r] = asked] /\ asked.key = request[r].key
        /\ asked.stage \in {"hit", "miss", "error"}
        /\ asked.stage \in {"hit", "miss"} => asked.floor = shownBody[request[r].key]
        /\ asked.stage = "hit" => asked.got = entry[request[r].key]
        /\ asked.stage = "miss" => entry[request[r].key] = 0
  <2> DEFINE k == request[r].key
             miss == [request[r] EXCEPT !.stage = "miss", !.floor = shownBody[k]]
             hit == [request[r] EXCEPT !.stage = "hit", !.floor = shownBody[k], !.got = entry[k]]
             error == Responses!Answered(r, "error", 0)
  <2>1. miss \in Responses!RequestValues /\ miss.key = k /\ miss.stage = "miss" /\ miss.floor = shownBody[k]
    <3>1. miss = [[request[r] EXCEPT !.stage = "miss"] EXCEPT !.floor = shownBody[k]]
      BY <1>1 DEF Responses!RequestValues
    <3> QED BY <1>1, <3>1 DEF Responses!RequestValues, Responses!Stages
  <2>2. /\ hit \in Responses!RequestValues /\ hit.key = k /\ hit.stage = "hit" /\ hit.floor = shownBody[k]
        /\ hit.got = entry[k]
    <3>1. hit = [[[request[r] EXCEPT !.stage = "hit"] EXCEPT !.floor = shownBody[k]] EXCEPT !.got = entry[k]]
      BY <1>1 DEF Responses!RequestValues
    <3> QED BY <1>1, <3>1 DEF Responses!RequestValues, Responses!Stages
  <2>3. error \in Responses!RequestValues /\ error.key = k /\ error.stage = "error"
    BY <1>1 DEF Responses!RequestValues, Responses!Stages, Responses!Answered
  <2>4. \/ entry[k] = 0 /\ request' = [request EXCEPT ![r] = miss]
        \/ request' = [request EXCEPT ![r] = hit]
        \/ request' = [request EXCEPT ![r] = error]
    BY <1>1 DEF Responses!ReadApiCache, Responses!TypeInv, Responses!ResponseInv
  <2> HIDE DEF miss, hit, error
  <2> QED BY <2>1, <2>2, <2>3, <2>4
<1>3. UNCHANGED shownBody \/ shownBody' = [shownBody EXCEPT ![asked.key] = entry[asked.key]]
  BY <1>2 DEF Responses!ReadApiCache
<1>4. asked.floor \in Nat /\ asked.got \in Nat
  BY <1>2 DEF Responses!RequestValues
<1>5. /\ asked.stage \notin {"joined", "written"} /\ asked.stage # "refreshed"
      /\ asked.stage \in {"hit", "refreshed"} => asked.got >= asked.floor
      /\ asked.stage = "miss" => asked.floor = 0
  BY <1>1, <1>2, <1>4
<1>6. asked.stage = "refreshed" => asked.got >= asked.seen
  BY <1>5
<1> QED BY <1>1, <1>2, <1>3, <1>5, <1>6, RequestHolds

LEMMA ReadBackHolds ==
  ASSUME Responses!ResponseInv, NEW r \in Clients, Responses!ReadBack(r)
  PROVE  Responses!ResponseInv'
<1>1. /\ request[r] \in Responses!RequestValues /\ request[r].key \in Keys
      /\ entry[request[r].key] \in Nat /\ request[r].floor <= entry[request[r].key]
      /\ request[r].seen <= entry[request[r].key]
      /\ UNCHANGED <<live, entry, inflight, job>>
  BY RequestIsSound DEF Responses!ReadBack, Responses!ResponseInv, Responses!RequestInv
<1>2. PICK status \in {"error", "refreshed"}, version \in Nat :
        /\ request' = [request EXCEPT ![r] = Responses!Answered(r, status, version)]
        /\ status = "refreshed" => version = entry[request[r].key]
  BY <1>1 DEF Responses!ReadBack
<1> DEFINE asked == Responses!Answered(r, status, version)
<1>3. /\ asked \in Responses!RequestValues
      /\ asked.key = request[r].key /\ asked.stage = status /\ asked.got = version
      /\ asked.floor = request[r].floor /\ asked.seen = request[r].seen
  BY <1>1 DEF Responses!Answered, Responses!Stages, Responses!RequestValues
<1>4. UNCHANGED shownBody \/ shownBody' = [shownBody EXCEPT ![request[r].key] = entry[request[r].key]]
  BY DEF Responses!ReadBack
<1>5. request' = [request EXCEPT ![r] = asked]
  BY <1>2
<1> HIDE DEF asked
<1>6. /\ asked.stage \notin {"joined", "written"} /\ asked.stage # "miss"
      /\ asked.stage = "refreshed" => asked.got >= asked.floor /\ asked.got >= asked.seen
  <2>1. request[r].floor \in Nat /\ request[r].seen \in Nat
    BY <1>1 DEF Responses!RequestValues
  <2> QED BY <1>1, <1>2, <1>3, <2>1
<1>7. UNCHANGED shownBody \/ shownBody' = [shownBody EXCEPT ![asked.key] = entry[asked.key]]
  BY <1>3, <1>4
<1>8. asked.stage \in {"hit", "refreshed"} => asked.got >= asked.floor
  BY <1>2, <1>3, <1>6
<1> QED BY <1>1, <1>3, <1>5, <1>6, <1>7, <1>8, RequestHolds

\* What a step of a refresh leaves behind.
LEMMA RefreshHolds ==
  ASSUME Responses!ResponseInv, Responses!TypeInv', Responses!EntryInv', UNCHANGED shownBody,
         \A k \in Keys : entry[k] <= entry'[k],
         \A r \in Clients :
           /\ request'[r].key = request[r].key /\ request'[r].floor = request[r].floor
           /\ request'[r].seen = request[r].seen /\ request'[r].got = request[r].got
           /\ request'[r].stage = request[r].stage \/ (request'[r].stage \in {"written", "error"} /\ request[r].stage = "joined"),
         \A r \in Clients : Responses!JobInv(r)'
  PROVE  Responses!ResponseInv'
<1>1. ASSUME NEW r \in Clients PROVE Responses!RequestInv(r)'
  <2>1. request[r].key \in Keys /\ entry[request[r].key] \in Nat /\ entry'[request[r].key] \in Nat /\ request[r].floor \in Nat /\ request[r].seen \in Nat
    BY RequestIsSound DEF Responses!TypeInv, Responses!RequestValues
  <2>2. request'[r].stage \in {"joined", "written"} => request[r].stage \in {"joined", "written"}
    OBVIOUS
  <2> QED BY <2>1, <2>2 DEF Responses!ResponseInv, Responses!RequestInv
<1>2. Responses!AnswersNeverGoBack'
  BY SMTT(30) DEF Responses!ResponseInv, Responses!AnswersNeverGoBack
<1> QED BY <1>1, <1>2 DEF Responses!ResponseInv

LEMMA JoinHolds ==
  ASSUME Responses!ResponseInv, NEW r \in Clients, Responses!Join(r)
  PROVE  Responses!ResponseInv'
<1> USE DEF Responses!ResponseInv
<1> DEFINE k == request[r].key
           owner == Responses!Owner(r)
           first == [request[r] EXCEPT !.stage = "joined"]
           second == [first EXCEPT !.awaits = owner]
           third == [second EXCEPT !.floor = shownBody[k]]
           asked == [third EXCEPT !.seen = entry[k]]
<1>1. /\ request[r] \in Responses!RequestValues /\ k \in Keys
      /\ entry[k] \in Nat /\ shownBody[k] \in Nat /\ shownBody[k] <= entry[k]
      /\ UNCHANGED <<live, entry, shownBody>>
      /\ Off \notin Clients /\ owner \in Clients
  BY RequestIsSound, ResponsesAssumption DEF Responses!Join, Responses!Owner, Responses!TypeInv
<1>2. /\ asked \in Responses!RequestValues /\ asked.key = k /\ asked.stage = "joined"
      /\ asked.floor = shownBody[k] /\ asked.seen = entry[k]
  <2>1. first \in Responses!RequestValues /\ first.key = k /\ first.stage = "joined"
    BY <1>1 DEF Responses!RequestValues, Responses!Stages
  <2> HIDE DEF first
  <2>2. second \in Responses!RequestValues /\ second.key = k /\ second.stage = "joined"
    BY <1>1, <2>1 DEF Responses!RequestValues
  <2> HIDE DEF second
  <2>3. third \in Responses!RequestValues /\ third.key = k /\ third.stage = "joined" /\ third.floor = shownBody[k]
    BY <1>1, <2>2 DEF Responses!RequestValues
  <2> HIDE DEF third
  <2> QED BY <1>1, <2>3 DEF Responses!RequestValues
<1>3. request' = [request EXCEPT ![r] = asked]
  BY <1>1 DEF Responses!Join, Responses!TypeInv
<1> HIDE DEF asked
<1>4. request'[r] = asked /\ \A q \in Clients : q # r => request'[q] = request[q]
  BY <1>3 DEF Responses!TypeInv
<1>5. inflight' = [inflight EXCEPT ![k] = owner]
  BY DEF Responses!Join
<1>6. job' = IF owner = r THEN [job EXCEPT ![r] = [stage |-> "refresh", read |-> 0]] ELSE job
  BY DEF Responses!Join
<1>7. /\ job \in [Clients -> [stage : {"none", "refresh", "write"}, read : Nat]]
      /\ job' \in [Clients -> [stage : {"none", "refresh", "write"}, read : Nat]]
      /\ \A q \in Clients : job'[q] = IF owner = r /\ q = r THEN [stage |-> "refresh", read |-> 0] ELSE job[q]
  BY <1>6 DEF Responses!TypeInv
<1>8. Responses!TypeInv'
  <2>1. request' \in [Clients -> Responses!RequestValues]
    BY <1>2, <1>3 DEF Responses!TypeInv
  <2>2. inflight' \in [Keys -> Clients \cup {Off}]
    BY <1>1, <1>5 DEF Responses!TypeInv
  <2> QED BY <1>1, <1>7, <2>1, <2>2 DEF Responses!TypeInv
<1>9. Responses!EntryInv' /\ Responses!AnswersNeverGoBack'
  BY <1>1, <1>2, <1>4 DEF Responses!EntryInv, Responses!AnswersNeverGoBack
<1>10. ASSUME NEW q \in Clients PROVE Responses!JobInv(q)' /\ Responses!RequestInv(q)'
  <2>1. request'[q].key = request[q].key /\ request[q].key \in Keys
    BY <1>2, <1>4, RequestIsSound
  <2>2. /\ inflight[k] # Off => inflight[k] = owner
        /\ inflight[k] = Off => owner = r
    BY DEF Responses!Owner
  <2>3. Responses!JobInv(q)'
    <3>1. CASE q = r /\ owner = r
      <4>1. job'[q].stage = "refresh" /\ inflight'[request'[q].key] = r
        BY <1>5, <1>7, <2>1, <3>1, <1>1 DEF Responses!TypeInv
      <4> QED BY <3>1, <4>1 DEF Responses!JobInv
    <3>2. CASE ~ (q = r /\ owner = r)
      <4>1. job'[q] = job[q]
        BY <1>7, <3>2
      <4>2. job[q].stage # "none" => inflight'[request[q].key] = q
        <5>1. CASE request[q].key = k
          <6>1. job[q].stage # "none" => inflight[k] = q
            BY <5>1 DEF Responses!JobInv
          <6> QED BY <1>1, <1>5, <2>2, <5>1, <6>1 DEF Responses!TypeInv
        <5>2. CASE request[q].key # k
          BY <1>5, <2>1, <5>2 DEF Responses!JobInv, Responses!TypeInv
        <5> QED BY <5>1, <5>2
      <4> QED BY <1>1, <2>1, <4>1, <4>2 DEF Responses!JobInv
    <3> QED BY <3>1, <3>2
  <2>4. Responses!RequestInv(q)'
    <3>1. CASE q = r
      BY <1>1, <1>2, <1>4, <2>1, <3>1 DEF Responses!RequestInv
    <3>2. CASE q # r
      BY <1>1, <1>4, <2>1, <3>2 DEF Responses!RequestInv
    <3> QED BY <3>1, <3>2
  <2> QED BY <2>3, <2>4
<1> QED BY <1>8, <1>9, <1>10

\* Who awaited a refresh learns how it ended, and the refresh is no more.
LEMMA TellHolds ==
  ASSUME Responses!TypeInv, NEW r \in Clients, NEW to \in {"written", "error"}, Responses!Tell(r, to)
  PROVE  /\ request' \in [Clients -> Responses!RequestValues]
         /\ inflight' \in [Keys -> Clients \cup {Off}]
         /\ job' \in [Clients -> [stage : {"none", "refresh", "write"}, read : Nat]]
         /\ \A q \in Clients :
              /\ request'[q].key = request[q].key /\ request'[q].floor = request[q].floor
              /\ request'[q].seen = request[q].seen /\ request'[q].got = request[q].got
              /\ request'[q].stage = request[q].stage \/ (request'[q].stage \in {"written", "error"} /\ request[q].stage = "joined")
         /\ job'[r].stage = "none"
         /\ \A q \in Clients : q # r => job'[q] = job[q]
         /\ \A k \in Keys : inflight[k] # r => inflight'[k] = inflight[k]
<1>1. ASSUME NEW q \in Clients
      PROVE  /\ request'[q] \in Responses!RequestValues
             /\ request'[q].key = request[q].key /\ request'[q].floor = request[q].floor
             /\ request'[q].seen = request[q].seen /\ request'[q].got = request[q].got
             /\ request'[q].stage = request[q].stage \/ (request'[q].stage \in {"written", "error"} /\ request[q].stage = "joined")
  <2>1. request[q] \in Responses!RequestValues
    BY DEF Responses!TypeInv
  <2>2. request'[q] = IF request[q].stage = "joined" /\ request[q].awaits = r
                      THEN [request[q] EXCEPT !.stage = to] ELSE request[q]
    BY DEF Responses!Tell
  <2>3. CASE request[q].stage = "joined" /\ request[q].awaits = r
    BY <2>1, <2>2, <2>3 DEF Responses!RequestValues, Responses!Stages
  <2>4. CASE ~ (request[q].stage = "joined" /\ request[q].awaits = r)
    <3>1. request'[q] = request[q]
      BY <2>2, <2>4
    <3> QED BY <2>1, <3>1
  <2> QED BY <2>3, <2>4
<1>2. request' \in [Clients -> Responses!RequestValues]
  <2>1. request' = [q \in Clients |-> request'[q]]
    BY DEF Responses!Tell
  <2> QED BY <1>1, <2>1
<1>3. inflight' \in [Keys -> Clients \cup {Off}] /\ \A k \in Keys : inflight[k] # r => inflight'[k] = inflight[k]
  BY DEF Responses!Tell, Responses!TypeInv
<1>4. /\ job' \in [Clients -> [stage : {"none", "refresh", "write"}, read : Nat]]
      /\ job'[r].stage = "none" /\ \A q \in Clients : q # r => job'[q] = job[q]
  BY DEF Responses!Tell, Responses!TypeInv, Responses!NoJob
<1> QED BY <1>1, <1>2, <1>3, <1>4

\* A refresh that ends, with the entry it wrote or the one there was.
LEMMA RefreshEnds ==
  ASSUME Responses!ResponseInv, NEW r \in Clients, NEW to \in {"written", "error"}, Responses!Tell(r, to),
         job[r].stage # "none", UNCHANGED <<live, shownBody>>,
         UNCHANGED entry \/ (job[r].stage = "write" /\ Responses!SetApiCache(r))
  PROVE  Responses!ResponseInv'
<1> USE DEF Responses!ResponseInv
<1> DEFINE k == request[r].key
<1>1. /\ k \in Keys /\ entry[k] \in Nat /\ live \in Nat /\ job[r].read \in Nat
      /\ job[r].stage = "write" => entry[k] <= job[r].read /\ job[r].read <= live
      /\ inflight[k] = r
  BY RequestIsSound DEF Responses!TypeInv, Responses!JobInv
<1>2. /\ entry' \in [Keys -> Nat]
      /\ \A other \in Keys : entry[other] <= entry'[other] /\ entry'[other] <= live
      /\ \A other \in Keys : other # k => entry'[other] = entry[other]
  <2>1. CASE UNCHANGED entry
    BY <2>1 DEF Responses!EntryInv, Responses!TypeInv
  <2>2. CASE job[r].stage = "write" /\ entry' = [entry EXCEPT ![k] = job[r].read]
    <3>1. \A other \in Keys : entry'[other] = IF other = k THEN job[r].read ELSE entry[other]
      BY <2>2 DEF Responses!TypeInv
    <3> QED BY <1>1, <2>2, <3>1 DEF Responses!EntryInv, Responses!TypeInv
  <2> QED BY <2>1, <2>2 DEF Responses!SetApiCache
<1>3. Responses!TypeInv'
  BY <1>2, TellHolds DEF Responses!TypeInv
<1>4. Responses!EntryInv'
  <2>1. ASSUME NEW other \in Keys PROVE shownBody[other] <= entry'[other] /\ entry'[other] <= live
    <3>1. shownBody[other] \in Nat /\ entry[other] \in Nat /\ entry'[other] \in Nat /\ shownBody[other] <= entry[other]
      BY <1>2 DEF Responses!TypeInv, Responses!EntryInv
    <3> QED BY <1>2, <3>1
  <2> QED BY <2>1 DEF Responses!EntryInv
<1>5. ASSUME NEW q \in Clients PROVE Responses!JobInv(q)'
  <2>1. CASE q = r
    BY TellHolds, <2>1 DEF Responses!JobInv
  <2>2. CASE q # r
    <3>1. job'[q] = job[q] /\ request'[q].key = request[q].key /\ request[q].key \in Keys
      BY TellHolds, <2>2, RequestIsSound
    <3>2. job[q].stage # "none" => inflight[request[q].key] = q /\ request[q].key # k
      BY <1>1, <2>2 DEF Responses!JobInv
    <3>3. job[q].stage # "none" => inflight'[request[q].key] = q /\ entry'[request[q].key] = entry[request[q].key]
      BY <1>2, <2>2, <3>1, <3>2, TellHolds
    <3> QED BY <3>1, <3>3 DEF Responses!JobInv
  <2> QED BY <2>1, <2>2
<1> QED BY <1>2, <1>3, <1>4, <1>5, RefreshHolds, TellHolds

LEMMA RefreshBodyHolds ==
  ASSUME Responses!ResponseInv, NEW r \in Clients, Responses!RefreshBody(r)
  PROVE  Responses!ResponseInv'
<1>1. CASE job' = [job EXCEPT ![r] = [stage |-> "write", read |-> live]] /\ UNCHANGED <<request, inflight>>
  <2>1. /\ job \in [Clients -> [stage : {"none", "refresh", "write"}, read : Nat]]
        /\ job[r].stage = "refresh" /\ live \in Nat /\ entry[request[r].key] <= live
        /\ UNCHANGED <<live, entry, shownBody>>
    BY RequestIsSound DEF Responses!RefreshBody, Responses!ResponseInv, Responses!TypeInv
  <2>2. Responses!TypeInv' /\ Responses!EntryInv'
    BY <1>1, <2>1 DEF Responses!ResponseInv, Responses!TypeInv, Responses!EntryInv
  <2>3. ASSUME NEW q \in Clients PROVE Responses!JobInv(q)' /\ Responses!RequestInv(q)'
    <3>1. CASE q = r
      <4>1. job'[q] = [stage |-> "write", read |-> live]
        BY <1>1, <2>1, <3>1
      <4>2. live <= live
        BY <2>1
      <4> QED BY <1>1, <2>1, <3>1, <4>1, <4>2 DEF Responses!ResponseInv, Responses!JobInv, Responses!RequestInv
    <3>2. CASE q # r
      <4>1. job'[q] = job[q]
        BY <1>1, <2>1, <3>2
      <4> QED BY <1>1, <2>1, <4>1 DEF Responses!ResponseInv, Responses!JobInv, Responses!RequestInv
    <3> QED BY <3>1, <3>2
  <2> QED BY <1>1, <2>2, <2>3 DEF Responses!ResponseInv, Responses!AnswersNeverGoBack
<1>2. CASE Responses!Tell(r, "error")
  BY <1>2, RefreshEnds DEF Responses!RefreshBody
<1> QED BY <1>1, <1>2 DEF Responses!RefreshBody

LEMMA WriteHolds ==
  ASSUME Responses!ResponseInv, NEW r \in Clients, Responses!Write(r)
  PROVE  Responses!ResponseInv'
<1>1. PICK to \in {"written", "error"} : Responses!Tell(r, to)
  BY DEF Responses!Write
<1>2. /\ job[r].stage = "write" /\ UNCHANGED <<live, shownBody>>
      /\ UNCHANGED entry \/ Responses!SetApiCache(r)
  BY DEF Responses!Write
<1> QED BY <1>1, <1>2, RefreshEnds

LEMMA ChangeHolds ==
  ASSUME Responses!ResponseInv, Responses!Change
  PROVE  Responses!ResponseInv'
<1> USE DEF Responses!Change, Responses!ResponseInv
<1>1. live \in Nat /\ live' = live + 1 /\ entry \in [Keys -> Nat] /\ \A r \in Clients : job[r].read \in Nat
  BY DEF Responses!TypeInv
<1>2. Responses!TypeInv' /\ Responses!EntryInv'
  BY <1>1 DEF Responses!TypeInv, Responses!EntryInv
<1>3. ASSUME NEW r \in Clients PROVE Responses!JobInv(r)' /\ Responses!RequestInv(r)'
  BY <1>1 DEF Responses!JobInv, Responses!RequestInv
<1> QED BY <1>2, <1>3 DEF Responses!AnswersNeverGoBack

LEMMA CacheRestartHolds ==
  ASSUME Responses!ResponseInv, Responses!Restart
  PROVE  Responses!ResponseInv'
<1> USE DEF Responses!Restart, Responses!ResponseInv
<1>1. ASSUME NEW r \in Clients
      PROVE  /\ request'[r] \in Responses!RequestValues /\ request'[r].stage \notin {"joined", "written"}
             /\ request'[r] = request[r] \/ request'[r].stage = "lost"
             /\ job'[r] = Responses!NoJob
  <2>1. request[r] \in Responses!RequestValues
    BY DEF Responses!TypeInv
  <2>2. Responses!Answered(r, "lost", 0) \in Responses!RequestValues /\ Responses!Answered(r, "lost", 0).stage = "lost"
    BY <2>1 DEF Responses!Answered, Responses!RequestValues, Responses!Stages
  <2> QED BY <2>1, <2>2
<1>2. Responses!TypeInv'
  <2>1. request' \in [Clients -> Responses!RequestValues]
    <3>1. request' = [r \in Clients |-> request'[r]]
      OBVIOUS
    <3> QED BY <1>1, <3>1
  <2> QED BY <2>1 DEF Responses!TypeInv, Responses!NoJob
<1>3. Responses!EntryInv'
  BY DEF Responses!EntryInv
<1>4. Responses!AnswersNeverGoBack'
  BY <1>1 DEF Responses!AnswersNeverGoBack
<1>5. ASSUME NEW r \in Clients PROVE Responses!JobInv(r)' /\ Responses!RequestInv(r)'
  BY <1>1 DEF Responses!JobInv, Responses!RequestInv, Responses!NoJob
<1> QED BY <1>2, <1>3, <1>4, <1>5

LEMMA ResponsesNextHolds ==
  ASSUME Responses!ResponseInv, [Responses!Next]_(Responses!cacheVars)
  PROVE  Responses!ResponseInv'
<1>1. CASE UNCHANGED Responses!cacheVars
  BY <1>1 DEF Responses!cacheVars, Responses!ResponseInv, Responses!TypeInv, Responses!EntryInv,
              Responses!AnswersNeverGoBack, Responses!JobInv, Responses!RequestInv
<1>2. CASE Responses!Next
  BY <1>2, HandleHolds, ReadApiCacheHolds, JoinHolds, RefreshBodyHolds, WriteHolds, ReadBackHolds,
     ChangeHolds, CacheRestartHolds DEF Responses!Next
<1> QED BY <1>1, <1>2

-----------------------------------------------------------------------------
(* Scores *)

persistent == v1
row == v2
scoreFile == v3
scoreMemory == v4
underWay == v5
collections == v6
resolved == v7
call == v8
shown == v9
USE DEF persistent, row, scoreFile, scoreMemory, underWay, collections, resolved, call, shown

Rows == [version : Nat, refreshing : BOOLEAN, error : BOOLEAN]
CallValues == [kind : {"refresh", "read"}, after : Nat, floor : Nat, got : Scores!Snapshots,
               stage : {"idle", "joined", "reading", "answered", "failed", "lost"}]

LEMMA ScoresInitHolds == ASSUME Scores!Init PROVE Scores!ScoreInv
<1>1. /\ row = Scores!NoRow /\ scoreFile = Scores!Unavailable /\ scoreMemory = Scores!Unavailable /\ underWay = "none"
      /\ collections = 0 /\ resolved = 0 /\ shown = 0 /\ persistent \in BOOLEAN
  BY DEF Scores!Init
<1>2. Scores!Unavailable \in Scores!Snapshots /\ Scores!Unavailable.version = 0 /\ Scores!Unavailable.status = "unavailable"
  BY DEF Scores!Unavailable, Scores!Snapshots, Scores!Statuses
<1>3. Scores!NoRow \in Rows /\ Scores!NoRow.version = 0
  BY DEF Scores!NoRow, Rows
<1>4. call \in [ScoreCalls -> CallValues] /\ \A c \in ScoreCalls : call[c].stage = "idle"
  <2>1. call \in [ScoreCalls -> [kind : {"refresh", "read"}, stage : {"idle"}, after : {0}, floor : {0}, got : {Scores!Unavailable}]]
    BY DEF Scores!Init
  <2>2. ASSUME NEW c \in ScoreCalls PROVE call[c] \in CallValues /\ call[c].stage = "idle"
    BY <1>2, <2>1 DEF CallValues
  <2> QED BY <2>1, <2>2
<1>5. Scores!TypeInv
  BY <1>1, <1>2, <1>3, <1>4 DEF Scores!TypeInv, Rows, CallValues
<1>6. Scores!KeptInv /\ Scores!RowInv /\ Scores!FileInv
  BY <1>1, <1>2, <1>3 DEF Scores!KeptInv, Scores!RowInv, Scores!FileInv, Scores!KeptVersion
<1> QED BY <1>4, <1>5, <1>6 DEF Scores!ScoreInv, Scores!ScoresAreFresh, Scores!CallInv

\* The numbers of the collections, as the steps below compare them.
LEMMA VersionsAreNumbers ==
  ASSUME Scores!TypeInv
  PROVE  /\ row \in Rows /\ row.version \in Nat /\ scoreFile.version \in Nat /\ scoreMemory.version \in Nat
         /\ collections \in Nat /\ resolved \in Nat /\ shown \in Nat /\ Scores!KeptVersion \in Nat
         /\ call \in [ScoreCalls -> CallValues]
         /\ \A c \in ScoreCalls : /\ call[c] \in CallValues /\ call[c].after \in Nat /\ call[c].floor \in Nat
                               /\ call[c].got.version \in Nat
<1>1. row \in Rows /\ scoreFile \in Scores!Snapshots /\ scoreMemory \in Scores!Snapshots /\ call \in [ScoreCalls -> CallValues]
  BY DEF Scores!TypeInv, Rows, CallValues
<1>2. row.version \in Nat /\ scoreFile.version \in Nat /\ scoreMemory.version \in Nat
  BY <1>1 DEF Rows, Scores!Snapshots
<1>3. ASSUME NEW c \in ScoreCalls
      PROVE  call[c] \in CallValues /\ call[c].after \in Nat /\ call[c].floor \in Nat /\ call[c].got.version \in Nat
  BY <1>1 DEF CallValues, Scores!Snapshots
<1> QED BY <1>1, <1>2, <1>3 DEF Scores!TypeInv, Scores!KeptVersion

\* Calls that go on while what is kept gets newer.
LEMMA CallsHold ==
  ASSUME Scores!ScoreInv, Scores!TypeInv', shown <= shown', resolved <= resolved',
         Scores!KeptVersion <= Scores!KeptVersion',
         \A c \in ScoreCalls :
           /\ call'[c].kind = call[c].kind /\ call'[c].after = call[c].after
           /\ call'[c].floor = call[c].floor /\ call'[c].got = call[c].got
           /\ \/ call'[c].stage = call[c].stage
              \/ call'[c].stage \in {"failed", "lost"}
              \/ call[c].stage = "joined" /\ call'[c].stage = "reading" /\ resolved < Scores!KeptVersion'
  PROVE  Scores!ScoresAreFresh' /\ \A c \in ScoreCalls : Scores!CallInv(c)'
<1> DEFINE kept == Scores!KeptVersion
<1>1. kept \in Nat /\ kept' \in Nat /\ kept <= kept' /\ resolved \in Nat /\ resolved' \in Nat /\ shown \in Nat /\ shown' \in Nat
  <2>1. kept' \in Nat
    BY DEF Scores!TypeInv, Scores!KeptVersion, Scores!Snapshots
  <2> QED BY <2>1, VersionsAreNumbers DEF Scores!ScoreInv, Scores!TypeInv
<1> HIDE DEF kept
<1>2. ASSUME NEW c \in ScoreCalls PROVE Scores!CallInv(c)'
  <2>1. call[c].after \in Nat /\ call[c].floor \in Nat
    BY VersionsAreNumbers DEF Scores!ScoreInv
  <2>2. /\ call'[c].stage \in {"joined", "reading"} => call[c].stage \in {"joined", "reading"}
        /\ call'[c].stage = "joined" => call[c].stage = "joined"
        /\ call'[c].stage = "reading" => call[c].stage = "reading" \/ (call[c].stage = "joined" /\ resolved < kept')
    BY DEF kept
  <2>3. Scores!CallInv(c)
    BY DEF Scores!ScoreInv
  <2>4. call[c].stage = "reading" /\ call[c].kind = "refresh" => call[c].after < kept
    BY <2>3 DEF Scores!CallInv, kept
  <2>5. call'[c].stage \in {"joined", "reading"} => call'[c].floor <= shown'
    BY <1>1, <2>1, <2>2, <2>3 DEF Scores!CallInv
  <2>6. call'[c].stage = "joined" => call'[c].after <= resolved'
    BY <1>1, <2>1, <2>2, <2>3 DEF Scores!CallInv
  <2>7. call'[c].stage = "reading" /\ call'[c].kind = "refresh" => call'[c].after < kept'
    BY <1>1, <2>1, <2>2, <2>3, <2>4 DEF Scores!CallInv
  <2> QED BY <2>5, <2>6, <2>7 DEF Scores!CallInv, kept
<1>3. Scores!ScoresAreFresh'
  <2> SUFFICES ASSUME NEW c \in ScoreCalls, call'[c].stage = "answered"
               PROVE  /\ call'[c].kind = "refresh" => call'[c].got.version > call'[c].after
                      /\ call'[c].got.version >= call'[c].floor
    BY DEF Scores!ScoresAreFresh
  <2>1. call[c].stage = "answered"
    OBVIOUS
  <2> QED BY <2>1 DEF Scores!ScoreInv, Scores!ScoresAreFresh
<1> QED BY <1>2, <1>3

LEMMA CallsMove ==
  ASSUME Scores!TypeInv, NEW C \in SUBSET ScoreCalls, NEW to \in {"reading", "failed", "lost"}, Scores!MoveAll(C, to)
  PROVE  /\ call' \in [ScoreCalls -> CallValues]
         /\ \A c \in ScoreCalls :
              /\ call'[c].kind = call[c].kind /\ call'[c].after = call[c].after
              /\ call'[c].floor = call[c].floor /\ call'[c].got = call[c].got
              /\ call'[c].stage = IF c \in C THEN to ELSE call[c].stage
<1>1. ASSUME NEW c \in ScoreCalls
      PROVE  /\ call'[c] \in CallValues /\ call'[c].kind = call[c].kind /\ call'[c].after = call[c].after
             /\ call'[c].floor = call[c].floor /\ call'[c].got = call[c].got
             /\ call'[c].stage = IF c \in C THEN to ELSE call[c].stage
  <2>1. call[c] \in CallValues
    BY VersionsAreNumbers
  <2>2. call'[c] = IF c \in C THEN [call[c] EXCEPT !.stage = to] ELSE call[c]
    BY DEF Scores!MoveAll
  <2>3. CASE c \in C
    BY <2>1, <2>2, <2>3 DEF CallValues
  <2>4. CASE c \notin C
    <3>1. call'[c] = call[c]
      BY <2>2, <2>4
    <3> QED BY <2>1, <2>4, <3>1
  <2> QED BY <2>3, <2>4
<1>2. call' = [c \in ScoreCalls |-> call'[c]]
  BY DEF Scores!MoveAll
<1> QED BY <1>1, <1>2

\* A call that starts: it gets what is kept now, or newer.
LEMMA CallBegins ==
  ASSUME Scores!ScoreInv, NEW c \in ScoreCalls, NEW begun \in CallValues,
         call' = [call EXCEPT ![c] = begun],
         begun.stage = "joined" \/ (begun.stage = "reading" /\ begun.kind = "read"),
         begun.stage = "joined" => begun.after = resolved, begun.floor = shown,
         UNCHANGED <<persistent, row, scoreFile, collections, resolved, shown>>,
         \/ UNCHANGED <<underWay, scoreMemory>>
         \/ underWay' = "begin" /\ scoreMemory' = [scoreMemory EXCEPT !.status = "refreshing"]
  PROVE  Scores!ScoreInv'
<1> USE DEF Scores!ScoreInv
<1>1. /\ call \in [ScoreCalls -> CallValues] /\ resolved \in Nat /\ shown \in Nat /\ scoreMemory \in Scores!Snapshots
      /\ \A other \in ScoreCalls : call'[other] = IF other = c THEN begun ELSE call[other]
  BY VersionsAreNumbers DEF Scores!TypeInv
<1>2. scoreMemory' \in Scores!Snapshots /\ scoreMemory'.version = scoreMemory.version
  BY <1>1 DEF Scores!Snapshots, Scores!Statuses
<1>3. Scores!TypeInv'
  <2>1. call' \in [ScoreCalls -> CallValues]
    BY <1>1
  <2> QED BY <1>2, <2>1 DEF Scores!TypeInv, CallValues
<1>4. Scores!KeptVersion' = Scores!KeptVersion
  BY DEF Scores!KeptVersion
<1>5. Scores!KeptInv' /\ Scores!RowInv' /\ Scores!FileInv'
  BY <1>2, <1>4 DEF Scores!KeptInv, Scores!RowInv, Scores!FileInv
<1>6. ASSUME NEW other \in ScoreCalls PROVE Scores!CallInv(other)'
  <2>1. CASE other = c
    <3>1. call'[other] = begun /\ resolved <= resolved /\ shown <= shown
      BY <1>1, <2>1
    <3> QED BY <3>1 DEF Scores!CallInv
  <2>2. CASE other # c
    <3>1. call'[other] = call[other] /\ Scores!CallInv(other)
      BY <1>1, <2>2
    <3> QED BY <1>4, <3>1 DEF Scores!CallInv
  <2> QED BY <2>1, <2>2
<1>7. Scores!ScoresAreFresh'
  BY <1>1 DEF Scores!ScoresAreFresh
<1> QED BY <1>3, <1>5, <1>6, <1>7

LEMMA JoinOrBeginHolds ==
  ASSUME Scores!ScoreInv, NEW c \in ScoreCalls, Scores!Refresh(c)
  PROVE  Scores!ScoreInv'
<1> DEFINE joined == [call[c] EXCEPT !.stage = "joined"]
           after == [joined EXCEPT !.after = resolved]
           begun == [after EXCEPT !.floor = shown]
<1>1. call[c] \in CallValues /\ call \in [ScoreCalls -> CallValues] /\ resolved \in Nat /\ shown \in Nat
  BY VersionsAreNumbers DEF Scores!ScoreInv
<1>2. begun \in CallValues /\ begun.stage = "joined" /\ begun.after = resolved /\ begun.floor = shown
  <2>1. joined \in CallValues /\ joined.stage = "joined"
    BY <1>1 DEF CallValues
  <2> HIDE DEF joined
  <2>2. after \in CallValues /\ after.stage = "joined" /\ after.after = resolved
    BY <1>1, <2>1 DEF CallValues
  <2> HIDE DEF after
  <2> QED BY <1>1, <2>2 DEF CallValues
<1>3. call' = [call EXCEPT ![c] = begun]
  BY <1>1 DEF Scores!Refresh, CallValues
<1> HIDE DEF begun
<1> QED BY <1>2, <1>3, CallBegins DEF Scores!Refresh

LEMMA ReadLatestHolds ==
  ASSUME Scores!ScoreInv, NEW c \in ScoreCalls, Scores!ReadLatest(c)
  PROVE  Scores!ScoreInv'
<1> DEFINE reading == [call[c] EXCEPT !.stage = "reading"]
           begun == [reading EXCEPT !.floor = shown]
<1>1. /\ call[c] \in CallValues /\ call \in [ScoreCalls -> CallValues] /\ shown \in Nat
      /\ call[c].kind = "read"
  BY VersionsAreNumbers DEF Scores!ScoreInv, Scores!ReadLatest
<1>2. begun \in CallValues /\ begun.stage = "reading" /\ begun.kind = "read" /\ begun.floor = shown
  <2>1. reading \in CallValues /\ reading.stage = "reading" /\ reading.kind = "read"
    BY <1>1 DEF CallValues
  <2> HIDE DEF reading
  <2> QED BY <1>1, <2>1 DEF CallValues
<1>3. call' = [call EXCEPT ![c] = begun]
  BY <1>1 DEF Scores!ReadLatest, CallValues
<1> HIDE DEF begun
<1> QED BY <1>2, <1>3, CallBegins DEF Scores!ReadLatest

\* What a read finds in memory, and what it may show as ready, was kept.
LEMMA ReadFindsWhatIsKept ==
  ASSUME Scores!ScoreInv,
         scoreMemory' = IF persistent THEN Scores!FromRow(row, scoreMemory)
                        ELSE IF underWay = "none" /\ scoreFile.version > 0 THEN scoreFile ELSE scoreMemory
  PROVE  /\ scoreMemory' \in Scores!Snapshots
         /\ Scores!KeptVersion > 0 => scoreMemory'.version >= Scores!KeptVersion
         /\ underWay = "none" /\ scoreMemory'.status = "ready" => scoreMemory'.version <= Scores!KeptVersion
         /\ persistent /\ row.version = 0 => scoreMemory'.version = scoreMemory.version
         /\ ~ persistent => scoreMemory' = scoreMemory \/ (underWay = "none" /\ scoreFile.version > 0 /\ scoreMemory' = scoreFile)
<1> USE DEF Scores!ScoreInv
<1>1. row.version \in Nat /\ scoreFile.version \in Nat /\ scoreMemory.version \in Nat /\ persistent \in BOOLEAN
  BY VersionsAreNumbers DEF Scores!TypeInv
<1>2. CASE persistent
  <2>1. CASE row.version > 0
    <3>1. PICK status \in Scores!Statuses : scoreMemory' = [version |-> row.version, status |-> status]
      BY <1>2, <2>1 DEF Scores!FromRow, Scores!Statuses
    <3>2. Scores!KeptVersion = row.version /\ scoreMemory'.version = row.version
      BY <1>2, <3>1 DEF Scores!KeptVersion
    <3> QED BY <1>1, <1>2, <2>1, <3>1, <3>2 DEF Scores!Snapshots
  <2>2. CASE row.version = 0
    <3>1. Scores!KeptVersion = 0
      BY <1>2, <2>2 DEF Scores!KeptVersion
    <3>2. PICK status \in Scores!Statuses :
            /\ scoreMemory' = [scoreMemory EXCEPT !.status = status]
            /\ status = "ready" => ~ row.refreshing /\ ~ row.error
      <4>1. scoreMemory = [scoreMemory EXCEPT !.status = scoreMemory.status] /\ scoreMemory.status \in Scores!Statuses
        BY DEF Scores!TypeInv, Scores!Snapshots
      <4> QED BY <1>1, <1>2, <2>2, <4>1 DEF Scores!FromRow, Scores!Statuses
    <3>3. scoreMemory' \in Scores!Snapshots /\ scoreMemory'.version = scoreMemory.version /\ scoreMemory'.status = status
      BY <3>2 DEF Scores!TypeInv, Scores!Snapshots
    <3>4. scoreMemory'.status = "ready" => scoreMemory.version = 0
      BY <1>1, <1>2, <2>2, <3>2, <3>3 DEF Scores!RowInv
    <3> QED BY <1>1, <1>2, <2>2, <3>1, <3>3, <3>4
  <2> QED BY <1>1, <2>1, <2>2
<1>3. CASE ~ persistent
  <2>1. Scores!KeptVersion = scoreFile.version
    BY <1>3 DEF Scores!KeptVersion
  <2>2. CASE underWay = "none" /\ scoreFile.version > 0
    BY <1>1, <1>3, <2>1, <2>2 DEF Scores!TypeInv
  <2>3. CASE ~ (underWay = "none" /\ scoreFile.version > 0)
    BY <1>1, <1>3, <2>1, <2>3 DEF Scores!TypeInv, Scores!FileInv
  <2> QED BY <2>2, <2>3
<1> QED BY <1>2, <1>3

LEMMA StateHolds ==
  ASSUME Scores!ScoreInv, NEW c \in ScoreCalls, Scores!State(c)
  PROVE  Scores!ScoreInv'
<1> USE DEF Scores!ScoreInv
<1>1. /\ row.version \in Nat /\ scoreFile.version \in Nat /\ scoreMemory.version \in Nat /\ persistent \in BOOLEAN
      /\ call[c] \in CallValues /\ call \in [ScoreCalls -> CallValues] /\ shown \in Nat /\ Scores!KeptVersion \in Nat
      /\ call[c].after \in Nat /\ call[c].floor \in Nat
      /\ call[c].stage = "reading" /\ call[c].floor <= shown /\ shown <= Scores!KeptVersion
      /\ call[c].kind = "refresh" => call[c].after < Scores!KeptVersion
      /\ UNCHANGED <<persistent, row, scoreFile, underWay, collections, resolved>>
  BY VersionsAreNumbers DEF Scores!TypeInv, Scores!State, Scores!CallInv, Scores!KeptInv
<1>2. /\ scoreMemory' \in Scores!Snapshots
      /\ Scores!KeptVersion > 0 => scoreMemory'.version >= Scores!KeptVersion
      /\ underWay = "none" /\ scoreMemory'.status = "ready" => scoreMemory'.version <= Scores!KeptVersion
      /\ persistent /\ row.version = 0 => scoreMemory'.version = scoreMemory.version
      /\ ~ persistent => scoreMemory' = scoreMemory \/ (underWay = "none" /\ scoreFile.version > 0 /\ scoreMemory' = scoreFile)
  BY ReadFindsWhatIsKept DEF Scores!State
<1>3. scoreMemory'.version \in Nat /\ scoreMemory'.status \in Scores!Statuses
  BY <1>2 DEF Scores!Snapshots
<1>4. PICK status \in Scores!Statuses :
        /\ call' = [call EXCEPT ![c].stage = "answered", ![c].got = [version |-> scoreMemory'.version, status |-> status]]
        /\ shown' = IF status = "ready" /\ scoreMemory'.version > shown THEN scoreMemory'.version ELSE shown
        /\ status = "ready" => underWay = "none" /\ scoreMemory'.status = "ready"
  BY <1>1, <1>3 DEF Scores!State, Scores!StateOf, Scores!Statuses
<1> DEFINE got == [version |-> scoreMemory'.version, status |-> status]
           told == [call[c] EXCEPT !.stage = "answered"]
           answered == [told EXCEPT !.got = got]
<1>5. got \in Scores!Snapshots /\ got.version = scoreMemory'.version
  BY <1>3 DEF Scores!Snapshots
<1>6. call' = [call EXCEPT ![c] = answered]
  BY <1>1, <1>4 DEF CallValues
<1> HIDE DEF got
<1>7. /\ answered \in CallValues /\ answered.stage = "answered" /\ answered.got = got /\ answered.kind = call[c].kind
      /\ answered.after = call[c].after /\ answered.floor = call[c].floor
  <2>1. /\ told \in CallValues /\ told.stage = "answered" /\ told.kind = call[c].kind
        /\ told.after = call[c].after /\ told.floor = call[c].floor
    BY <1>1 DEF CallValues
  <2> HIDE DEF told
  <2> QED BY <1>5, <2>1 DEF CallValues
<1> HIDE DEF answered
<1>8. \A other \in ScoreCalls : call'[other] = IF other = c THEN answered ELSE call[other]
  BY <1>1, <1>6
<1>9. shown' \in Nat /\ shown <= shown' /\ shown' <= Scores!KeptVersion /\ Scores!KeptVersion' = Scores!KeptVersion
  <2>1. Scores!KeptVersion' = Scores!KeptVersion
    BY <1>1 DEF Scores!KeptVersion
  <2> QED BY <1>1, <1>2, <1>3, <1>4, <2>1
<1>10. Scores!TypeInv'
  <2>1. call' \in [ScoreCalls -> CallValues]
    BY <1>1, <1>7, <1>8, <1>6
  <2> QED BY <1>1, <1>2, <1>9, <2>1 DEF Scores!TypeInv, CallValues
<1>11. Scores!KeptInv'
  BY <1>1, <1>9 DEF Scores!KeptInv
<1>12. Scores!RowInv'
  BY <1>1, <1>2 DEF Scores!RowInv
<1>13. Scores!FileInv'
  <2>1. scoreFile.version <= collections
    BY <1>1, VersionsAreNumbers DEF Scores!FileInv, Scores!KeptInv, Scores!KeptVersion, Scores!RowInv
  <2> QED BY <1>1, <1>2, <2>1 DEF Scores!FileInv
<1>14. ASSUME NEW other \in ScoreCalls PROVE Scores!CallInv(other)'
  <2>1. CASE other = c
    <3>1. call'[other].stage = "answered"
      BY <1>7, <1>8, <2>1
    <3> QED BY <3>1 DEF Scores!CallInv
  <2>2. CASE other # c
    <3>1. call'[other] = call[other] /\ Scores!CallInv(other) /\ call[other].floor \in Nat
      BY <1>8, <2>2, VersionsAreNumbers
    <3> QED BY <1>1, <1>9, <3>1 DEF Scores!CallInv
  <2> QED BY <2>1, <2>2
<1>15. Scores!ScoresAreFresh'
  <2>1. answered.kind = "refresh" => answered.got.version > answered.after
    BY <1>1, <1>2, <1>3, <1>5, <1>7
  <2>2. answered.got.version >= answered.floor
    BY <1>1, <1>2, <1>3, <1>5, <1>7
  <2> QED BY <1>8, <2>1, <2>2 DEF Scores!ScoresAreFresh
<1> QED BY <1>10, <1>11, <1>12, <1>13, <1>14, <1>15

LEMMA StateFailsHolds ==
  ASSUME Scores!ScoreInv, NEW c \in ScoreCalls, Scores!StateFails(c)
  PROVE  Scores!ScoreInv'
<1> USE DEF Scores!ScoreInv
<1>1. /\ Scores!MoveAll({c}, "failed") /\ {c} \in SUBSET ScoreCalls
      /\ UNCHANGED <<persistent, row, scoreFile, scoreMemory, underWay, collections, resolved, shown>>
  BY DEF Scores!StateFails
<1>2. Scores!TypeInv'
  BY <1>1, CallsMove DEF Scores!TypeInv, CallValues
<1>3. Scores!KeptVersion' = Scores!KeptVersion
  BY <1>1 DEF Scores!KeptVersion
<1>4. Scores!KeptInv' /\ Scores!RowInv' /\ Scores!FileInv'
  BY <1>1, <1>3 DEF Scores!KeptInv, Scores!RowInv, Scores!FileInv
<1>5. shown <= shown' /\ resolved <= resolved' /\ Scores!KeptVersion <= Scores!KeptVersion'
  BY <1>1, <1>3, VersionsAreNumbers
<1>6. Scores!ScoresAreFresh' /\ \A other \in ScoreCalls : Scores!CallInv(other)'
  BY <1>1, <1>2, <1>5, CallsMove, CallsHold
<1> QED BY <1>2, <1>4, <1>6

\* Whoever awaits the refresh, when it ends or goes on.
LEMMA RefreshMovesCalls ==
  ASSUME Scores!ScoreInv, UNCHANGED shown, resolved <= resolved', Scores!KeptVersion <= Scores!KeptVersion',
         Scores!TypeInv',
         \/ UNCHANGED call
         \/ Scores!MoveAll(Scores!Joined, "failed")
         \/ Scores!MoveAll({c \in ScoreCalls : call[c].stage \in {"joined", "reading"}}, "lost")
         \/ Scores!MoveAll(Scores!Joined, "reading") /\ resolved < Scores!KeptVersion'
  PROVE  Scores!ScoresAreFresh' /\ \A c \in ScoreCalls : Scores!CallInv(c)'
<1> USE DEF Scores!ScoreInv
<1>1. shown <= shown'
  BY VersionsAreNumbers
<1>2. ASSUME NEW c \in ScoreCalls
      PROVE  /\ call'[c].kind = call[c].kind /\ call'[c].after = call[c].after
             /\ call'[c].floor = call[c].floor /\ call'[c].got = call[c].got
             /\ \/ call'[c].stage = call[c].stage
                \/ call'[c].stage \in {"failed", "lost"}
                \/ call[c].stage = "joined" /\ call'[c].stage = "reading" /\ resolved < Scores!KeptVersion'
  <2>1. CASE UNCHANGED call
    BY <2>1
  <2>2. CASE Scores!MoveAll(Scores!Joined, "failed")
    <3>1. Scores!Joined \in SUBSET ScoreCalls
      BY DEF Scores!Joined
    <3> QED BY <2>2, <3>1, CallsMove
  <2>3. CASE Scores!MoveAll({d \in ScoreCalls : call[d].stage \in {"joined", "reading"}}, "lost")
    <3>1. {d \in ScoreCalls : call[d].stage \in {"joined", "reading"}} \in SUBSET ScoreCalls
      OBVIOUS
    <3> QED BY <2>3, <3>1, CallsMove
  <2>4. CASE Scores!MoveAll(Scores!Joined, "reading") /\ resolved < Scores!KeptVersion'
    <3>1. Scores!Joined \in SUBSET ScoreCalls
      BY DEF Scores!Joined
    <3>2. c \in Scores!Joined => call[c].stage = "joined"
      BY DEF Scores!Joined
    <3> QED BY <2>4, <3>1, <3>2, CallsMove
  <2> QED BY <2>1, <2>2, <2>3, <2>4
<1> QED BY <1>1, <1>2, CallsHold

LEMMA MovedCallsAreTyped ==
  ASSUME Scores!TypeInv,
         \/ UNCHANGED call
         \/ Scores!MoveAll(Scores!Joined, "failed")
         \/ Scores!MoveAll({c \in ScoreCalls : call[c].stage \in {"joined", "reading"}}, "lost")
         \/ Scores!MoveAll(Scores!Joined, "reading")
  PROVE  call' \in [ScoreCalls -> CallValues]
<1>1. Scores!Joined \in SUBSET ScoreCalls /\ {d \in ScoreCalls : call[d].stage \in {"joined", "reading"}} \in SUBSET ScoreCalls
  BY DEF Scores!Joined
<1> QED BY <1>1, CallsMove, VersionsAreNumbers

LEMMA BeginHolds ==
  ASSUME Scores!ScoreInv, Scores!Begin
  PROVE  Scores!ScoreInv'
<1> USE DEF Scores!ScoreInv
<1>1. /\ underWay = "begin" /\ UNCHANGED <<persistent, scoreFile, scoreMemory, collections, resolved, shown>>
      /\ persistent \in BOOLEAN /\ row \in Rows
  BY VersionsAreNumbers DEF Scores!Begin, Scores!TypeInv
<1>2. row' \in Rows /\ row'.version = row.version
  <2>1. Scores!BegunRow \in Rows /\ Scores!BegunRow.version = row.version
    <3>1. Scores!BegunRow = [[row EXCEPT !.refreshing = TRUE] EXCEPT !.error = FALSE]
      BY <1>1 DEF Scores!BegunRow, Rows
    <3> QED BY <1>1, <3>1 DEF Rows
  <2> QED BY <1>1, <2>1 DEF Scores!Begin
<1>3. row' = row \/ (persistent /\ row'.refreshing)
  <2>1. Scores!BegunRow.refreshing
    BY <1>1 DEF Scores!BegunRow, Rows
  <2> QED BY <1>1, <2>1 DEF Scores!Begin
<1>4. /\ UNCHANGED call \/ Scores!MoveAll(Scores!Joined, "failed")
      /\ underWay' \in {"collect", "none"}
      /\ persistent /\ underWay' = "collect" => row'.refreshing
      /\ underWay' = "none" => persistent
  BY <1>1 DEF Scores!Begin, Scores!Reject
<1>5. Scores!TypeInv'
  BY <1>1, <1>2, <1>4, MovedCallsAreTyped DEF Scores!TypeInv, Rows, CallValues
<1>6. Scores!KeptVersion' = Scores!KeptVersion /\ Scores!KeptVersion <= Scores!KeptVersion' /\ resolved <= resolved'
  <2>1. Scores!KeptVersion' = Scores!KeptVersion
    BY <1>1, <1>2 DEF Scores!KeptVersion
  <2> QED BY <1>1, <2>1, VersionsAreNumbers
<1>7. Scores!KeptInv'
  BY <1>1, <1>4, <1>6 DEF Scores!KeptInv
<1>8. Scores!RowInv'
  BY <1>1, <1>2, <1>3, <1>4 DEF Scores!RowInv
<1>9. Scores!FileInv'
  BY <1>1, <1>4 DEF Scores!FileInv
<1> QED BY <1>1, <1>4, <1>5, <1>6, <1>7, <1>8, <1>9, RefreshMovesCalls

LEMMA CollectHolds ==
  ASSUME Scores!ScoreInv, Scores!Collect
  PROVE  Scores!ScoreInv'
<1> USE DEF Scores!ScoreInv
<1>1. /\ underWay = "collect" /\ UNCHANGED <<persistent, row, scoreFile, resolved, call, shown>>
      /\ resolved \in Nat /\ Scores!KeptVersion \in Nat /\ collections \in Nat
      /\ scoreFile.version \in Nat /\ persistent \in BOOLEAN
  BY VersionsAreNumbers DEF Scores!Collect, Scores!TypeInv
<1>2. Scores!KeptVersion' = Scores!KeptVersion
  BY <1>1 DEF Scores!KeptVersion
<1>3. \/ /\ collections' = collections + 1 /\ scoreMemory' = [version |-> collections + 1, status |-> "ready"]
         /\ underWay' = "complete"
      \/ UNCHANGED <<collections, scoreMemory>> /\ underWay' = "fail"
  BY DEF Scores!Collect
<1>4. Scores!TypeInv'
  BY <1>1, <1>3 DEF Scores!TypeInv, Scores!Snapshots, Scores!Statuses
<1>5. Scores!KeptInv'
  BY <1>1, <1>2, <1>3, VersionsAreNumbers DEF Scores!KeptInv
<1>6. Scores!RowInv'
  BY <1>1, <1>3 DEF Scores!RowInv
<1>7. Scores!FileInv'
  <2>1. CASE collections' = collections + 1 /\ scoreMemory' = [version |-> collections + 1, status |-> "ready"] /\ underWay' = "complete"
    <3>1. scoreMemory'.version = collections + 1
      BY <2>1
    <3>2. ~ persistent => scoreFile.version <= collections
      BY <1>1, VersionsAreNumbers DEF Scores!FileInv
    <3> QED BY <1>1, <2>1, <3>1, <3>2 DEF Scores!FileInv
  <2>2. CASE UNCHANGED <<collections, scoreMemory>> /\ underWay' = "fail"
    BY <1>1, <2>2 DEF Scores!FileInv
  <2> QED BY <1>3, <2>1, <2>2
<1>8. resolved <= resolved' /\ Scores!KeptVersion <= Scores!KeptVersion'
  BY <1>1, <1>2
<1> QED BY <1>1, <1>4, <1>5, <1>6, <1>7, <1>8, RefreshMovesCalls

LEMMA CompleteHolds ==
  ASSUME Scores!ScoreInv, Scores!Complete
  PROVE  Scores!ScoreInv'
<1> USE DEF Scores!ScoreInv
<1>1. /\ underWay = "complete" /\ UNCHANGED <<persistent, scoreMemory, collections, shown>>
      /\ resolved \in Nat /\ Scores!KeptVersion \in Nat /\ collections \in Nat /\ shown \in Nat
      /\ scoreFile.version \in Nat /\ persistent \in BOOLEAN /\ resolved < collections /\ shown <= Scores!KeptVersion
      /\ Scores!KeptVersion <= collections
  BY VersionsAreNumbers DEF Scores!Complete, Scores!TypeInv, Scores!KeptInv
<1>2. Scores!Kept \in Rows /\ Scores!Kept.version = collections
  BY <1>1 DEF Scores!Kept, Rows
<1>3. \/ /\ Scores!MoveAll(Scores!Joined, "reading") /\ resolved' = collections /\ underWay' = "none"
         /\ Scores!KeptVersion' = collections
      \/ /\ UNCHANGED <<scoreFile, resolved, call>> /\ underWay' = "fail"
         /\ Scores!KeptVersion' \in {Scores!KeptVersion, collections}
  <2>1. CASE Scores!Resolve /\ (IF persistent THEN row' = Scores!Kept /\ UNCHANGED scoreFile
                                ELSE scoreFile' = [version |-> collections, status |-> "ready"] /\ UNCHANGED row)
    <3>1. CASE persistent
      BY <1>1, <1>2, <2>1, <3>1 DEF Scores!Resolve, Scores!KeptVersion
    <3>2. CASE ~ persistent
      <4>1. scoreFile'.version = collections
        BY <2>1, <3>2
      <4> QED BY <1>1, <2>1, <3>2, <4>1 DEF Scores!Resolve, Scores!KeptVersion
    <3> QED BY <3>1, <3>2
  <2>2. CASE /\ underWay' = "fail"
             /\ (persistent /\ row' = Scores!Kept) \/ UNCHANGED row
             /\ UNCHANGED <<scoreFile, resolved, call>>
    BY <1>1, <1>2, <2>2 DEF Scores!KeptVersion
  <2> QED BY <2>1, <2>2 DEF Scores!Complete
<1>4. row' = row \/ (persistent /\ row' = Scores!Kept)
  BY DEF Scores!Complete
<1>5. scoreFile' = scoreFile \/ (~ persistent /\ scoreFile' = [version |-> collections, status |-> "ready"])
  BY DEF Scores!Complete
<1>6. Scores!TypeInv'
  <2>1. call' \in [ScoreCalls -> CallValues]
    BY <1>3, MovedCallsAreTyped
  <2>2. row' \in Rows /\ scoreFile' \in Scores!Snapshots
    BY <1>1, <1>2, <1>4, <1>5, VersionsAreNumbers DEF Scores!TypeInv, Scores!Snapshots, Scores!Statuses
  <2>3. resolved' \in Nat /\ underWay' \in {"none", "fail"}
    BY <1>1, <1>3
  <2> QED BY <1>1, <2>1, <2>2, <2>3 DEF Scores!TypeInv, Rows, CallValues
<1>7. Scores!KeptInv'
  BY <1>1, <1>3 DEF Scores!KeptInv
<1>8. Scores!RowInv'
  BY <1>1, <1>2, <1>3, <1>4, <1>5, VersionsAreNumbers DEF Scores!RowInv
<1>9. Scores!FileInv'
  <2>1. ~ persistent => scoreMemory.version = collections /\ scoreFile.version <= scoreMemory.version
    BY <1>1 DEF Scores!FileInv
  <2>2. CASE scoreFile' = scoreFile
    <3>1. Scores!KeptVersion' = Scores!KeptVersion \/ persistent
      BY <1>1, <1>4, <2>2, <1>2 DEF Scores!KeptVersion
    <3>2. ~ persistent /\ underWay' = "none" => scoreFile.version = collections
      BY <1>1, <1>3, <2>2 DEF Scores!KeptVersion
    <3>3. 0 < collections
      BY <1>1
    <3> QED BY <1>1, <1>3, <2>1, <2>2, <3>2, <3>3 DEF Scores!FileInv
  <2>3. CASE ~ persistent /\ scoreFile' = [version |-> collections, status |-> "ready"]
    <3>1. scoreFile'.version = collections /\ 0 < collections
      BY <1>1, <2>3
    <3> QED BY <1>1, <1>3, <2>1, <2>3, <3>1 DEF Scores!FileInv
  <2> QED BY <1>5, <2>2, <2>3
<1>10. resolved <= resolved' /\ Scores!KeptVersion <= Scores!KeptVersion'
  BY <1>1, <1>3
<1>11. UNCHANGED call \/ (Scores!MoveAll(Scores!Joined, "reading") /\ resolved < Scores!KeptVersion')
  BY <1>1, <1>3
<1> QED BY <1>1, <1>6, <1>7, <1>8, <1>9, <1>10, <1>11, RefreshMovesCalls

LEMMA FailHolds ==
  ASSUME Scores!ScoreInv, Scores!Fail
  PROVE  Scores!ScoreInv'
<1> USE DEF Scores!ScoreInv
<1>1. /\ underWay = "fail" /\ underWay' = "none" /\ Scores!MoveAll(Scores!Joined, "failed")
      /\ UNCHANGED <<persistent, collections, resolved, shown>>
      /\ resolved \in Nat /\ Scores!KeptVersion \in Nat /\ collections \in Nat /\ shown \in Nat
      /\ row \in Rows /\ row.version \in Nat /\ scoreFile.version \in Nat /\ scoreMemory \in Scores!Snapshots
      /\ scoreMemory.version \in Nat /\ scoreFile \in Scores!Snapshots /\ persistent \in BOOLEAN
  BY VersionsAreNumbers DEF Scores!Fail, Scores!Reject, Scores!TypeInv
<1>2. call' \in [ScoreCalls -> CallValues]
  BY <1>1, MovedCallsAreTyped
<1> DEFINE marked(m) == [m EXCEPT !.status = IF m.version = 0 THEN "unavailable" ELSE "stale"]
<1>3. ASSUME NEW m \in Scores!Snapshots
      PROVE  marked(m) \in Scores!Snapshots /\ marked(m).version = m.version /\ marked(m).status # "ready"
  BY DEF Scores!Snapshots, Scores!Statuses
<1>4. CASE persistent /\ row' = Scores!FailedRow /\ scoreMemory' = marked(Scores!FromRow(row', scoreMemory)) /\ UNCHANGED scoreFile
  <2>1. row' \in Rows /\ row'.version = row.version /\ row'.error /\ ~ row'.refreshing
    <3>1. Scores!FailedRow = [[row EXCEPT !.refreshing = FALSE] EXCEPT !.error = TRUE]
      BY <1>1 DEF Scores!FailedRow, Rows
    <3> QED BY <1>1, <1>4, <3>1 DEF Rows
  <2>2. PICK found \in Scores!Snapshots :
          found = Scores!FromRow(row', scoreMemory)
    BY <1>1, <2>1 DEF Scores!FromRow, Scores!Snapshots, Scores!Statuses
  <2>3. scoreMemory' \in Scores!Snapshots
    BY <1>3, <1>4, <2>2
  <2>4. Scores!TypeInv'
    BY <1>1, <1>2, <1>4, <2>1, <2>3 DEF Scores!TypeInv, Rows, CallValues
  <2>5. Scores!KeptVersion' = Scores!KeptVersion /\ Scores!KeptVersion <= Scores!KeptVersion' /\ resolved <= resolved'
    <3>1. Scores!KeptVersion' = Scores!KeptVersion
      BY <1>1, <1>4, <2>1 DEF Scores!KeptVersion
    <3> QED BY <1>1, <3>1
  <2>6. Scores!KeptInv'
    BY <1>1, <2>5 DEF Scores!KeptInv
  <2>7. Scores!RowInv' /\ Scores!FileInv'
    BY <1>1, <1>4, <2>1 DEF Scores!RowInv, Scores!FileInv
  <2> QED BY <1>1, <2>4, <2>5, <2>6, <2>7, RefreshMovesCalls
<1>5. CASE persistent /\ row' \in {row, Scores!FailedRow} /\ UNCHANGED <<scoreFile, scoreMemory>>
  <2>1. /\ row' \in Rows /\ row'.version = row.version
        /\ row.refreshing \/ row.error => row'.refreshing \/ row'.error
    <3>1. Scores!FailedRow = [[row EXCEPT !.refreshing = FALSE] EXCEPT !.error = TRUE]
      BY <1>1 DEF Scores!FailedRow, Rows
    <3> QED BY <1>1, <1>5, <3>1 DEF Rows
  <2>2. Scores!TypeInv'
    BY <1>1, <1>2, <1>5, <2>1 DEF Scores!TypeInv, Rows, CallValues
  <2>3. Scores!KeptVersion' = Scores!KeptVersion /\ Scores!KeptVersion <= Scores!KeptVersion' /\ resolved <= resolved'
    <3>1. Scores!KeptVersion' = Scores!KeptVersion
      BY <1>1, <1>5, <2>1 DEF Scores!KeptVersion
    <3> QED BY <1>1, <3>1
  <2>4. Scores!KeptInv' /\ Scores!RowInv' /\ Scores!FileInv'
    BY <1>1, <1>5, <2>1, <2>3 DEF Scores!KeptInv, Scores!RowInv, Scores!FileInv
  <2> QED BY <1>1, <2>2, <2>3, <2>4, RefreshMovesCalls
<1>6. CASE ~ persistent /\ scoreMemory' = marked(scoreMemory) /\ UNCHANGED row /\ (scoreFile' = scoreMemory' \/ scoreFile' = scoreFile)
  <2>1. /\ scoreMemory' \in Scores!Snapshots /\ scoreMemory'.version = scoreMemory.version
        /\ scoreMemory'.status # "ready" /\ scoreFile' \in Scores!Snapshots
        /\ scoreFile'.version \in {scoreFile.version, scoreMemory.version}
        /\ scoreFile.version <= scoreMemory.version /\ scoreMemory.version <= collections
    BY <1>1, <1>3, <1>6 DEF Scores!FileInv
  <2>2. Scores!TypeInv'
    BY <1>1, <1>2, <1>6, <2>1 DEF Scores!TypeInv, CallValues
  <2>3. Scores!KeptVersion = scoreFile.version /\ Scores!KeptVersion' = scoreFile'.version
    BY <1>1, <1>6 DEF Scores!KeptVersion
  <2>4. Scores!KeptVersion <= Scores!KeptVersion' /\ Scores!KeptVersion' <= collections /\ resolved <= resolved'
    BY <1>1, <2>1, <2>3
  <2>5. Scores!KeptInv'
    <3>1. Scores!KeptVersion' \in Nat
      BY <1>1, <2>1, <2>3
    <3> QED BY <1>1, <2>4, <3>1 DEF Scores!KeptInv
  <2>6. Scores!RowInv' /\ Scores!FileInv'
    BY <1>1, <1>6, <2>1 DEF Scores!RowInv, Scores!FileInv
  <2> QED BY <1>1, <2>2, <2>4, <2>5, <2>6, RefreshMovesCalls
<1> QED BY <1>4, <1>5, <1>6 DEF Scores!Fail

LEMMA ScoreRestartHolds ==
  ASSUME Scores!ScoreInv, Scores!Restart
  PROVE  Scores!ScoreInv'
<1> USE DEF Scores!ScoreInv
<1>1. /\ underWay' = "none" /\ scoreMemory' = scoreFile
      /\ Scores!MoveAll({c \in ScoreCalls : call[c].stage \in {"joined", "reading"}}, "lost")
      /\ UNCHANGED <<persistent, row, scoreFile, collections, resolved, shown>>
      /\ resolved \in Nat /\ Scores!KeptVersion \in Nat /\ scoreFile.version \in Nat /\ scoreFile \in Scores!Snapshots
      /\ persistent \in BOOLEAN
  BY VersionsAreNumbers DEF Scores!Restart, Scores!TypeInv
<1>2. Scores!TypeInv'
  BY <1>1, MovedCallsAreTyped DEF Scores!TypeInv, CallValues
<1>3. Scores!KeptVersion' = Scores!KeptVersion /\ Scores!KeptVersion <= Scores!KeptVersion' /\ resolved <= resolved'
  <2>1. Scores!KeptVersion' = Scores!KeptVersion
    BY <1>1 DEF Scores!KeptVersion
  <2> QED BY <1>1, <2>1
<1>4. Scores!KeptInv' /\ Scores!RowInv'
  BY <1>1, <1>3 DEF Scores!KeptInv, Scores!RowInv
<1>5. Scores!FileInv'
  <2>1. ~ persistent => scoreFile.version <= collections
    BY <1>1 DEF Scores!KeptInv, Scores!KeptVersion
  <2> QED BY <1>1, <2>1 DEF Scores!FileInv
<1> QED BY <1>1, <1>2, <1>3, <1>4, <1>5, RefreshMovesCalls

LEMMA ScoresNextHolds ==
  ASSUME Scores!ScoreInv, [Scores!Next]_(Scores!scoreVars)
  PROVE  Scores!ScoreInv'
<1>1. CASE UNCHANGED Scores!scoreVars
  <2>1. UNCHANGED <<persistent, row, scoreFile, scoreMemory, underWay, collections, resolved, call, shown>>
    BY <1>1 DEF Scores!scoreVars
  <2> QED BY <2>1 DEF Scores!ScoreInv, Scores!TypeInv, Scores!KeptInv, Scores!RowInv, Scores!FileInv,
              Scores!ScoresAreFresh, Scores!CallInv, Scores!KeptVersion
<1>2. CASE Scores!Next
  BY <1>2, JoinOrBeginHolds, ReadLatestHolds, StateHolds, StateFailsHolds, BeginHolds, CollectHolds,
     CompleteHolds, FailHolds, ScoreRestartHolds DEF Scores!Next
<1> QED BY <1>1, <1>2

-----------------------------------------------------------------------------
(* Snapshot *)

cache == v1
stored == v2
builds == v3
building == v4
captures == v5
asks == v6
newest == v7
USE DEF cache, stored, builds, building, captures, asks, newest

LEMMA NothingIsHonest ==
  /\ \A n \in Nat : Snapshot!Dated(Snapshot!NoSnapshot.sections, n)
  /\ Snapshot!Unstarted.sections = Snapshot!NoSnapshot.sections
  /\ Snapshot!NoSnapshot \in Snapshot!SnapshotValues /\ Snapshot!NoSnapshot.capture = 0
  /\ Snapshot!NoSnapshot.sections \in Snapshot!HonestSections
  /\ Snapshot!Unstarted \in Snapshot!BuildValues /\ Snapshot!Unstarted.stage = "none"
  /\ Snapshot!Unstarted.before = Snapshot!NoSnapshot
  /\ Snapshot!NoRequest \in Snapshot!RequestValues /\ Snapshot!NoRequest.label = "none" /\ Snapshot!NoRequest.newest = 0
  /\ Snapshot!NoRequest.cached = Snapshot!NoSnapshot /\ Snapshot!NoRequest.answer = Snapshot!NoSnapshot
<1>1. [s \in Sections |-> Snapshot!Empty] \in Snapshot!HonestSections
  BY SMTT(30) DEF Snapshot!HonestSections, Snapshot!SectionValues, Snapshot!Empty, Snapshot!Nothing
<1>0. \A n \in Nat : Snapshot!Dated(Snapshot!NoSnapshot.sections, n)
  BY DEF Snapshot!Dated, Snapshot!NoSnapshot, Snapshot!Empty
<1>2. /\ Snapshot!NoSnapshot \in Snapshot!SnapshotValues /\ Snapshot!NoSnapshot.capture = 0
      /\ Snapshot!NoSnapshot.sections \in Snapshot!HonestSections
  BY <1>0, <1>1 DEF Snapshot!NoSnapshot, Snapshot!SnapshotValues
<1>3. /\ Snapshot!Unstarted \in Snapshot!BuildValues /\ Snapshot!Unstarted.stage = "none"
      /\ Snapshot!Unstarted.before = Snapshot!NoSnapshot
      /\ Snapshot!Unstarted.sections = Snapshot!NoSnapshot.sections
  BY <1>2 DEF Snapshot!Unstarted, Snapshot!BuildValues
<1>4. /\ Snapshot!NoRequest \in Snapshot!RequestValues /\ Snapshot!NoRequest.label = "none" /\ Snapshot!NoRequest.newest = 0
      /\ Snapshot!NoRequest.cached = Snapshot!NoSnapshot /\ Snapshot!NoRequest.answer = Snapshot!NoSnapshot
  BY <1>2 DEF Snapshot!NoRequest, Snapshot!RequestValues, Snapshot!NoBuild
<1> QED BY <1>0, <1>2, <1>3, <1>4

LEMMA SnapshotInitHolds == ASSUME Snapshot!Init PROVE Snapshot!SnapshotInv
<1>1. /\ cache = Snapshot!NoSnapshot /\ stored = Snapshot!NoSnapshot
      /\ builds = [b \in Snapshot!BuildIds |-> Snapshot!Unstarted] /\ building = 0 /\ captures = 0
      /\ asks = [r \in Viewers |-> Snapshot!NoRequest] /\ newest = 0
  BY DEF Snapshot!Init, Snapshot!NoBuild
<1>2. Snapshot!TypeInv
  BY <1>1, NothingIsHonest DEF Snapshot!TypeInv, Snapshot!NoBuild
<1>3. ASSUME NEW b \in Snapshot!BuildIds PROVE Snapshot!BuildInv(b)
  BY <1>1, NothingIsHonest DEF Snapshot!BuildInv
<1>4. ASSUME NEW r \in Viewers PROVE Snapshot!RequestInv(r)
  BY <1>1, NothingIsHonest DEF Snapshot!RequestInv
<1> QED BY <1>1, <1>2, <1>3, <1>4, NothingIsHonest DEF Snapshot!SnapshotInv

\* The numbers of the captures, as the steps below compare them.
LEMMA CapturesAreNumbers ==
  ASSUME Snapshot!TypeInv
  PROVE  /\ captures \in Nat /\ newest \in Nat /\ cache.capture \in Nat /\ stored.capture \in Nat
         /\ \A b \in Snapshot!BuildIds : /\ builds[b] \in Snapshot!BuildValues
                                         /\ builds[b].before \in Snapshot!SnapshotValues
                                         /\ builds[b].before.capture \in Nat
                                         /\ builds[b].sections \in Snapshot!HonestSections
         /\ \A r \in Viewers : /\ asks[r] \in Snapshot!RequestValues
                               /\ asks[r].cached \in Snapshot!SnapshotValues /\ asks[r].answer \in Snapshot!SnapshotValues
                               /\ asks[r].cached.capture \in Nat /\ asks[r].answer.capture \in Nat
                               /\ asks[r].newest \in Nat
         /\ 0 \notin Snapshot!BuildIds
<1>1. ASSUME NEW x \in Snapshot!SnapshotValues PROVE x.capture \in Nat
  BY DEF Snapshot!SnapshotValues
<1>2. ASSUME NEW b \in Snapshot!BuildIds
      PROVE  /\ builds[b] \in Snapshot!BuildValues /\ builds[b].before \in Snapshot!SnapshotValues
             /\ builds[b].sections \in Snapshot!HonestSections
  BY DEF Snapshot!TypeInv, Snapshot!BuildValues
<1>3. ASSUME NEW r \in Viewers
      PROVE  /\ asks[r] \in Snapshot!RequestValues /\ asks[r].cached \in Snapshot!SnapshotValues
             /\ asks[r].answer \in Snapshot!SnapshotValues /\ asks[r].newest \in Nat
  BY DEF Snapshot!TypeInv, Snapshot!RequestValues
<1>4. 0 \notin Snapshot!BuildIds
  BY DEF Snapshot!BuildIds
<1> QED BY <1>1, <1>2, <1>3, <1>4 DEF Snapshot!TypeInv

\* A build that starts is the only one.
LEMMA BuildStarts ==
  ASSUME Snapshot!SnapshotInv, NEW before \in Snapshot!SnapshotValues, before.capture <= captures,
         NEW background \in BOOLEAN, building = 0, Snapshot!Starts(before, background), UNCHANGED captures
  PROVE  /\ builds' \in [Snapshot!BuildIds -> Snapshot!BuildValues] /\ building' \in Snapshot!BuildIds
         /\ \A b \in Snapshot!BuildIds : Snapshot!BuildInv(b)'
<1> DEFINE first == [Snapshot!Unstarted EXCEPT !.stage = "reading"]
           second == [first EXCEPT !.before = before]
           third == [second EXCEPT !.background = background]
           begun == [third EXCEPT !.missing = Sections]
<1>1. /\ begun \in Snapshot!BuildValues /\ begun.stage = "reading" /\ begun.before = before
      /\ begun.sections = Snapshot!NoSnapshot.sections
  <2>1. /\ first \in Snapshot!BuildValues /\ first.stage = "reading"
        /\ first.sections = Snapshot!NoSnapshot.sections
    BY NothingIsHonest DEF Snapshot!BuildValues
  <2> HIDE DEF first
  <2>2. /\ second \in Snapshot!BuildValues /\ second.stage = "reading" /\ second.before = before
        /\ second.sections = Snapshot!NoSnapshot.sections
    BY <2>1 DEF Snapshot!BuildValues
  <2> HIDE DEF second
  <2>3. /\ third \in Snapshot!BuildValues /\ third.stage = "reading" /\ third.before = before
        /\ third.sections = Snapshot!NoSnapshot.sections
    BY <2>2 DEF Snapshot!BuildValues
  <2> HIDE DEF third
  <2> QED BY <2>3 DEF Snapshot!BuildValues
<1>2. begun = [Snapshot!Unstarted EXCEPT !.stage = "reading", !.before = before, !.background = background, !.missing = Sections]
  BY NothingIsHonest DEF Snapshot!BuildValues
<1> HIDE DEF begun
<1>3. PICK b \in Snapshot!BuildIds : builds' = [builds EXCEPT ![b] = begun] /\ building' = b
  BY <1>2 DEF Snapshot!Starts
<1>4. builds' \in [Snapshot!BuildIds -> Snapshot!BuildValues]
      /\ \A c \in Snapshot!BuildIds : builds'[c] = IF c = b THEN begun ELSE builds[c]
  BY <1>1, <1>3 DEF Snapshot!SnapshotInv, Snapshot!TypeInv
<1>5. ASSUME NEW c \in Snapshot!BuildIds PROVE Snapshot!BuildInv(c)'
  <2>1. CASE c = b
    <3>1. captures + 1 \in Nat
      BY CapturesAreNumbers DEF Snapshot!SnapshotInv
    <3>2. Snapshot!Dated(begun.sections, captures + 1)
      BY <1>1, <3>1, NothingIsHonest
    <3> QED BY <1>1, <1>3, <1>4, <2>1, <3>2 DEF Snapshot!BuildInv
  <2>2. CASE c # b
    <3>1. builds'[c] = builds[c] /\ Snapshot!BuildInv(c) /\ c # 0
      BY <1>4, <2>2, CapturesAreNumbers DEF Snapshot!SnapshotInv
    <3> QED BY <3>1 DEF Snapshot!BuildInv
  <2> QED BY <2>1, <2>2
<1> QED BY <1>3, <1>4, <1>5

\* What a step of one request leaves behind.
LEMMA AskHolds ==
  ASSUME Snapshot!SnapshotInv, NEW r \in Viewers, NEW ask \in Snapshot!RequestValues,
         asks' = [asks EXCEPT ![r] = ask], ask.cached.capture <= captures, ask.answer.capture <= captures,
         ask.newest <= captures, ask.label = "refreshed" => ask.answer.capture >= ask.newest,
         cache' \in Snapshot!SnapshotValues, cache'.capture <= captures,
         newest' \in Nat, newest' <= captures,
         builds' \in [Snapshot!BuildIds -> Snapshot!BuildValues], building' \in Snapshot!BuildIds \cup {0},
         \A b \in Snapshot!BuildIds : Snapshot!BuildInv(b)',
         UNCHANGED <<stored, captures>>
  PROVE  Snapshot!SnapshotInv'
<1>1. /\ asks' \in [Viewers -> Snapshot!RequestValues]
      /\ \A q \in Viewers : asks'[q] = IF q = r THEN ask ELSE asks[q]
  BY DEF Snapshot!SnapshotInv, Snapshot!TypeInv
<1>2. Snapshot!TypeInv'
  BY <1>1 DEF Snapshot!SnapshotInv, Snapshot!TypeInv, Snapshot!NoBuild
<1>3. ASSUME NEW q \in Viewers PROVE Snapshot!RequestInv(q)'
  BY <1>1 DEF Snapshot!SnapshotInv, Snapshot!RequestInv
<1> QED BY <1>2, <1>3 DEF Snapshot!SnapshotInv

Labels == {"none", "hit", "stale", "refreshed", "error"}

LEMMA AnswerIsTyped ==
  ASSUME NEW ask \in Snapshot!RequestValues, NEW x \in Snapshot!SnapshotValues, NEW label \in Labels
  PROVE  /\ Snapshot!Answer(ask, x, label) \in Snapshot!RequestValues
         /\ Snapshot!Answer(ask, x, label).answer = x /\ Snapshot!Answer(ask, x, label).label = label
         /\ Snapshot!Answer(ask, x, label).cached = ask.cached /\ Snapshot!Answer(ask, x, label).newest = ask.newest
<1> DEFINE first == [ask EXCEPT !.stage = "answered"]
           second == [first EXCEPT !.answer = x]
           third == [second EXCEPT !.label = label]
<1>1. Snapshot!Answer(ask, x, label) = third
  BY DEF Snapshot!Answer, Snapshot!RequestValues
<1>2. first \in Snapshot!RequestValues /\ first.cached = ask.cached /\ first.newest = ask.newest
  BY DEF Snapshot!RequestValues
<1> HIDE DEF first
<1>3. second \in Snapshot!RequestValues /\ second.cached = ask.cached /\ second.newest = ask.newest /\ second.answer = x
  BY <1>2 DEF Snapshot!RequestValues
<1> HIDE DEF second
<1>4. /\ third \in Snapshot!RequestValues /\ third.cached = ask.cached /\ third.newest = ask.newest
      /\ third.answer = x /\ third.label = label
  BY <1>3 DEF Snapshot!RequestValues, Labels
<1> QED BY <1>1, <1>4

LEMMA DecideHolds ==
  ASSUME Snapshot!SnapshotInv, NEW r \in Viewers, NEW ask \in Snapshot!RequestValues, NEW cached \in Snapshot!SnapshotValues,
         Snapshot!Decide(r, ask, cached), cached.capture <= captures, ask.answer.capture <= captures,
         ask.newest <= captures, ask.label = "refreshed" => ask.answer.capture >= ask.newest,
         cache' \in {cache, cached}, UNCHANGED <<stored, captures>>
  PROVE  Snapshot!SnapshotInv'
<1> DEFINE known == [ask EXCEPT !.cached = cached]
<1>1. /\ known \in Snapshot!RequestValues /\ known.cached = cached /\ known.newest = ask.newest
      /\ known.answer = ask.answer /\ known.label = ask.label
  BY DEF Snapshot!RequestValues
<1>2. /\ cache' \in Snapshot!SnapshotValues /\ cache'.capture <= captures
      /\ captures \in Nat /\ newest \in Nat /\ newest <= captures /\ cached.capture \in Nat
      /\ 0 \notin Snapshot!BuildIds /\ building \in Snapshot!BuildIds \cup {0}
      /\ builds \in [Snapshot!BuildIds -> Snapshot!BuildValues]
  BY CapturesAreNumbers DEF Snapshot!SnapshotInv, Snapshot!TypeInv, Snapshot!NoBuild, Snapshot!SnapshotValues
<1>3. Snapshot!Latest(cached.capture) \in Nat /\ Snapshot!Latest(cached.capture) <= captures
  BY <1>2 DEF Snapshot!Latest
<1>4. UNCHANGED <<builds, building>> =>
        \A b \in Snapshot!BuildIds : Snapshot!BuildInv(b)'
  BY DEF Snapshot!SnapshotInv, Snapshot!BuildInv
<1>5. ASSUME NEW background \in BOOLEAN, building = 0, Snapshot!Starts(cached, background)
      PROVE  /\ builds' \in [Snapshot!BuildIds -> Snapshot!BuildValues] /\ building' \in Snapshot!BuildIds
             /\ \A b \in Snapshot!BuildIds : Snapshot!BuildInv(b)'
  BY <1>5, BuildStarts
<1>6. ASSUME NEW b \in Snapshot!BuildIds
      PROVE  /\ Snapshot!Waits(known, b) \in Snapshot!RequestValues /\ Snapshot!Waits(known, b).cached = cached
             /\ Snapshot!Waits(known, b).newest = ask.newest /\ Snapshot!Waits(known, b).answer = ask.answer
             /\ Snapshot!Waits(known, b).label = ask.label
  <2> HIDE DEF known
  <2> DEFINE first == [known EXCEPT !.stage = "waits"]
             second == [first EXCEPT !.build = b]
  <2>1. Snapshot!Waits(known, b) = second
    BY <1>1 DEF Snapshot!Waits, Snapshot!RequestValues
  <2>2. /\ first \in Snapshot!RequestValues /\ first.cached = cached /\ first.newest = ask.newest
        /\ first.answer = ask.answer /\ first.label = ask.label
    BY <1>1 DEF Snapshot!RequestValues
  <2> HIDE DEF first
  <2>3. /\ second \in Snapshot!RequestValues /\ second.cached = cached /\ second.newest = ask.newest
        /\ second.answer = ask.answer /\ second.label = ask.label
    BY <2>2 DEF Snapshot!RequestValues
  <2> HIDE DEF second
  <2> QED BY <2>1, <2>3
<1>7. ASSUME NEW label \in {"hit", "stale"}
      PROVE  /\ Snapshot!Answer(known, cached, label) \in Snapshot!RequestValues
             /\ Snapshot!Answer(known, cached, label).answer = cached /\ Snapshot!Answer(known, cached, label).label = label
             /\ Snapshot!Answer(known, cached, label).cached = cached
             /\ Snapshot!Answer(known, cached, label).newest = ask.newest
  <2> HIDE DEF known
  <2>1. PICK k \in Snapshot!RequestValues : k = known
    BY <1>1
  <2>2. PICK told \in Labels : told = label
    BY DEF Labels
  <2>3. /\ Snapshot!Answer(k, cached, told) \in Snapshot!RequestValues
        /\ Snapshot!Answer(k, cached, told).answer = cached /\ Snapshot!Answer(k, cached, told).label = told
        /\ Snapshot!Answer(k, cached, told).cached = k.cached
        /\ Snapshot!Answer(k, cached, told).newest = k.newest
    BY AnswerIsTyped
  <2> QED BY <1>1, <2>1, <2>2, <2>3
<1>8. \/ \E label \in {"hit", "stale"} :
           /\ asks' = [asks EXCEPT ![r] = Snapshot!Answer(known, cached, label)]
           /\ newest' = Snapshot!Latest(cached.capture)
           /\ \/ UNCHANGED <<builds, building>>
              \/ building = 0 /\ Snapshot!Starts(cached, TRUE)
      \/ /\ building # 0 /\ asks' = [asks EXCEPT ![r] = Snapshot!Waits(known, building)]
         /\ UNCHANGED <<builds, building, newest>>
      \/ /\ building = 0 /\ Snapshot!Starts(cached, FALSE)
         /\ asks' = [asks EXCEPT ![r] = Snapshot!Waits(known, building')]
         /\ UNCHANGED newest
  BY DEF Snapshot!Decide, Snapshot!Refreshes, Snapshot!NoBuild
<1> HIDE DEF known
<1>9. ASSUME NEW label \in {"hit", "stale"},
             asks' = [asks EXCEPT ![r] = Snapshot!Answer(known, cached, label)],
             newest' = Snapshot!Latest(cached.capture),
             UNCHANGED <<builds, building>> \/ (building = 0 /\ Snapshot!Starts(cached, TRUE))
      PROVE  Snapshot!SnapshotInv'
  <2>1. /\ builds' \in [Snapshot!BuildIds -> Snapshot!BuildValues] /\ building' \in Snapshot!BuildIds \cup {0}
        /\ \A b \in Snapshot!BuildIds : Snapshot!BuildInv(b)'
    BY <1>2, <1>4, <1>5, <1>9
  <2> DEFINE told == Snapshot!Answer(known, cached, label)
  <2>2. /\ told \in Snapshot!RequestValues /\ told.answer = cached /\ told.label # "refreshed"
        /\ told.cached = cached /\ told.newest = ask.newest /\ asks' = [asks EXCEPT ![r] = told]
    BY <1>7, <1>9
  <2> HIDE DEF told
  <2> QED BY <1>2, <1>3, <1>9, <2>1, <2>2, AskHolds
<1>10. CASE /\ building # 0 /\ asks' = [asks EXCEPT ![r] = Snapshot!Waits(known, building)]
            /\ UNCHANGED <<builds, building, newest>>
  <2>1. /\ builds' \in [Snapshot!BuildIds -> Snapshot!BuildValues] /\ building' \in Snapshot!BuildIds \cup {0}
        /\ \A b \in Snapshot!BuildIds : Snapshot!BuildInv(b)'
    BY <1>2, <1>4, <1>10
  <2>2. PICK b \in Snapshot!BuildIds : b = building
    BY <1>2, <1>10
  <2> DEFINE told == Snapshot!Waits(known, b)
  <2>3. /\ told \in Snapshot!RequestValues /\ told.answer = ask.answer /\ told.label = ask.label
        /\ told.cached = cached /\ told.newest = ask.newest /\ asks' = [asks EXCEPT ![r] = told]
    BY <1>6, <1>10, <2>2
  <2> HIDE DEF told
  <2> QED BY <1>2, <1>10, <2>1, <2>3, AskHolds
<1>11. CASE /\ building = 0 /\ Snapshot!Starts(cached, FALSE)
            /\ asks' = [asks EXCEPT ![r] = Snapshot!Waits(known, building')]
            /\ UNCHANGED newest
  <2>1. /\ builds' \in [Snapshot!BuildIds -> Snapshot!BuildValues] /\ building' \in Snapshot!BuildIds
        /\ \A b \in Snapshot!BuildIds : Snapshot!BuildInv(b)'
    BY <1>5, <1>11
  <2>2. PICK b \in Snapshot!BuildIds : b = building'
    BY <2>1
  <2> DEFINE told == Snapshot!Waits(known, b)
  <2>3. /\ told \in Snapshot!RequestValues /\ told.answer = ask.answer /\ told.label = ask.label
        /\ told.cached = cached /\ told.newest = ask.newest /\ asks' = [asks EXCEPT ![r] = told]
    BY <1>6, <1>11, <2>2
  <2> HIDE DEF told
  <2> QED BY <1>2, <1>11, <2>1, <2>3, AskHolds
<1> QED BY <1>8, <1>9, <1>10, <1>11

LEMMA SnapshotRequestHolds ==
  ASSUME Snapshot!SnapshotInv, NEW r \in Viewers, NEW force \in BOOLEAN, Snapshot!Snapshot(r, force)
  PROVE  Snapshot!SnapshotInv'
<1> DEFINE ask == [Snapshot!NoRequest EXCEPT !.force = force, !.newest = newest]
           forced == [Snapshot!NoRequest EXCEPT !.force = force]
           new == [forced EXCEPT !.newest = newest]
<1>1. /\ captures \in Nat /\ newest \in Nat /\ newest <= captures /\ cache \in Snapshot!SnapshotValues
      /\ cache.capture <= captures /\ stored \in Snapshot!SnapshotValues /\ stored.capture <= captures
      /\ UNCHANGED <<cache, stored, captures>>
  BY CapturesAreNumbers DEF Snapshot!SnapshotInv, Snapshot!TypeInv, Snapshot!Snapshot
<1>2. ask = new
  BY NothingIsHonest DEF Snapshot!RequestValues
<1>3. /\ new \in Snapshot!RequestValues /\ new.label = "none" /\ new.newest = newest
      /\ new.answer = Snapshot!NoSnapshot
  <2>1. /\ forced \in Snapshot!RequestValues /\ forced.label = "none"
        /\ forced.answer = Snapshot!NoSnapshot
    BY NothingIsHonest DEF Snapshot!RequestValues
  <2> HIDE DEF forced
  <2> QED BY <1>1, <2>1 DEF Snapshot!RequestValues
<1>4. \/ Snapshot!Decide(r, ask, cache)
      \/ /\ asks' = [asks EXCEPT ![r] = [ask EXCEPT !.stage = "reads", !.cached = stored]]
         /\ UNCHANGED <<builds, building, newest>>
  <2>1. CASE cache # Snapshot!NoSnapshot
    BY <2>1 DEF Snapshot!Snapshot
  <2>2. CASE cache = Snapshot!NoSnapshot
    <3>1. asks' = [asks EXCEPT ![r] = [Snapshot!NoRequest EXCEPT !.force = force, !.newest = newest, !.stage = "reads", !.cached = stored]]
          \/ asks' = [asks EXCEPT ![r] = [ask EXCEPT !.stage = "reads", !.cached = stored]]
      BY <2>2 DEF Snapshot!Snapshot
    <3> QED BY <2>2 DEF Snapshot!Snapshot
  <2> QED BY <2>1, <2>2
<1>5. Snapshot!Decide(r, new, cache)
      \/ (/\ asks' = [asks EXCEPT ![r] = [new EXCEPT !.stage = "reads", !.cached = stored]]
          /\ UNCHANGED <<builds, building, newest>>)
  BY <1>2, <1>4
<1>6. 0 <= captures /\ new.answer.capture <= captures /\ new.newest <= captures
  BY <1>1, <1>3, NothingIsHonest
<1> HIDE DEF new, ask
<1>7. CASE Snapshot!Decide(r, new, cache)
  BY <1>1, <1>3, <1>6, <1>7, DecideHolds
<1>8. CASE /\ asks' = [asks EXCEPT ![r] = [new EXCEPT !.stage = "reads", !.cached = stored]]
           /\ UNCHANGED <<builds, building, newest>>
  <2> DEFINE first == [new EXCEPT !.stage = "reads"]
             told == [first EXCEPT !.cached = stored]
  <2>1. asks' = [asks EXCEPT ![r] = told]
    BY <1>3, <1>8 DEF Snapshot!RequestValues
  <2>2. first \in Snapshot!RequestValues /\ first.label = "none" /\ first.newest = newest /\ first.answer = new.answer
    BY <1>3 DEF Snapshot!RequestValues
  <2> HIDE DEF first
  <2>3. /\ told \in Snapshot!RequestValues /\ told.label = "none" /\ told.newest = newest /\ told.answer = new.answer
        /\ told.cached = stored
    BY <1>1, <2>2 DEF Snapshot!RequestValues
  <2> HIDE DEF told
  <2>4. /\ builds' \in [Snapshot!BuildIds -> Snapshot!BuildValues] /\ building' \in Snapshot!BuildIds \cup {0}
        /\ \A b \in Snapshot!BuildIds : Snapshot!BuildInv(b)'
    BY <1>1, <1>8 DEF Snapshot!SnapshotInv, Snapshot!TypeInv, Snapshot!BuildInv, Snapshot!NoBuild
  <2> QED BY <1>1, <1>6, <1>8, <2>1, <2>3, <2>4, AskHolds
<1> QED BY <1>5, <1>7, <1>8

LEMMA RowArrivesHolds ==
  ASSUME Snapshot!SnapshotInv, NEW r \in Viewers, Snapshot!RowArrives(r)
  PROVE  Snapshot!SnapshotInv'
<1>1. PICK found \in {asks[r].cached, stored} :
        /\ cache' = IF found = Snapshot!NoSnapshot THEN cache ELSE found
        /\ Snapshot!Decide(r, asks[r], found)
  BY DEF Snapshot!RowArrives
<1>2. UNCHANGED <<stored, captures>>
  BY DEF Snapshot!RowArrives
<1>3. /\ found \in Snapshot!SnapshotValues /\ found.capture <= captures
  BY CapturesAreNumbers DEF Snapshot!SnapshotInv, Snapshot!TypeInv, Snapshot!RequestInv
<1>4. PICK ask \in Snapshot!RequestValues : ask = asks[r]
  BY CapturesAreNumbers DEF Snapshot!SnapshotInv
<1>5. /\ ask.answer.capture <= captures /\ ask.newest <= captures
      /\ ask.label = "refreshed" => ask.answer.capture >= ask.newest
  BY <1>4 DEF Snapshot!SnapshotInv, Snapshot!RequestInv
<1>6. PICK cached \in Snapshot!SnapshotValues : cached = found
  BY <1>3
<1>7. Snapshot!Decide(r, ask, cached) /\ cache' \in {cache, cached}
  BY <1>1, <1>4, <1>6
<1> QED BY <1>2, <1>3, <1>5, <1>6, <1>7, DecideHolds

LEMMA RowReadFailsHolds ==
  ASSUME Snapshot!SnapshotInv, NEW r \in Viewers, Snapshot!RowReadFails(r) \/ Snapshot!AsksAgain(r)
  PROVE  Snapshot!SnapshotInv'
<1>1. PICK ask \in Snapshot!RequestValues : ask = asks[r]
  BY CapturesAreNumbers DEF Snapshot!SnapshotInv
<1>2. PICK told \in {Snapshot!Answer(ask, Snapshot!NoSnapshot, "error"), Snapshot!NoRequest} :
        asks' = [asks EXCEPT ![r] = told]
  <2>1. CASE Snapshot!RowReadFails(r)
    BY <1>1, <2>1 DEF Snapshot!RowReadFails
  <2>2. CASE Snapshot!AsksAgain(r)
    BY <1>1, <2>2 DEF Snapshot!AsksAgain
  <2> QED BY <2>1, <2>2
<1>3. /\ captures \in Nat /\ ask.newest \in Nat /\ ask.newest <= captures /\ ask.cached.capture <= captures
  BY <1>1, CapturesAreNumbers DEF Snapshot!SnapshotInv, Snapshot!RequestInv
<1>4. /\ told \in Snapshot!RequestValues /\ told.label # "refreshed" /\ told.newest \in {0, ask.newest}
      /\ told.answer = Snapshot!NoSnapshot /\ told.cached \in {ask.cached, Snapshot!NoSnapshot}
  <2>1. /\ Snapshot!Answer(ask, Snapshot!NoSnapshot, "error") \in Snapshot!RequestValues
        /\ Snapshot!Answer(ask, Snapshot!NoSnapshot, "error").label = "error"
        /\ Snapshot!Answer(ask, Snapshot!NoSnapshot, "error").answer = Snapshot!NoSnapshot
        /\ Snapshot!Answer(ask, Snapshot!NoSnapshot, "error").cached = ask.cached
        /\ Snapshot!Answer(ask, Snapshot!NoSnapshot, "error").newest = ask.newest
    <3>1. PICK error \in Labels : error = "error"
      BY DEF Labels
    <3>2. /\ Snapshot!Answer(ask, Snapshot!NoSnapshot, error) \in Snapshot!RequestValues
          /\ Snapshot!Answer(ask, Snapshot!NoSnapshot, error).label = error
          /\ Snapshot!Answer(ask, Snapshot!NoSnapshot, error).answer = Snapshot!NoSnapshot
          /\ Snapshot!Answer(ask, Snapshot!NoSnapshot, error).cached = ask.cached
          /\ Snapshot!Answer(ask, Snapshot!NoSnapshot, error).newest = ask.newest
      BY NothingIsHonest, AnswerIsTyped
    <3> QED BY <3>1, <3>2
  <2> QED BY <1>2, <2>1, NothingIsHonest
<1>5. UNCHANGED <<cache, stored, builds, building, captures, newest>>
  BY DEF Snapshot!RowReadFails, Snapshot!AsksAgain
<1>6. /\ builds' \in [Snapshot!BuildIds -> Snapshot!BuildValues] /\ building' \in Snapshot!BuildIds \cup {0}
      /\ \A b \in Snapshot!BuildIds : Snapshot!BuildInv(b)'
      /\ cache' \in Snapshot!SnapshotValues /\ cache'.capture <= captures /\ newest' \in Nat /\ newest' <= captures
  BY <1>5 DEF Snapshot!SnapshotInv, Snapshot!TypeInv, Snapshot!BuildInv, Snapshot!NoBuild
<1>7. told.cached.capture <= captures /\ told.answer.capture <= captures /\ told.newest <= captures
  BY <1>3, <1>4, NothingIsHonest
<1> QED BY <1>2, <1>4, <1>5, <1>6, <1>7, AskHolds

-----------------------------------------------------------------------------

\* A section that settles is honest about itself.
LEMMA SettledHolds ==
  ASSUME Snapshot!SnapshotInv, NEW b \in Snapshot!BuildIds, NEW s \in Sections,
         NEW section \in Snapshot!SectionValues, Snapshot!Settled(b, s, section),
         section.state = "fresh" => section.data = section.at /\ section.at # 0,
         section.state = "fresh" => section.at = captures + 1, section.state = "stale" => section.at <= captures,
         s # Usage => section.data = section.at,
         section.state = "stale" <=> section.state # "fresh" /\ section.at # 0,
         UNCHANGED <<cache, stored, building, captures, asks, newest>>
  PROVE  Snapshot!SnapshotInv'
<1> DEFINE sections == [builds[b].sections EXCEPT ![s] = section]
           emptied == [builds[b] EXCEPT !.missing = builds[b].missing \ {s}]
           build == [emptied EXCEPT !.sections = sections]
<1>1. sections \in Snapshot!HonestSections
  <2>1. builds[b].sections \in Snapshot!HonestSections
    BY CapturesAreNumbers DEF Snapshot!SnapshotInv
  <2> QED BY <2>1, SMTT(30) DEF Snapshot!HonestSections, Snapshot!Nothing
<1>0. builds[b].stage = "reading" => Snapshot!Dated(sections, captures + 1)
  <2>1. ASSUME builds[b].stage = "reading" PROVE Snapshot!Dated(builds[b].sections, captures + 1)
    BY <2>1 DEF Snapshot!SnapshotInv, Snapshot!BuildInv
  <2>2. builds[b].sections \in [Sections -> Snapshot!SectionValues] /\ captures \in Nat
    BY CapturesAreNumbers DEF Snapshot!SnapshotInv, Snapshot!HonestSections
  <2>3. section.state = "stale" => section.at < captures + 1
    BY <2>2 DEF Snapshot!SectionValues
  <2> QED BY <2>1, <2>2, <2>3 DEF Snapshot!Dated
<1>2. builds' = [builds EXCEPT ![b] = build]
  BY CapturesAreNumbers DEF Snapshot!Settled, Snapshot!SnapshotInv, Snapshot!TypeInv, Snapshot!BuildValues
<1> HIDE DEF sections
<1>3. /\ build \in Snapshot!BuildValues /\ build.stage = builds[b].stage /\ build.before = builds[b].before
      /\ build.sections = sections
  <2>1. emptied \in Snapshot!BuildValues /\ emptied.stage = builds[b].stage /\ emptied.before = builds[b].before
    BY CapturesAreNumbers DEF Snapshot!SnapshotInv, Snapshot!BuildValues
  <2> HIDE DEF emptied
  <2> QED BY <1>1, <2>1 DEF Snapshot!BuildValues
<1> HIDE DEF build
<1>4. /\ builds' \in [Snapshot!BuildIds -> Snapshot!BuildValues]
      /\ \A c \in Snapshot!BuildIds : builds'[c].stage = builds[c].stage /\ builds'[c].before = builds[c].before
      /\ \A c \in Snapshot!BuildIds : builds'[c].sections = IF c = b THEN sections ELSE builds[c].sections
  BY <1>2, <1>3 DEF Snapshot!SnapshotInv, Snapshot!TypeInv
<1>5. Snapshot!TypeInv'
  BY <1>4 DEF Snapshot!SnapshotInv, Snapshot!TypeInv
<1>6. ASSUME NEW c \in Snapshot!BuildIds PROVE Snapshot!BuildInv(c)'
  BY <1>0, <1>4 DEF Snapshot!SnapshotInv, Snapshot!BuildInv
<1>7. ASSUME NEW r \in Viewers PROVE Snapshot!RequestInv(r)'
  BY DEF Snapshot!SnapshotInv, Snapshot!RequestInv
<1> QED BY <1>5, <1>6, <1>7 DEF Snapshot!SnapshotInv

LEMMA ReadSectionHolds ==
  ASSUME Snapshot!SnapshotInv, NEW b \in Snapshot!BuildIds, NEW s \in Sections, Snapshot!ReadSection(b, s)
  PROVE  Snapshot!SnapshotInv'
<1> DEFINE section == Snapshot!ReadNow
<1>1. captures \in Nat
  BY CapturesAreNumbers DEF Snapshot!SnapshotInv
<1>2. /\ section \in Snapshot!SectionValues /\ section.state = "fresh" /\ section.at = captures + 1
      /\ section.data = section.at /\ section.at # 0
  BY <1>1 DEF Snapshot!SectionValues, Snapshot!ReadNow
<1>3. Snapshot!Settled(b, s, section) /\ UNCHANGED <<cache, stored, building, captures, asks, newest>>
  BY DEF Snapshot!ReadSection
<1>4. PICK read \in Snapshot!SectionValues : read = section
  BY <1>2
<1>5. Snapshot!Settled(b, s, read)
  BY <1>3, <1>4
<1> HIDE DEF section
<1> QED BY <1>2, <1>3, <1>4, <1>5, SettledHolds

LEMMA SectionFailsHolds ==
  ASSUME Snapshot!SnapshotInv, NEW b \in Snapshot!BuildIds, NEW s \in Sections, Snapshot!SectionFails(b, s)
  PROVE  Snapshot!SnapshotInv'
<1> DEFINE before == builds[b].before.sections[s]
           section == Snapshot!Fallback(s, before)
<1>1. /\ before \in Snapshot!SectionValues /\ (s # Usage => before.data = before.at)
      /\ before.at # 0 => before.at <= captures
  <2>1. /\ builds[b].before.sections \in Snapshot!HonestSections
        /\ Snapshot!Dated(builds[b].before.sections, builds[b].before.capture)
    BY CapturesAreNumbers DEF Snapshot!SnapshotInv, Snapshot!SnapshotValues
  <2>2. builds[b].before.capture <= captures /\ builds[b].before.capture \in Nat /\ captures \in Nat
    BY CapturesAreNumbers DEF Snapshot!SnapshotInv, Snapshot!BuildInv
  <2>3. /\ before \in Snapshot!SectionValues /\ (s # Usage => before.data = before.at)
        /\ before.state = "stale" <=> before.state # "fresh" /\ before.at # 0
    BY <2>1 DEF Snapshot!HonestSections, Snapshot!Nothing
  <2>4. before.at # 0 => before.at = builds[b].before.capture \/ before.at < builds[b].before.capture
    BY <2>1, <2>3 DEF Snapshot!Dated
  <2> QED BY <2>2, <2>3, <2>4 DEF Snapshot!SectionValues
<1> HIDE DEF before
<1>2. /\ section \in Snapshot!SectionValues /\ section.state # "fresh" /\ section.at = before.at
      /\ s # Usage => section.data = section.at
      /\ section.state = "stale" <=> section.at # 0
      /\ section.state = "stale" => section.at <= captures
  BY <1>1 DEF Snapshot!SectionValues, Snapshot!Fallback, Snapshot!Nothing
<1>3. Snapshot!Settled(b, s, section) /\ UNCHANGED <<cache, stored, building, captures, asks, newest>>
  BY DEF Snapshot!SectionFails, before
<1>4. PICK read \in Snapshot!SectionValues : read = section
  BY <1>2
<1>5. Snapshot!Settled(b, s, read)
  BY <1>3, <1>4
<1> HIDE DEF section
<1> QED BY <1>2, <1>3, <1>4, <1>5, SettledHolds

LEMMA SaveHolds ==
  ASSUME Snapshot!SnapshotInv, NEW b \in Snapshot!BuildIds, Snapshot!Save(b)
  PROVE  Snapshot!SnapshotInv'
<1> DEFINE whole == [capture |-> captures + 1, sections |-> builds[b].sections]
           saving == [builds[b] EXCEPT !.stage = "saving"]
           build == [saving EXCEPT !.before = whole]
<1>1. /\ builds[b] \in Snapshot!BuildValues /\ captures \in Nat /\ captures' = captures + 1 /\ newest \in Nat
      /\ cache.capture \in Nat /\ stored.capture \in Nat
      /\ builds[b].sections \in Snapshot!HonestSections /\ builds[b].stage = "reading" /\ building = b
      /\ Snapshot!Dated(builds[b].sections, captures + 1)
      /\ UNCHANGED <<cache, building, asks, newest>>
  BY CapturesAreNumbers DEF Snapshot!SnapshotInv, Snapshot!Save, Snapshot!Reading, Snapshot!BuildInv
<1>2. whole \in Snapshot!SnapshotValues /\ whole.capture = captures + 1
  BY <1>1 DEF Snapshot!SnapshotValues
<1>3. builds' = [builds EXCEPT ![b] = build]
  BY <1>1 DEF Snapshot!Save, Snapshot!SnapshotInv, Snapshot!TypeInv, Snapshot!BuildValues
<1> HIDE DEF whole
<1>4. build \in Snapshot!BuildValues /\ build.stage = "saving" /\ build.before = whole
  <2>1. saving \in Snapshot!BuildValues /\ saving.stage = "saving"
    BY <1>1 DEF Snapshot!BuildValues
  <2> HIDE DEF saving
  <2> QED BY <1>2, <2>1 DEF Snapshot!BuildValues
<1> HIDE DEF build
<1>5. /\ builds' \in [Snapshot!BuildIds -> Snapshot!BuildValues]
      /\ \A c \in Snapshot!BuildIds : builds'[c] = IF c = b THEN build ELSE builds[c]
  BY <1>3, <1>4 DEF Snapshot!SnapshotInv, Snapshot!TypeInv
<1>6. stored' \in {stored, whole}
  <2>1. stored' = stored \/ stored' = builds'[b].before
    BY DEF Snapshot!Save
  <2> QED BY <1>4, <1>5, <2>1
<1>7. stored' \in Snapshot!SnapshotValues /\ stored'.capture <= captures'
  BY <1>1, <1>2, <1>6 DEF Snapshot!SnapshotInv, Snapshot!TypeInv
<1>8. Snapshot!TypeInv'
  BY <1>1, <1>5, <1>7 DEF Snapshot!SnapshotInv, Snapshot!TypeInv
<1>9. ASSUME NEW c \in Snapshot!BuildIds PROVE Snapshot!BuildInv(c)'
  <2>1. CASE c = b
    <3>1. builds'[c] = build /\ captures + 1 <= captures + 1
      BY <1>1, <1>5, <2>1
    <3> QED BY <1>1, <1>2, <1>4, <2>1, <3>1 DEF Snapshot!BuildInv
  <2>2. CASE c # b
    <3>1. builds'[c] = builds[c] /\ Snapshot!BuildInv(c) /\ builds[c].before.capture \in Nat
      BY <1>5, <2>2, CapturesAreNumbers DEF Snapshot!SnapshotInv
    <3> QED BY <1>1, <2>2, <3>1 DEF Snapshot!BuildInv
  <2> QED BY <2>1, <2>2
<1>10. ASSUME NEW r \in Viewers PROVE Snapshot!RequestInv(r)'
  <2>1. Snapshot!RequestInv(r) /\ asks[r].cached.capture \in Nat /\ asks[r].answer.capture \in Nat /\ asks[r].newest \in Nat
    BY CapturesAreNumbers DEF Snapshot!SnapshotInv
  <2> QED BY <1>1, <2>1 DEF Snapshot!RequestInv
<1> QED BY <1>1, <1>7, <1>8, <1>9, <1>10 DEF Snapshot!SnapshotInv

\* A build that ends leaves the others, and the one that is under way, alone.
LEMMA BuildEnds ==
  ASSUME Snapshot!SnapshotInv, NEW b \in Snapshot!BuildIds, UNCHANGED captures,
         builds' = [builds EXCEPT ![b] = [Snapshot!Unstarted EXCEPT !.stage = "ended"]], Snapshot!NoLongerInFlight(b)
  PROVE  /\ builds' \in [Snapshot!BuildIds -> Snapshot!BuildValues] /\ building' \in Snapshot!BuildIds \cup {0}
         /\ \A c \in Snapshot!BuildIds : Snapshot!BuildInv(c)'
<1> DEFINE ended == [Snapshot!Unstarted EXCEPT !.stage = "ended"]
<1>1. ended \in Snapshot!BuildValues /\ ended.stage = "ended" /\ ended.before = Snapshot!NoSnapshot
  BY NothingIsHonest DEF Snapshot!BuildValues
<1> HIDE DEF ended
<1>2. /\ builds' \in [Snapshot!BuildIds -> Snapshot!BuildValues]
      /\ \A c \in Snapshot!BuildIds : builds'[c] = IF c = b THEN ended ELSE builds[c]
  BY <1>1 DEF Snapshot!SnapshotInv, Snapshot!TypeInv, ended
<1>3. building' = IF building = b THEN 0 ELSE building
  BY DEF Snapshot!NoLongerInFlight, Snapshot!NoBuild
<1>4. building' \in Snapshot!BuildIds \cup {0} /\ 0 <= captures
  BY <1>3, CapturesAreNumbers DEF Snapshot!SnapshotInv, Snapshot!TypeInv, Snapshot!NoBuild
<1>5. ASSUME NEW c \in Snapshot!BuildIds PROVE Snapshot!BuildInv(c)'
  <2>1. CASE c = b
    <3>1. builds'[c] = ended
      BY <1>2, <2>1
    <3> QED BY <1>1, <1>4, <3>1, NothingIsHonest DEF Snapshot!BuildInv
  <2>2. CASE c # b
    <3>1. builds'[c] = builds[c] /\ Snapshot!BuildInv(c)
      BY <1>2, <2>2 DEF Snapshot!SnapshotInv
    <3> QED BY <1>3, <2>2, <3>1 DEF Snapshot!BuildInv
  <2> QED BY <2>1, <2>2
<1> QED BY <1>2, <1>4, <1>5

\* Whoever waited has an answer.
LEMMA WaitersHold ==
  ASSUME Snapshot!SnapshotInv, NEW b \in Snapshot!BuildIds,
         UNCHANGED <<stored, captures>>,
         builds' = [builds EXCEPT ![b] = [Snapshot!Unstarted EXCEPT !.stage = "ended"]], Snapshot!NoLongerInFlight(b),
         cache' \in Snapshot!SnapshotValues, cache'.capture <= captures, newest' \in Nat, newest' <= captures,
         asks' = [r \in Viewers |-> asks'[r]],
         \A r \in Viewers :
           \/ asks'[r] = asks[r]
           \/ \E x \in Snapshot!SnapshotValues, label \in {"refreshed", "error", "stale"} :
                /\ asks'[r] = Snapshot!Answer(asks[r], x, label) /\ x.capture <= captures
                /\ label = "refreshed" => x.capture = captures
  PROVE  Snapshot!SnapshotInv'
<1>1. ASSUME NEW r \in Viewers PROVE asks'[r] \in Snapshot!RequestValues /\ Snapshot!RequestInv(r)'
  <2>1. PICK ask \in Snapshot!RequestValues : ask = asks[r]
    BY CapturesAreNumbers DEF Snapshot!SnapshotInv
  <2>2. /\ ask.cached.capture <= captures /\ ask.answer.capture <= captures /\ ask.newest <= captures
        /\ ask.label = "refreshed" => ask.answer.capture >= ask.newest
        /\ captures \in Nat /\ ask.newest \in Nat
    BY <2>1, CapturesAreNumbers DEF Snapshot!SnapshotInv, Snapshot!RequestInv
  <2>3. CASE asks'[r] = asks[r]
    BY <2>1, <2>2, <2>3 DEF Snapshot!RequestInv
  <2>4. CASE asks'[r] # asks[r]
    <3>1. PICK x \in Snapshot!SnapshotValues, label \in {"refreshed", "error", "stale"} :
            /\ asks'[r] = Snapshot!Answer(ask, x, label) /\ x.capture <= captures
            /\ label = "refreshed" => x.capture = captures
      BY <2>1, <2>4
    <3>2. PICK told \in Labels : told = label
      BY DEF Labels
    <3>3. /\ asks'[r] \in Snapshot!RequestValues /\ asks'[r].answer = x /\ asks'[r].label = label
          /\ asks'[r].cached = ask.cached /\ asks'[r].newest = ask.newest
      <4>1. asks'[r] = Snapshot!Answer(ask, x, told)
        BY <3>1, <3>2
      <4>2. /\ Snapshot!Answer(ask, x, told) \in Snapshot!RequestValues
            /\ Snapshot!Answer(ask, x, told).answer = x /\ Snapshot!Answer(ask, x, told).label = told
            /\ Snapshot!Answer(ask, x, told).cached = ask.cached
            /\ Snapshot!Answer(ask, x, told).newest = ask.newest
        BY AnswerIsTyped
      <4> QED BY <3>2, <4>1, <4>2
    <3>4. label = "refreshed" => x.capture >= ask.newest
      BY <2>2, <3>1
    <3>5. /\ asks'[r].cached.capture <= captures' /\ asks'[r].answer.capture <= captures'
          /\ asks'[r].newest <= captures'
      BY <2>2, <3>1, <3>3
    <3>6. asks'[r].label = "refreshed" => asks'[r].answer.capture >= asks'[r].newest
      BY <3>3, <3>4
    <3> QED BY <3>3, <3>5, <3>6 DEF Snapshot!RequestInv
  <2> QED BY <2>3, <2>4
<1>2. asks' \in [Viewers -> Snapshot!RequestValues]
  BY <1>1
<1>3. Snapshot!TypeInv'
  BY <1>2, BuildEnds DEF Snapshot!SnapshotInv, Snapshot!TypeInv, Snapshot!NoBuild
<1> QED BY <1>1, <1>3, BuildEnds DEF Snapshot!SnapshotInv

LEMMA BuiltHolds ==
  ASSUME Snapshot!SnapshotInv, NEW b \in Snapshot!BuildIds, Snapshot!Built(b)
  PROVE  Snapshot!SnapshotInv'
<1>1. PICK x \in Snapshot!SnapshotValues : x = builds[b].before
  BY CapturesAreNumbers DEF Snapshot!SnapshotInv
<1>2. /\ x.capture = captures /\ captures \in Nat /\ newest \in Nat /\ newest <= captures
      /\ UNCHANGED <<stored, captures>>
  BY <1>1, CapturesAreNumbers DEF Snapshot!SnapshotInv, Snapshot!BuildInv, Snapshot!Built
<1>3. /\ cache' = x /\ newest' \in {newest, Snapshot!Latest(x.capture)}
      /\ asks' = [r \in Viewers |-> IF r \in Snapshot!Waiting(b) THEN Snapshot!Answer(asks[r], x, "refreshed") ELSE asks[r]]
  BY <1>1 DEF Snapshot!Built
<1>4. cache' \in Snapshot!SnapshotValues /\ cache'.capture <= captures /\ newest' \in Nat /\ newest' <= captures
  BY <1>2, <1>3 DEF Snapshot!Latest
<1>5. ASSUME NEW r \in Viewers
      PROVE  \/ asks'[r] = asks[r]
             \/ \E y \in Snapshot!SnapshotValues, label \in {"refreshed", "error", "stale"} :
                  /\ asks'[r] = Snapshot!Answer(asks[r], y, label) /\ y.capture <= captures
                  /\ label = "refreshed" => y.capture = captures
  <2>1. CASE r \in Snapshot!Waiting(b)
    <3>1. asks'[r] = Snapshot!Answer(asks[r], x, "refreshed") /\ x.capture <= captures
      BY <1>2, <1>3, <2>1
    <3> QED BY <1>2, <3>1
  <2>2. CASE r \notin Snapshot!Waiting(b)
    BY <1>3, <2>2
  <2> QED BY <2>1, <2>2
<1>6. asks' = [r \in Viewers |-> asks'[r]]
  BY <1>3
<1> QED BY <1>2, <1>4, <1>5, <1>6, WaitersHold DEF Snapshot!Built

LEMMA BuildFailsHolds ==
  ASSUME Snapshot!SnapshotInv, NEW b \in Snapshot!BuildIds, Snapshot!BuildFails(b)
  PROVE  Snapshot!SnapshotInv'
<1>1. UNCHANGED <<stored, captures, newest>> /\ cache' \in {cache, builds[b].before}
  BY DEF Snapshot!BuildFails
<1>2. cache' \in Snapshot!SnapshotValues /\ cache'.capture <= captures /\ newest' \in Nat /\ newest' <= captures
  BY <1>1, CapturesAreNumbers DEF Snapshot!SnapshotInv, Snapshot!BuildInv, Snapshot!TypeInv
<1>3. asks' = [r \in Viewers |-> IF r \notin Snapshot!Waiting(b) THEN asks[r]
                 ELSE Snapshot!Answer(asks[r], asks[r].cached, IF asks[r].cached = Snapshot!NoSnapshot THEN "error" ELSE "stale")]
  BY DEF Snapshot!BuildFails
<1>4. ASSUME NEW r \in Viewers
      PROVE  \/ asks'[r] = asks[r]
             \/ \E x \in Snapshot!SnapshotValues, label \in {"refreshed", "error", "stale"} :
                  /\ asks'[r] = Snapshot!Answer(asks[r], x, label) /\ x.capture <= captures
                  /\ label = "refreshed" => x.capture = captures
  <2>1. CASE r \in Snapshot!Waiting(b)
    <3>1. PICK label \in {"error", "stale"} : label = IF asks[r].cached = Snapshot!NoSnapshot THEN "error" ELSE "stale"
      OBVIOUS
    <3>2. asks'[r] = Snapshot!Answer(asks[r], asks[r].cached, label)
      BY <1>3, <2>1, <3>1
    <3>3. asks[r].cached \in Snapshot!SnapshotValues /\ asks[r].cached.capture <= captures
      BY CapturesAreNumbers DEF Snapshot!SnapshotInv, Snapshot!RequestInv
    <3> QED BY <3>2, <3>3
  <2>2. CASE r \notin Snapshot!Waiting(b)
    BY <1>3, <2>2
  <2> QED BY <2>1, <2>2
<1>5. asks' = [r \in Viewers |-> asks'[r]]
  BY <1>3
<1> QED BY <1>1, <1>2, <1>4, <1>5, WaitersHold DEF Snapshot!BuildFails

LEMMA SnapshotRestartHolds ==
  ASSUME Snapshot!SnapshotInv, Snapshot!Restart
  PROVE  Snapshot!SnapshotInv'
<1> DEFINE ended == [Snapshot!Unstarted EXCEPT !.stage = "ended"]
<1>1. ended \in Snapshot!BuildValues /\ ended.stage = "ended" /\ ended.before = Snapshot!NoSnapshot
  BY NothingIsHonest DEF Snapshot!BuildValues
<1> HIDE DEF ended
<1>2. /\ builds' = [b \in Snapshot!BuildIds |-> IF b \in Snapshot!Running THEN ended ELSE builds[b]]
      /\ cache' = Snapshot!NoSnapshot /\ building' = 0 /\ asks' = [r \in Viewers |-> Snapshot!NoRequest]
      /\ UNCHANGED <<stored, captures, newest>>
  BY DEF Snapshot!Restart, Snapshot!NoBuild, ended
<1>3. builds' \in [Snapshot!BuildIds -> Snapshot!BuildValues]
  BY <1>1, <1>2, CapturesAreNumbers DEF Snapshot!SnapshotInv
<1>4. Snapshot!TypeInv'
  BY <1>2, <1>3, NothingIsHonest DEF Snapshot!SnapshotInv, Snapshot!TypeInv, Snapshot!NoBuild
<1>5. 0 <= captures
  BY CapturesAreNumbers DEF Snapshot!SnapshotInv
<1>6. ASSUME NEW b \in Snapshot!BuildIds PROVE Snapshot!BuildInv(b)'
  <2>1. CASE b \in Snapshot!Running
    <3>1. builds'[b] = ended
      BY <1>2, <2>1
    <3> QED BY <1>1, <1>2, <1>5, <3>1, NothingIsHonest DEF Snapshot!BuildInv
  <2>2. CASE b \notin Snapshot!Running
    <3>1. builds'[b] = builds[b] /\ builds[b].stage \notin {"reading", "saving"} /\ Snapshot!BuildInv(b)
      BY <1>2, <2>2 DEF Snapshot!Running, Snapshot!SnapshotInv
    <3> QED BY <1>2, <3>1 DEF Snapshot!BuildInv
  <2> QED BY <2>1, <2>2
<1>7. ASSUME NEW r \in Viewers PROVE Snapshot!RequestInv(r)'
  BY <1>2, <1>5, NothingIsHonest DEF Snapshot!RequestInv
<1> QED BY <1>2, <1>4, <1>5, <1>6, <1>7, NothingIsHonest DEF Snapshot!SnapshotInv

LEMMA SnapshotNextHolds ==
  ASSUME Snapshot!SnapshotInv, [Snapshot!Next]_(Snapshot!snapshotVars)
  PROVE  Snapshot!SnapshotInv'
<1>1. CASE UNCHANGED Snapshot!snapshotVars
  <2>1. UNCHANGED <<cache, stored, builds, building, captures, asks, newest>>
    BY <1>1 DEF Snapshot!snapshotVars
  <2> QED BY <2>1 DEF Snapshot!SnapshotInv, Snapshot!TypeInv, Snapshot!BuildInv, Snapshot!RequestInv
<1>2. ASSUME NEW r \in Viewers,
             \/ Snapshot!RowArrives(r) \/ Snapshot!RowReadFails(r) \/ Snapshot!AsksAgain(r)
             \/ \E force \in BOOLEAN : Snapshot!Snapshot(r, force)
      PROVE  Snapshot!SnapshotInv'
  BY <1>2, RowArrivesHolds, RowReadFailsHolds, SnapshotRequestHolds
<1>3. ASSUME NEW b \in Snapshot!BuildIds,
             \/ Snapshot!Save(b) \/ Snapshot!Built(b) \/ Snapshot!BuildFails(b)
             \/ \E s \in Sections : Snapshot!ReadSection(b, s) \/ Snapshot!SectionFails(b, s)
      PROVE  Snapshot!SnapshotInv'
  BY <1>3, SaveHolds, BuiltHolds, BuildFailsHolds, ReadSectionHolds, SectionFailsHolds
<1>4. CASE Snapshot!Restart
  BY <1>4, SnapshotRestartHolds
<1>5. CASE Snapshot!Next
  BY <1>2, <1>3, <1>4, <1>5 DEF Snapshot!Next
<1> QED BY <1>1, <1>5

LEMMA SnapshotSuffices ==
  ASSUME Snapshot!SnapshotInv
  PROVE  Snapshot!SnapshotsAreHonest
<1>1. ASSUME NEW b \in Snapshot!Running, NEW c \in Snapshot!Running PROVE b = c
  BY DEF Snapshot!SnapshotInv, Snapshot!BuildInv, Snapshot!Running
<1>2. \A r \in Viewers : asks[r].label = "refreshed" => asks[r].answer.capture >= asks[r].newest
  BY DEF Snapshot!SnapshotInv, Snapshot!RequestInv
<1>3. ASSUME NEW x \in Snapshot!Snapshots, NEW s \in Sections
      PROVE  LET section == x.sections[s] IN
             /\ section.state = "fresh" => section.data = x.capture /\ section.data # 0
             /\ section.state = "stale" => section.at # 0 /\ section.at < x.capture
             /\ section.state = "unavailable" => section.at = 0
             /\ section.state # "fresh" /\ s # Usage => section.data = section.at
  <2>1. x \in Snapshot!SnapshotValues
    BY CapturesAreNumbers DEF Snapshot!Snapshots, Snapshot!SnapshotInv, Snapshot!TypeInv
  <2>2. x.sections \in Snapshot!HonestSections /\ Snapshot!Dated(x.sections, x.capture)
    BY <2>1 DEF Snapshot!SnapshotValues
  <2> QED BY <2>2 DEF Snapshot!HonestSections, Snapshot!Dated, Snapshot!Nothing
<1> QED BY <1>1, <1>2, <1>3 DEF Snapshot!SnapshotsAreHonest, Snapshot!Nothing

-----------------------------------------------------------------------------
(* Reload *)

files == v1
inUse == v2
rules == v3
fingerprint == v4
loaded == v5
overtaken == v7
USE DEF files, inUse, rules, fingerprint, loaded, overtaken

\* A configuration in use is watched, all of it.
LEMMA WholeIsWatched ==
  ASSUME NEW candidate, Reload!IsWhole(candidate), Reload!TypeInv
  PROVE  /\ DOMAIN candidate = {Yaml, candidate[Yaml].template} /\ Yaml \in DOMAIN candidate
         /\ Reload!Watched(candidate) = DOMAIN candidate
         /\ DOMAIN candidate \subseteq {Yaml} \cup Templates /\ candidate[Yaml].template \in Templates
         /\ DOMAIN candidate \notin {{}, {Yaml}}
         /\ \A file \in DOMAIN candidate : candidate[file] \in Reload!Values /\ files[file] \in Reload!Values /\ files[file].version \in Nat
         /\ Reload!FingerprintFor(candidate) = {<<file, files[file].version>> : file \in DOMAIN candidate}
<1>1. PICK template \in Templates : candidate \in [{Yaml, template} -> Reload!Values] /\ candidate[Yaml].template = template
  BY DEF Reload!IsWhole
<1>2. Yaml # template
  BY ReloadAssumption
<1>3. DOMAIN candidate = {Yaml, template} /\ Reload!Watched(candidate) = {Yaml, template}
  BY <1>1 DEF Reload!Watched
<1>4. ASSUME NEW file \in DOMAIN candidate
      PROVE  candidate[file] \in Reload!Values /\ files[file] \in Reload!Values /\ files[file].version \in Nat
  BY <1>1, <1>3 DEF Reload!TypeInv, Reload!Values
<1>5. Reload!FingerprintFor(candidate) = {<<file, files[file].version>> : file \in DOMAIN candidate}
  BY <1>3 DEF Reload!FingerprintFor
<1>6. DOMAIN candidate # {} /\ DOMAIN candidate # {Yaml}
  BY <1>2, <1>3
<1> QED BY <1>1, <1>3, <1>4, <1>5, <1>6

\* What the fingerprint says of the configuration in use.
LEMMA SameFingerprint ==
  ASSUME Reload!ReloadInv, Reload!FingerprintFor(inUse) = fingerprint
  PROVE  loaded = Reload!Nothing /\ (overtaken \/ \A file \in DOMAIN inUse : inUse[file] = files[file])
<1> USE DEF Reload!ReloadInv
<1>1. /\ Reload!FingerprintFor(inUse) = {<<file, files[file].version>> : file \in DOMAIN inUse} /\ Yaml \in DOMAIN inUse
  BY WholeIsWatched
<1>2. <<Yaml, files[Yaml].version>> \in fingerprint
  BY <1>1
<1>3. fingerprint # {}
  BY <1>2
<1>4. PICK seen \in [DOMAIN inUse -> Nat] :
        /\ fingerprint = {<<file, seen[file]>> : file \in DOMAIN inUse}
        /\ (\A file \in DOMAIN inUse : seen[file] = files[file].version) =>
             loaded = Reload!Nothing /\ (overtaken \/ \A file \in DOMAIN inUse : inUse[file] = files[file])
  BY <1>3 DEF Reload!FingerprintInv
<1>5. ASSUME NEW file \in DOMAIN inUse PROVE seen[file] = files[file].version
  <2>1. <<file, seen[file]>> \in fingerprint
    BY <1>4
  <2>2. PICK other \in DOMAIN inUse : <<file, seen[file]>> = <<other, files[other].version>>
    BY <1>1, <2>1
  <2> QED BY <2>2
<1> QED BY <1>4, <1>5

LEMMA ReloadInitHolds == ASSUME Reload!Init PROVE Reload!ReloadInv
<1>1. PICK template \in Templates, next \in Templates :
        /\ inUse = [file \in {Yaml, template} |-> [version |-> 1, valid |-> TRUE, template |-> template]]
        /\ files \in [{Yaml} \cup Templates -> [version : 1 .. 2, valid : {TRUE}, template : {next}]]
  BY DEF Reload!Init
<1>2. rules = inUse /\ fingerprint = {} /\ loaded = Reload!Nothing /\ overtaken = FALSE
  BY DEF Reload!Init
<1>3. Reload!TypeInv
  <2>1. ASSUME NEW x \in [version : 1 .. 2, valid : {TRUE}, template : {next}] PROVE x \in Reload!Values
    <3>1. 1 .. 2 \subseteq Nat /\ {TRUE} \subseteq BOOLEAN /\ {next} \subseteq Templates
      OBVIOUS
    <3>2. [version : 1 .. 2, valid : {TRUE}, template : {next}] \subseteq [version : Nat, valid : BOOLEAN, template : Templates]
      BY <3>1, Zenon
    <3> QED BY <3>2 DEF Reload!Values
  <2> QED BY <1>1, <1>2, <2>1 DEF Reload!TypeInv
<1>4. Reload!ReadingInv
  BY <1>2 DEF Reload!ReadingInv, Reload!Nothing
<1>5. Reload!IsWhole(inUse) /\ \A file \in DOMAIN inUse : inUse[file].valid
  <2>1. [version |-> 1, valid |-> TRUE, template |-> template] \in Reload!Values
    BY DEF Reload!Values
  <2>2. inUse \in [{Yaml, template} -> Reload!Values] /\ inUse[Yaml].template = template
    BY <1>1, <2>1
  <2>3. \A file \in DOMAIN inUse : inUse[file].valid
    BY <1>1
  <2> QED BY <2>2, <2>3 DEF Reload!IsWhole
<1> QED BY <1>2, <1>3, <1>4, <1>5 DEF Reload!ReloadInv, Reload!FingerprintInv

LEMMA ChangedHolds ==
  ASSUME Reload!ReloadInv, Reload!Changed
  PROVE  Reload!ReloadInv'
<1> USE DEF Reload!ReloadInv
<1>1. /\ Reload!FingerprintFor(inUse) # fingerprint /\ UNCHANGED <<files, inUse, rules, fingerprint>>
      /\ overtaken' = FALSE /\ loaded = Reload!Nothing
      /\ loaded' = Reload!Nothing \/ (loaded' = [file \in {Yaml} |-> files[file]] /\ files[Yaml].valid)
  <2>1. loaded' = loaded \/ (loaded' = [file \in {Yaml} |-> files[Yaml]] /\ files[Yaml].valid)
    BY DEF Reload!Changed, Reload!IsValid
  <2>2. [file \in {Yaml} |-> files[Yaml]] = [file \in {Yaml} |-> files[file]]
    OBVIOUS
  <2> QED BY <2>1, <2>2 DEF Reload!Changed
<1>2. Reload!TypeInv'
  BY <1>1 DEF Reload!TypeInv
<1>3. Reload!ReadingInv'
  <2>1. CASE loaded' = Reload!Nothing
    BY <2>1 DEF Reload!ReadingInv, Reload!Nothing
  <2>2. CASE loaded' = [file \in {Yaml} |-> files[file]] /\ files[Yaml].valid
    <3>1. loaded' \in [{Yaml} -> Reload!Values]
      BY <2>2 DEF Reload!TypeInv
    <3>2. \A file \in DOMAIN loaded' : loaded'[file].valid /\ loaded'[file] = files'[file]
      BY <1>1, <2>2
    <3> QED BY <3>1, <3>2 DEF Reload!ReadingInv
  <2> QED BY <1>1, <2>1, <2>2
<1>4. Reload!FingerprintInv'
  <2>1. CASE fingerprint = {}
    BY <1>1, <2>1 DEF Reload!FingerprintInv
  <2>2. CASE fingerprint # {}
    <3>1. PICK seen \in [DOMAIN inUse -> Nat] :
            /\ fingerprint = {<<file, seen[file]>> : file \in DOMAIN inUse}
            /\ \A file \in DOMAIN inUse : seen[file] <= files[file].version
      BY <2>2 DEF Reload!FingerprintInv
    <3>2. ~ \A file \in DOMAIN inUse : seen[file] = files[file].version
      <4> SUFFICES ASSUME \A file \in DOMAIN inUse : seen[file] = files[file].version PROVE FALSE
        OBVIOUS
      <4>1. {<<file, seen[file]>> : file \in DOMAIN inUse} = {<<file, files[file].version>> : file \in DOMAIN inUse}
        OBVIOUS
      <4> QED BY <1>1, <3>1, <4>1, WholeIsWatched
    <3> QED BY <1>1, <3>1, <3>2 DEF Reload!FingerprintInv
  <2> QED BY <2>1, <2>2
<1> QED BY <1>1, <1>2, <1>3, <1>4 DEF Reload!IsWhole

LEMMA LoadTemplateHolds ==
  ASSUME Reload!ReloadInv, Reload!LoadTemplate
  PROVE  Reload!ReloadInv'
<1> USE DEF Reload!ReloadInv
<1>1. DOMAIN loaded = {Yaml} /\ UNCHANGED <<files, inUse, rules, fingerprint, overtaken>>
  BY DEF Reload!LoadTemplate
<1>2. loaded \in [{Yaml} -> Reload!Values] /\ loaded # Reload!Nothing
  <2>1. loaded # Reload!Nothing
    BY <1>1 DEF Reload!Nothing
  <2>2. ~ Reload!IsWhole(loaded)
    BY <1>1, WholeIsWatched
  <2> QED BY <2>1, <2>2 DEF Reload!ReadingInv
<1>3. Reload!TypeInv'
  BY <1>1 DEF Reload!TypeInv
<1>4. Reload!ReadingInv'
  <2> DEFINE template == loaded[Yaml].template
  <2>1. template \in Templates /\ loaded[Yaml] \in Reload!Values /\ files[template] \in Reload!Values
    BY <1>2 DEF Reload!Values, Reload!TypeInv
  <2>2. CASE loaded' = Reload!Nothing
    BY <2>2 DEF Reload!ReadingInv, Reload!Nothing
  <2>3. CASE /\ files[template].valid
             /\ loaded' = [file \in {Yaml, template} |-> IF file = Yaml THEN loaded[Yaml] ELSE files[template]]
    <3>1. loaded' \in [{Yaml, template} -> Reload!Values] /\ loaded'[Yaml].template = template
      BY <2>1, <2>3
    <3>2. ASSUME NEW file \in DOMAIN loaded'
          PROVE  loaded'[file].valid /\ (~ overtaken' => loaded'[file] = files'[file])
      <4>1. CASE file = Yaml
        BY <1>1, <2>3, <4>1 DEF Reload!ReadingInv
      <4>2. CASE file # Yaml
        BY <1>1, <2>3, <4>2
      <4> QED BY <4>1, <4>2
    <3>3. Reload!IsWhole(loaded')
      BY <2>1, <3>1 DEF Reload!IsWhole
    <3> QED BY <3>2, <3>3 DEF Reload!ReadingInv, Reload!IsWhole
  <2> QED BY <2>2, <2>3 DEF Reload!LoadTemplate, Reload!IsValid
<1>5. Reload!FingerprintInv'
  <2>1. CASE fingerprint = {}
    BY <1>1, <2>1 DEF Reload!FingerprintInv
  <2>2. CASE fingerprint # {}
    BY <1>1, <1>2, <2>2 DEF Reload!FingerprintInv
  <2> QED BY <2>1, <2>2
<1> QED BY <1>1, <1>3, <1>4, <1>5 DEF Reload!IsWhole

LEMMA PublishHolds ==
  ASSUME Reload!ReloadInv, Reload!Publish
  PROVE  Reload!ReloadInv'
<1> USE DEF Reload!ReloadInv
<1>1. /\ DOMAIN loaded \notin {{}, {Yaml}} /\ inUse' = loaded /\ rules' = loaded /\ loaded' = Reload!Nothing
      /\ fingerprint' = Reload!FingerprintFor(loaded) /\ UNCHANGED <<files, overtaken>>
  BY DEF Reload!Publish
<1>2. Reload!IsWhole(loaded)
  BY <1>1 DEF Reload!ReadingInv, Reload!Nothing
<1>3. Reload!TypeInv'
  BY <1>1 DEF Reload!TypeInv
<1>4. Reload!ReadingInv'
  BY <1>1 DEF Reload!ReadingInv, Reload!Nothing
<1>5. Reload!FingerprintInv'
  <2> DEFINE seen == [file \in DOMAIN loaded |-> files[file].version]
  <2>1. seen \in [DOMAIN loaded -> Nat]
    BY <1>2, WholeIsWatched
  <2>2. fingerprint' = {<<file, seen[file]>> : file \in DOMAIN loaded}
    <3>1. fingerprint' = {<<file, files[file].version>> : file \in DOMAIN loaded}
      BY <1>1, <1>2, WholeIsWatched
    <3>2. {<<file, files[file].version>> : file \in DOMAIN loaded} = {<<file, seen[file]>> : file \in DOMAIN loaded}
      OBVIOUS
    <3> QED BY <3>1, <3>2
  <2>3. ASSUME NEW file \in DOMAIN loaded PROVE seen[file] <= files[file].version
    <3>1. files[file].version \in Nat
      BY <1>2, WholeIsWatched
    <3>2. seen[file] = files[file].version
      OBVIOUS
    <3> HIDE DEF seen
    <3> QED BY <3>1, <3>2
  <2>4. overtaken \/ \A file \in DOMAIN loaded : loaded[file] = files[file]
    BY DEF Reload!ReadingInv
  <2> HIDE DEF seen
  <2> QED BY <1>1, <2>1, <2>2, <2>3, <2>4 DEF Reload!FingerprintInv
<1>6. Reload!IsWhole(inUse)' /\ \A file \in DOMAIN inUse' : inUse'[file].valid
  BY <1>1, <1>2 DEF Reload!IsWhole, Reload!ReadingInv
<1> QED BY <1>1, <1>3, <1>4, <1>5, <1>6

LEMMA EditHolds ==
  ASSUME Reload!ReloadInv, NEW edited \in DOMAIN files, NEW valid \in BOOLEAN, NEW template \in Templates,
         Reload!Edit(edited, valid, template)
  PROVE  Reload!ReloadInv'
<1> USE DEF Reload!ReloadInv
<1> DEFINE value == [version |-> files[edited].version + 1, valid |-> valid, template |-> template]
<1>1. /\ files' = [files EXCEPT ![edited] = value] /\ overtaken' = (overtaken \/ edited \in DOMAIN loaded)
      /\ UNCHANGED <<inUse, rules, fingerprint, loaded>>
  BY DEF Reload!Edit
<1>2. /\ files \in [{Yaml} \cup Templates -> Reload!Values] /\ files[edited].version \in Nat
  BY DEF Reload!TypeInv, Reload!Values
<1>3. value \in Reload!Values /\ value.version = files[edited].version + 1
  BY <1>2 DEF Reload!Values
<1> HIDE DEF value
<1>4. /\ files' \in [{Yaml} \cup Templates -> Reload!Values]
      /\ files'[edited] = value /\ \A file \in {Yaml} \cup Templates : file # edited => files'[file] = files[file]
  BY <1>1, <1>2, <1>3
<1>5. Reload!TypeInv'
  BY <1>1, <1>4 DEF Reload!TypeInv
<1>6. /\ DOMAIN inUse \subseteq {Yaml} \cup Templates
      /\ \A file \in DOMAIN inUse : files[file].version \in Nat
  BY WholeIsWatched
<1>7. Reload!ReadingInv'
  <2>1. loaded = Reload!Nothing \/ loaded \in [{Yaml} -> Reload!Values] \/ Reload!IsWhole(loaded)
    BY DEF Reload!ReadingInv
  <2>2. DOMAIN loaded \subseteq {Yaml} \cup Templates
    BY <2>1, WholeIsWatched DEF Reload!Nothing
  <2>3. ASSUME NEW file \in DOMAIN loaded'
        PROVE  loaded'[file].valid /\ (~ overtaken' => loaded'[file] = files'[file])
    BY <1>1, <1>4, <2>2 DEF Reload!ReadingInv
  <2> QED BY <1>1, <2>1, <2>3 DEF Reload!ReadingInv, Reload!IsWhole
<1>8. Reload!FingerprintInv'
  <2>1. CASE fingerprint = {}
    BY <1>1, <2>1 DEF Reload!FingerprintInv
  <2>2. CASE fingerprint # {}
    <3>1. PICK seen \in [DOMAIN inUse -> Nat] :
            /\ fingerprint = {<<file, seen[file]>> : file \in DOMAIN inUse}
            /\ \A file \in DOMAIN inUse : seen[file] <= files[file].version
            /\ (\A file \in DOMAIN inUse : seen[file] = files[file].version) =>
                 loaded = Reload!Nothing /\ (overtaken \/ \A file \in DOMAIN inUse : inUse[file] = files[file])
      BY <2>2 DEF Reload!FingerprintInv
    <3>2. \A file \in DOMAIN inUse : seen[file] <= files'[file].version
      <4> SUFFICES ASSUME NEW file \in DOMAIN inUse PROVE seen[file] <= files'[file].version
        OBVIOUS
      <4>1. seen[file] <= files[file].version /\ seen[file] \in Nat /\ files[file].version \in Nat
        BY <1>6, <3>1
      <4>2. CASE file = edited
        BY <1>3, <1>4, <4>1, <4>2
      <4>3. CASE file # edited
        BY <1>4, <1>6, <4>1, <4>3
      <4> QED BY <4>2, <4>3
    <3>3. ASSUME \A file \in DOMAIN inUse : seen[file] = files'[file].version
          PROVE  loaded = Reload!Nothing /\ (overtaken \/ \A file \in DOMAIN inUse : inUse[file] = files'[file])
      <4>1. edited \notin DOMAIN inUse
        <5> SUFFICES ASSUME edited \in DOMAIN inUse PROVE FALSE
          OBVIOUS
        <5>1. seen[edited] = files[edited].version + 1 /\ seen[edited] <= files[edited].version
          BY <1>3, <1>4, <3>1, <3>3
        <5> QED BY <1>2, <5>1
      <4>2. \A file \in DOMAIN inUse : files'[file] = files[file]
        BY <1>4, <1>6, <4>1
      <4> QED BY <3>1, <3>3, <4>2
    <3>4. (\A file \in DOMAIN inUse : seen[file] = files'[file].version) =>
            loaded' = Reload!Nothing /\ (overtaken' \/ \A file \in DOMAIN inUse : inUse[file] = files'[file])
      BY <1>1, <3>3
    <3> QED BY <1>1, <3>1, <3>2, <3>4 DEF Reload!FingerprintInv
  <2> QED BY <2>1, <2>2
<1> QED BY <1>1, <1>5, <1>7, <1>8 DEF Reload!IsWhole

LEMMA ReloadNextHolds ==
  ASSUME Reload!ReloadInv, [Reload!Next]_(Reload!vars)
  PROVE  Reload!ReloadInv'
<1>1. CASE UNCHANGED Reload!vars
  <2>1. UNCHANGED <<files, inUse, rules, fingerprint, loaded, overtaken>>
    BY <1>1 DEF Reload!vars
  <2> QED BY <2>1 DEF Reload!ReloadInv, Reload!TypeInv, Reload!ReadingInv, Reload!FingerprintInv, Reload!IsWhole
<1>2. CASE Reload!Next
  BY <1>2, ChangedHolds, LoadTemplateHolds, PublishHolds, EditHolds DEF Reload!Next
<1> QED BY <1>1, <1>2

LEMMA ReloadSuffices ==
  ASSUME Reload!ReloadInv
  PROVE  Reload!EditsAreNoticed
<1>1. DOMAIN inUse = {Yaml, inUse[Yaml].template}
  BY WholeIsWatched DEF Reload!ReloadInv
<1>2. ASSUME loaded = Reload!Nothing, ~ overtaken, \E file \in DOMAIN inUse : inUse[file] # files[file]
      PROVE  Reload!FingerprintFor(inUse) # fingerprint
  BY <1>2, SameFingerprint
<1> QED BY <1>1, <1>2 DEF Reload!EditsAreNoticed, Reload!ReloadInv

-----------------------------------------------------------------------------
(* Balances *)

reads == v6
lastReads == v7
samples == v8
clock == v9
USE DEF reads, lastReads, samples, clock

NewestIn(good) ==
  IF good = {} THEN Quota!NoReading ELSE CHOOSE r \in good : \A s \in good : r.at >= s.at

\* Readings of bounded time have a newest, where there are any.
LEMMA NewestReadIsThere ==
  ASSUME NEW n \in Nat, NEW good, good # {}, \A r \in good : r.at \in Int /\ r.at <= n
  PROVE  NewestIn(good) \in good /\ \A s \in good : NewestIn(good).at >= s.at
<1> DEFINE T == {n - r.at : r \in good}
<1>1. T \in SUBSET Nat /\ T # {}
  OBVIOUS
<1>2. PICK least \in T : \A m \in T : <<m, least>> \notin OpToRel(<, Nat)
  <2> HIDE DEF T
  <2> QED BY <1>1, WFMin, NatLessThanWellFounded, Zenon
<1>3. \A m \in T : least <= m
  <2>1. \A m \in T : least \in Nat /\ m \in Nat
    BY <1>1
  <2>2. \A m \in T : ~ (m < least)
    BY <1>2, <2>1 DEF OpToRel
  <2> HIDE DEF T
  <2> QED BY <2>1, <2>2
<1>4. PICK r \in good : least = n - r.at
  OBVIOUS
<1>5. \A s \in good : n - s.at \in T
  OBVIOUS
<1>6. \A s \in good : least <= n - s.at
  BY <1>3, <1>5
<1>7. \A s \in good : s.at \in Int /\ r.at \in Int
  OBVIOUS
<1> HIDE DEF T
<1>8. \A s \in good : r.at >= s.at
  BY <1>4, <1>6, <1>7
<1> QED BY <1>8 DEF NewestIn

LEMMA NewestOfTheGood ==
  ASSUME NEW S
  PROVE  Quota!Newest(S) = NewestIn({r \in S : r.at > 0})
BY DEF Quota!Newest, NewestIn

\* Readings that are older than the good ones do not matter.
LEMMA OlderReadsDoNotMatter ==
  ASSUME NEW n \in Nat, NEW S, NEW T, \A r \in S \cup T : r.at \in Int /\ r.at <= n,
         \A s \in S : s.at > 0 => \A t \in T : t.at < s.at,
         \A s, u \in S : s.at > 0 /\ s.at = u.at => s = u,
         NEW read \in S, read.at > 0
  PROVE  Quota!Newest(S \cup T) = Quota!Newest(S) /\ Quota!Newest(S).at > 0
<1> DEFINE few == {r \in S : r.at > 0}
           all == {r \in S \cup T : r.at > 0}
           newestOfFew == NewestIn(few)
           newestOfAll == NewestIn(all)
<1>1. few # {} /\ all # {} /\ few \subseteq all /\ few \subseteq S
  OBVIOUS
<1>2. newestOfFew \in few /\ \A s \in few : newestOfFew.at >= s.at
  <2>1. \A r \in few : r.at \in Int /\ r.at <= n
    OBVIOUS
  <2> HIDE DEF few
  <2> QED BY <1>1, <2>1, NewestReadIsThere
<1>3. newestOfAll \in all /\ \A s \in all : newestOfAll.at >= s.at
  <2>1. \A r \in all : r.at \in Int /\ r.at <= n
    OBVIOUS
  <2> HIDE DEF all
  <2> QED BY <1>1, <2>1, NewestReadIsThere
<1>4. newestOfFew.at > 0 /\ newestOfFew \in S /\ newestOfFew.at \in Int
  BY <1>2
<1>5. newestOfAll.at >= newestOfFew.at /\ newestOfAll.at \in Int /\ newestOfAll \in S \cup T /\ newestOfAll.at > 0
  BY <1>1, <1>2, <1>3
<1> HIDE DEF newestOfFew, newestOfAll
<1>6. newestOfAll \in S
  BY <1>4, <1>5
<1>7. newestOfFew.at >= newestOfAll.at
  BY <1>2, <1>5, <1>6
<1>8. newestOfAll = newestOfFew
  BY <1>4, <1>5, <1>6, <1>7
<1> QED BY <1>4, <1>8, NewestOfTheGood DEF newestOfFew, newestOfAll

LEMMA CarriedIsNewest ==
  ASSUME Quota!QuotaInv, NEW w
  PROVE  Quota!Carried(w)
         = Quota!Newest({reads[a] : a \in Quota!Of(w)} \cup {lastReads[a] : a \in Quota!Of(w)})
<1> DEFINE S == {reads[a] : a \in Quota!Of(w)}
           T == {lastReads[a] : a \in Quota!Of(w)}
<1>1. \A r \in S \cup T : r.at \in Int /\ r.at <= clock
  BY DEF Quota!QuotaInv, Quota!TypeInv, Quota!ReadInv, Quota!Readings, Quota!Of
<1>2. /\ \A s \in S : s.at > 0 => \A t \in T : t.at < s.at
      /\ \A s, u \in S : s.at > 0 /\ s.at = u.at => s = u
  BY DEF Quota!QuotaInv, Quota!ReadInv, Quota!Of
<1>3. clock \in Nat
  BY DEF Quota!QuotaInv, Quota!TypeInv
<1>4. Quota!Sampled(w) = Quota!Newest(S)
  BY DEF Quota!Sampled
<1>5. Quota!Carried(w) = IF Quota!Newest(S) = Quota!NoReading THEN Quota!Newest(T) ELSE Quota!Newest(S)
  BY <1>4 DEF Quota!Carried
<1> HIDE DEF S, T
<1>6. CASE \E read \in S : read.at > 0
  <2>1. Quota!Newest(S \cup T) = Quota!Newest(S) /\ Quota!Newest(S).at > 0
    BY <1>1, <1>2, <1>3, <1>6, OlderReadsDoNotMatter
  <2>2. Quota!Newest(S) # Quota!NoReading
    BY <2>1 DEF Quota!NoReading
  <2> QED BY <1>5, <2>1, <2>2 DEF S, T
<1>7. CASE ~ \E read \in S : read.at > 0
  <2>1. {r \in S : r.at > 0} = {} /\ {r \in S \cup T : r.at > 0} = {r \in T : r.at > 0}
    BY <1>7
  <2>2. Quota!Newest(S) = Quota!NoReading
    BY <2>1, NewestOfTheGood DEF NewestIn
  <2>3. Quota!Newest(S \cup T) = Quota!Newest(T)
    BY <2>1, NewestOfTheGood
  <2> QED BY <1>5, <2>2, <2>3 DEF S, T
<1> QED BY <1>6, <1>7

LEMMA QuotaInitHolds == ASSUME Quota!Init PROVE Quota!QuotaInv
<1>1. samples = <<>>
  BY DEF Quota!Init
<1>2. Quota!TypeInv
  BY <1>1 DEF Quota!Init, Quota!TypeInv, Quota!Unread, Quota!NoReading, Quota!Readings
<1>3. Quota!ReadInv
  BY DEF Quota!Init, Quota!ReadInv, Quota!Unread, Quota!NoReading
<1>4. Quota!BalancesAreNewest
  BY <1>1 DEF Quota!BalancesAreNewest
<1> QED BY <1>2, <1>3, <1>4 DEF Quota!QuotaInv

\* Where nothing is read, counters and balances may change.
LEMMA NothingIsRead ==
  ASSUME Quota!QuotaInv, UNCHANGED <<v6, v7, v8, v9>>,
         v1' \in SUBSET Metered, v2' \in [Metered -> Int], v3' \in [Metered -> Int],
         v4' \in [Wallets -> Int], v5' \in [Wallets -> Int]
  PROVE  Quota!QuotaInv'
<1>1. Quota!TypeInv'
  BY DEF Quota!QuotaInv, Quota!TypeInv, Quota!Readings
<1>2. Quota!ReadInv'
  BY DEF Quota!QuotaInv, Quota!ReadInv
<1>3. Quota!BalancesAreNewest'
  BY DEF Quota!QuotaInv, Quota!BalancesAreNewest
<1> QED BY <1>1, <1>2, <1>3 DEF Quota!QuotaInv

LEMMA QuotaNextHolds ==
  ASSUME Quota!QuotaInv, [Quota!Next]_(Quota!quotaVars)
  PROVE  Quota!QuotaInv'
<1>1. CASE UNCHANGED Quota!quotaVars
  BY <1>1, NothingIsRead DEF Quota!quotaVars, Quota!QuotaInv, Quota!TypeInv
<1>2. ASSUME NEW a \in Metered, Quota!Produce(a) PROVE Quota!QuotaInv'
  <2>1. WalletOf[a] \in Wallets
    BY QuotaAssumption
  <2> QED BY <1>2, <2>1, NothingIsRead DEF Quota!Produce, Quota!QuotaInv, Quota!TypeInv
<1>3. ASSUME NEW a \in Metered, Quota!AccountChanges(a) PROVE Quota!QuotaInv'
  <2>1. v1' \in SUBSET Metered /\ v2' \in [Metered -> Int]
    BY <1>3 DEF Quota!AccountChanges, Quota!QuotaInv, Quota!TypeInv
  <2> QED BY <1>3, <2>1, NothingIsRead DEF Quota!AccountChanges, Quota!QuotaInv, Quota!TypeInv
<1>4. ASSUME NEW a \in Metered, Quota!ReadAccount(a) PROVE Quota!QuotaInv'
  <2>1. clock \in Nat /\ clock' = clock + 1 /\ UNCHANGED <<v1, v2, v3, v4, v5, lastReads, samples>>
    BY <1>4 DEF Quota!ReadAccount, Quota!QuotaInv, Quota!TypeInv
  <2>2. PICK r \in Quota!Readings : reads' = [reads EXCEPT ![a] = r] /\ (r.at = clock' \/ r.at = 0)
    <3>1. WalletOf[a] \in Wallets
      BY QuotaAssumption
    <3> QED BY <1>4, <2>1, <3>1 DEF Quota!ReadAccount, Quota!NoReading, Quota!Readings, Quota!QuotaInv, Quota!TypeInv
  <2>3. Quota!TypeInv'
    BY <2>1, <2>2 DEF Quota!QuotaInv, Quota!TypeInv, Quota!Readings
  <2>4. Quota!ReadInv'
    <3>1. /\ \A b \in Metered : reads[b].at \in Int /\ lastReads[b].at \in Int
          /\ r.at \in Int /\ reads \in [Metered -> Quota!Readings]
      BY DEF Quota!QuotaInv, Quota!TypeInv, Quota!Readings
    <3>2. reads'[a] = r /\ \A b \in Metered \ {a} : reads'[b] = reads[b]
      BY <2>2, <3>1
    <3>3. ASSUME NEW b \in Metered
          PROVE  /\ reads[b].at <= clock /\ lastReads[b].at <= clock
                 /\ reads[b].at > 0 => \A c \in Metered :
                      /\ lastReads[c].at < reads[b].at
                      /\ reads[c].at = reads[b].at => reads[c] = reads[b]
      BY DEF Quota!QuotaInv, Quota!ReadInv
    <3>4. ASSUME NEW b \in Metered
          PROVE  /\ reads'[b].at <= clock' /\ lastReads'[b].at <= clock'
                 /\ reads'[b].at > 0 => \A c \in Metered :
                      /\ lastReads'[c].at < reads'[b].at
                      /\ reads'[c].at = reads'[b].at => reads'[c] = reads'[b]
      <4>1. reads'[b].at <= clock' /\ lastReads'[b].at <= clock'
        BY <2>1, <2>2, <3>1, <3>2, <3>3
      <4>2. ASSUME reads'[b].at > 0, NEW c \in Metered
            PROVE  /\ lastReads'[c].at < reads'[b].at
                   /\ reads'[c].at = reads'[b].at => reads'[c] = reads'[b]
        <5>1. lastReads[c].at <= clock /\ reads[c].at <= clock /\ reads[b].at <= clock
          BY <3>3
        <5>2. CASE b = a
          BY <2>1, <2>2, <3>1, <3>2, <4>2, <5>1, <5>2
        <5>3. CASE b # a /\ c = a
          BY <2>1, <2>2, <3>1, <3>2, <3>3, <4>2, <5>1, <5>3
        <5>4. CASE b # a /\ c # a
          BY <2>1, <3>1, <3>2, <3>3, <4>2, <5>4
        <5> QED BY <5>2, <5>3, <5>4
      <4> QED BY <4>1, <4>2
    <3> QED BY <3>4 DEF Quota!ReadInv
  <2>5. Quota!BalancesAreNewest'
    BY <2>1 DEF Quota!QuotaInv, Quota!BalancesAreNewest
  <2> QED BY <2>3, <2>4, <2>5 DEF Quota!QuotaInv
<1>5. ASSUME NEW w \in Wallets, Quota!Recharge(w) PROVE Quota!QuotaInv'
  BY <1>5, NothingIsRead DEF Quota!Recharge, Quota!QuotaInv, Quota!TypeInv
<1>6. CASE Quota!Record
  <2>1. /\ UNCHANGED <<v1, v2, v3, v4, v5, clock>>
        /\ lastReads' = [a \in Metered |-> IF reads[a].at > 0 THEN reads[a] ELSE lastReads[a]]
        /\ reads' = [a \in Metered |-> Quota!Unread]
    BY <1>6 DEF Quota!Record, Quota!Cached
  <2>2. PICK sample :
          /\ samples' = Append(samples, sample)
          /\ sample.wallets = [w \in {WalletOf[a] : a \in v1} |-> Quota!Carried(w)]
          /\ sample.newest = [w \in Wallets |-> Quota!Newest({reads[a] : a \in Quota!Of(w)}
                                                             \cup {lastReads[a] : a \in Quota!Of(w)})]
    <3> DEFINE Sample(silent) ==
                 [output |-> [a \in v1 |-> IF a \in silent THEN 0 ELSE v2[a]],
                  wallets |-> [w \in {WalletOf[a] : a \in v1} |-> Quota!Carried(w)],
                  newest |-> [w \in Wallets |-> Quota!Newest({reads[a] : a \in Quota!Of(w)}
                                                             \cup {lastReads[a] : a \in Quota!Of(w)})],
                  produced |-> v3]
    <3>1. PICK silent \in SUBSET v1 : samples' = Append(samples, Sample(silent))
      BY <1>6 DEF Quota!Record
    <3>2. /\ Sample(silent).wallets = [w \in {WalletOf[a] : a \in v1} |-> Quota!Carried(w)]
          /\ Sample(silent).newest = [w \in Wallets |-> Quota!Newest({reads[a] : a \in Quota!Of(w)}
                                                                     \cup {lastReads[a] : a \in Quota!Of(w)})]
      OBVIOUS
    <3> HIDE DEF Sample
    <3> WITNESS Sample(silent)
    <3> QED BY <3>1, <3>2
  <2>3. \A w \in DOMAIN sample.wallets : sample.wallets[w] = sample.newest[w]
    <3>1. \A a \in v1 : WalletOf[a] \in Wallets
      BY QuotaAssumption DEF Quota!QuotaInv, Quota!TypeInv
    <3> QED BY <2>2, <3>1, CarriedIsNewest
  <2>4. /\ samples' \in Seq({samples'[i] : i \in DOMAIN samples'})
        /\ \A i \in DOMAIN samples' : samples'[i] = sample \/ (i \in DOMAIN samples /\ samples'[i] = samples[i])
    <3> DEFINE S == {samples[i] : i \in DOMAIN samples} \cup {sample}
    <3>1. samples \in Seq(S) /\ sample \in S
      BY DEF Quota!QuotaInv, Quota!TypeInv
    <3> HIDE DEF S
    <3>2. /\ samples' \in Seq(S) /\ Len(samples') = Len(samples) + 1 /\ Len(samples) \in Nat
          /\ \A i \in 1 .. Len(samples) : samples'[i] = samples[i]
          /\ samples'[Len(samples) + 1] = sample
          /\ DOMAIN samples = 1 .. Len(samples) /\ DOMAIN samples' = 1 .. Len(samples')
      BY <2>2, <3>1, AppendProperties
    <3>3. samples' \in Seq({samples'[i] : i \in DOMAIN samples'})
      BY <3>2
    <3> QED BY <3>2, <3>3
  <2>5. Quota!TypeInv'
    BY <2>1, <2>4 DEF Quota!QuotaInv, Quota!TypeInv, Quota!Readings, Quota!Unread, Quota!NoReading
  <2>6. Quota!ReadInv'
    BY <2>1 DEF Quota!QuotaInv, Quota!ReadInv, Quota!TypeInv, Quota!Unread, Quota!NoReading
  <2>7. Quota!BalancesAreNewest'
    BY <2>3, <2>4 DEF Quota!QuotaInv, Quota!BalancesAreNewest
  <2> QED BY <2>5, <2>6, <2>7 DEF Quota!QuotaInv
<1> QED BY <1>1, <1>2, <1>3, <1>4, <1>5, <1>6 DEF Quota!Next

-----------------------------------------------------------------------------
(* What a probe hears *)

\* A sequence and one more value.
LEMMA OneMoreToken ==
  ASSUME NEW n \in Nat, NEW S, NEW c \in S, NEW q \in Seq(S), NEW t \in Seq(S),
         Len(q) = n, Len(t) = n + 1, \A i \in 1 .. n : t[i] = q[i], t[n + 1] = c
  PROVE  q \o <<c>> = t
<1>1. <<c>> \in Seq(S) /\ Len(<<c>>) = 1 /\ <<c>>[1] = c
  OBVIOUS
<1>2. /\ q \o <<c>> \in Seq(S) /\ Len(q \o <<c>>) = n + 1
      /\ \A i \in 1 .. n + 1 : (q \o <<c>>)[i] = IF i <= n THEN q[i] ELSE <<c>>[i - n]
  BY <1>1, ConcatProperties
<1>3. ASSUME NEW i \in 1 .. n + 1 PROVE (q \o <<c>>)[i] = t[i]
  <2>1. CASE i <= n
    BY <1>2, <2>1
  <2>2. CASE i = n + 1
    BY <1>1, <1>2, <2>2
  <2> QED BY <2>1, <2>2
<1> QED BY <1>2, <1>3, SeqEqual

\* What an upstream has sent of its answer, a token more, and all of it.
LEMMA TokensAreSent ==
  ASSUME NEW m \in Seq(STRING), NEW n \in 0 .. Len(m)
  PROVE  /\ SubSeq(m, 1, n) \in Seq(STRING) /\ Len(SubSeq(m, 1, n)) = n
         /\ n < Len(m) => SubSeq(m, 1, n) \o <<m[n + 1]>> = SubSeq(m, 1, n + 1)
         /\ n = 0 => SubSeq(m, 1, n) = <<>>
         /\ n = Len(m) => SubSeq(m, 1, n) = m
<1>1. /\ SubSeq(m, 1, n) \in Seq(STRING) /\ Len(SubSeq(m, 1, n)) = n
      /\ \A i \in 1 .. n : SubSeq(m, 1, n)[i] = m[i]
  BY SubSeqProperties
<1>2. ASSUME n < Len(m) PROVE SubSeq(m, 1, n) \o <<m[n + 1]>> = SubSeq(m, 1, n + 1)
  <2> DEFINE q == SubSeq(m, 1, n)
             t == SubSeq(m, 1, n + 1)
  <2>1. n \in Nat /\ m[n + 1] \in STRING
    BY <1>2
  <2>2. q \in Seq(STRING) /\ Len(q) = n /\ \A i \in 1 .. n : q[i] = m[i]
    BY <1>1
  <2>3. t \in Seq(STRING) /\ Len(t) = n + 1 /\ \A i \in 1 .. n + 1 : t[i] = m[i]
    BY <1>2, SubSeqProperties
  <2> HIDE DEF q, t
  <2> QED BY <2>1, <2>2, <2>3, OneMoreToken DEF q, t
<1>3. ASSUME n = 0 PROVE SubSeq(m, 1, n) = <<>>
  <2> DEFINE s == SubSeq(m, 1, n)
  <2>1. s \in Seq(STRING) /\ Len(s) = 0
    BY <1>1, <1>3
  <2> HIDE DEF s
  <2>2. s = <<>>
    BY <2>1, EmptySeq
  <2> QED BY <2>2 DEF s
<1>4. ASSUME n = Len(m) PROVE SubSeq(m, 1, n) = m
  BY <1>1, <1>4, SeqEqual
<1> QED BY <1>1, <1>2, <1>3, <1>4

meant == v2
said == v3
upstream == v4
doneFailing == v5
heard == v6
verdict == v8
USE DEF meant, said, upstream, doneFailing, heard, verdict

Heard(n) == [text : {SubSeq(meant, 1, n)}, terminal : {"none", "completed", "incomplete", "failed"},
             finish : {"none", "stop", "length"}, refused : BOOLEAN]

\* What the fold makes of an event with a token, with a whole text or with neither.
LEMMA EventIsHeard ==
  ASSUME Stream!StreamInv, NEW n \in 0 .. Len(meant),
         NEW event, event.finish \in {"none", "stop", "length"}, event.refused \in BOOLEAN,
         event.terminal \in {"none", "completed", "incomplete", "failed"},
         heard' = Stream!Consume(event), UNCHANGED meant, said' = n,
         \/ event.delta = <<>> /\ event.whole \in {<<>>, SubSeq(meant, 1, n)} /\ said \in {0, n}
            /\ (said # n => event.whole = SubSeq(meant, 1, n))
         \/ said + 1 = n /\ event.delta = <<meant[n]>>
         \/ said = 0 /\ event.delta = SubSeq(meant, 1, n) /\ event.whole = <<>>
  PROVE  /\ heard' \in Heard(n)
         /\ heard'.terminal = IF event.terminal = "none" THEN heard.terminal ELSE event.terminal
         /\ heard'.finish = IF event.finish = "none" THEN heard.finish ELSE event.finish
<1> DEFINE text == Stream!Appends(heard.text, event)
           sent == SubSeq(meant, 1, n)
<1>1. meant \in Seq(STRING) /\ said \in 0 .. Len(meant)
  BY AnswersAssumption DEF Stream!StreamInv
<1>2. /\ heard.text = SubSeq(meant, 1, said) /\ heard.terminal \in {"none", "completed", "incomplete", "failed"}
      /\ heard.finish \in {"none", "stop", "length"} /\ heard.refused \in BOOLEAN
  BY DEF Stream!StreamInv, Stream!Sent
<1>3. text = sent
  <2>1. \A s \in Seq(STRING) : s \o <<>> = s /\ <<>> \o s = s
    BY ConcatEmptySeq
  <2>2. sent \in Seq(STRING) /\ Len(sent) = n /\ heard.text \in Seq(STRING) /\ (said = 0 => heard.text = <<>>)
    BY <1>1, <1>2, TokensAreSent
  <2>3. CASE event.delta = <<>> /\ event.whole \in {<<>>, sent} /\ said \in {0, n}
             /\ (said # n => event.whole = sent)
    <3>1. heard.text \o event.delta = heard.text
      BY <2>1, <2>2, <2>3
    <3>2. said = n => heard.text = sent
      BY <1>2
    <3> HIDE DEF sent
    <3> QED BY <2>2, <2>3, <3>1, <3>2 DEF Stream!Appends
  <2>4. CASE said + 1 = n /\ event.delta = <<meant[n]>>
    <3>1. heard.text \o event.delta = sent
      BY <1>1, <1>2, <2>4, TokensAreSent
    <3>2. sent # <<>>
      BY <1>1, <2>2, <2>4, EmptySeq
    <3> HIDE DEF sent
    <3> QED BY <3>1, <3>2 DEF Stream!Appends
  <2>5. CASE said = 0 /\ event.delta = sent /\ event.whole = <<>>
    <3>1. heard.text \o event.delta = sent
      BY <2>1, <2>2, <2>5
    <3> HIDE DEF sent
    <3> QED BY <2>5, <3>1 DEF Stream!Appends
  <2> QED BY <2>3, <2>4, <2>5
<1> HIDE DEF text
<1>4. heard' = [text |-> text,
                finish |-> IF event.finish = "none" THEN heard.finish ELSE event.finish,
                refused |-> heard.refused \/ event.refused,
                terminal |-> IF event.terminal = "none" THEN heard.terminal ELSE event.terminal]
  BY DEF Stream!Consume, text
<1> QED BY <1>2, <1>3, <1>4 DEF Heard

LEMMA StreamInitHolds == ASSUME Stream!Init PROVE Stream!StreamInv
<1>1. meant \in Seq(STRING) /\ said = 0 /\ heard.text = <<>>
  BY AnswersAssumption DEF Stream!Init, Stream!Silence
<1>2. said \in 0 .. Len(meant) /\ SubSeq(meant, 1, said) = <<>>
  BY <1>1, TokensAreSent
<1> QED BY <1>1, <1>2 DEF Stream!Init, Stream!Silence, Stream!NoVerdict, Stream!StreamInv, Stream!EndInv,
                     Stream!QualityMeansTheSum, Stream!Over, Stream!Sent

\* The upstream sends an event while it answers.
LEMMA StreamGoesOn ==
  ASSUME Stream!StreamInv, upstream = "answers", UNCHANGED <<meant, doneFailing, verdict>>,
         said' \in 0 .. Len(meant), heard' \in Heard(said'),
         upstream' \in {"answers", "done", "failed"},
         upstream' = "answers" => heard'.terminal = "none" /\ heard'.finish = "none",
         upstream' = "done" =>
           said' = Len(meant) \/ heard'.finish = "length" \/ heard'.terminal = "incomplete",
         upstream' = "failed" => heard'.terminal # "completed"
  PROVE  Stream!StreamInv'
<1>1. verdict = Stream!NoVerdict
  BY DEF Stream!StreamInv, Stream!EndInv, Stream!Over
<1>2. Stream!EndInv'
  BY <1>1 DEF Stream!StreamInv, Stream!EndInv, Stream!Over, Stream!Whole, Stream!NoVerdict
<1>3. Stream!QualityMeansTheSum'
  BY <1>1 DEF Stream!QualityMeansTheSum, Stream!NoVerdict, Stream!Over
<1> QED BY <1>2, <1>3 DEF Stream!StreamInv, Stream!Sent, Heard

LEMMA StreamNextHolds ==
  ASSUME Stream!StreamInv, [Stream!Next]_(Stream!streamVars)
  PROVE  Stream!StreamInv'
<1> DEFINE all == Len(meant)
           Terminals == {"none", "completed", "incomplete", "failed"}
           Known(e) == /\ e.finish \in {"none", "stop", "length"} /\ e.refused \in BOOLEAN
                       /\ e.terminal \in Terminals
<1>1. /\ meant \in Seq(STRING) /\ said \in 0 .. all /\ all \in Nat
      /\ SubSeq(meant, 1, all) = meant /\ SubSeq(meant, 1, said) \in Seq(STRING) /\ SubSeq(meant, 1, 0) = <<>>
  BY AnswersAssumption, TokensAreSent DEF Stream!StreamInv
<1>2. upstream = "answers" => heard.terminal = "none" /\ heard.finish = "none"
  BY DEF Stream!StreamInv, Stream!EndInv
<1>3. CASE UNCHANGED Stream!streamVars
  BY <1>3 DEF Stream!streamVars, Stream!StreamInv, Stream!EndInv, Stream!QualityMeansTheSum, Stream!Over,
              Stream!Sent, Stream!Whole
<1>4. CASE Stream!Delta
  <2> DEFINE event == [Stream!Event EXCEPT !.delta = <<meant[said + 1]>>]
  <2>1. said + 1 \in 1 .. all /\ meant[said + 1] \in STRING
    BY <1>1, <1>4 DEF Stream!Delta, Stream!Whole
  <2>2. Known(event) /\ event.delta = <<meant[said + 1]>> /\ event.terminal = "none" /\ event.finish = "none"
    BY <2>1 DEF Stream!Event
  <2> HIDE DEF event
  <2>3. heard' = Stream!Consume(event) /\ said' = said + 1 /\ upstream = "answers"
        /\ UNCHANGED <<meant, doneFailing, verdict, upstream>>
    BY <1>4 DEF Stream!Delta, Stream!Keeps, event
  <2>4. heard' \in Heard(said') /\ heard'.terminal = "none" /\ heard'.finish = "none"
    BY <1>1, <1>2, <2>1, <2>2, <2>3, EventIsHeard
  <2> QED BY <2>1, <2>3, <2>4, StreamGoesOn
<1>5. CASE Stream!TextDone
  <2> DEFINE event == [Stream!Event EXCEPT !.whole = meant]
  <2>1. Known(event) /\ event.delta = <<>> /\ event.whole = meant /\ event.terminal = "none" /\ event.finish = "none"
    BY <1>1 DEF Stream!Event
  <2> HIDE DEF event
  <2>2. heard' = Stream!Consume(event) /\ said' = all /\ upstream = "answers" /\ said \in {0, all}
        /\ UNCHANGED <<meant, doneFailing, verdict, upstream>>
    BY <1>5 DEF Stream!TextDone, Stream!Keeps, Stream!Whole, event
  <2>3. heard' \in Heard(said') /\ heard'.terminal = "none" /\ heard'.finish = "none"
    <3>1. all \in 0 .. Len(meant) /\ event.whole = SubSeq(meant, 1, all)
      BY <1>1, <2>1
    <3>2. heard' \in Heard(all) /\ heard'.terminal = heard.terminal /\ heard'.finish = heard.finish
      BY <2>1, <2>2, <3>1, EventIsHeard
    <3> QED BY <1>2, <2>2, <3>2
  <2>4. all \in 0 .. Len(meant)
    BY <1>1
  <2> QED BY <2>2, <2>3, <2>4, StreamGoesOn
<1>6. CASE Stream!Completed
  <2>1. PICK whole \in {meant, <<>>} :
          /\ whole = <<>> => said = all
          /\ whole # <<>> => said \in {0, all}
          /\ said' = all
          /\ heard' = Stream!Consume([Stream!Event EXCEPT !.whole = whole, !.terminal = "completed"])
    BY <1>6 DEF Stream!Completed, Stream!Whole
  <2> DEFINE event == [Stream!Event EXCEPT !.whole = whole, !.terminal = "completed"]
  <2>2. Known(event) /\ event.delta = <<>> /\ event.whole = whole /\ event.terminal = "completed"
    BY <1>1 DEF Stream!Event
  <2> HIDE DEF event
  <2>3. heard' = Stream!Consume(event) /\ upstream = "answers" /\ upstream' = "done"
        /\ UNCHANGED <<meant, doneFailing, verdict>>
    BY <1>6, <2>1 DEF Stream!Completed, Stream!Keeps, event
  <2>4. heard' \in Heard(said')
    BY <1>1, <2>1, <2>2, <2>3, EventIsHeard
  <2> QED BY <1>1, <2>1, <2>3, <2>4, StreamGoesOn
<1>7. CASE Stream!CutOff
  <2>1. upstream = "answers" /\ upstream' = "done" /\ UNCHANGED <<meant, doneFailing, verdict, said>>
    BY <1>7 DEF Stream!CutOff, Stream!Keeps
  <2>2. PICK event :
          /\ Known(event)
          /\ heard' = Stream!Consume(event)
          /\ event.delta = <<>> /\ event.whole \in {<<>>, SubSeq(meant, 1, said)}
          /\ event.terminal = "incomplete" \/ event.finish = "length"
    <3> DEFINE incomplete == [Stream!Event EXCEPT !.whole = Stream!Sent, !.terminal = "incomplete"]
               long == [Stream!Event EXCEPT !.finish = "length"]
    <3>1. /\ Known(incomplete) /\ incomplete.delta = <<>> /\ incomplete.whole = SubSeq(meant, 1, said)
          /\ incomplete.terminal = "incomplete"
      BY <1>1 DEF Stream!Event, Stream!Sent
    <3>2. Known(long) /\ long.delta = <<>> /\ long.whole = <<>> /\ long.finish = "length"
      BY DEF Stream!Event
    <3>3. heard' = Stream!Consume(incomplete) \/ heard' = Stream!Consume(long)
      BY <1>7 DEF Stream!CutOff
    <3> HIDE DEF incomplete, long
    <3> QED BY <3>1, <3>2, <3>3
  <2>3. /\ heard' \in Heard(said')
        /\ heard'.finish = "length" \/ heard'.terminal = "incomplete"
    BY <1>1, <2>1, <2>2, EventIsHeard
  <2> QED BY <1>1, <2>1, <2>3, StreamGoesOn
<1>8. CASE Stream!Finish
  <2>1. upstream = "answers" /\ upstream' = "done" /\ said' = all /\ UNCHANGED <<meant, doneFailing, verdict>>
    BY <1>8 DEF Stream!Finish, Stream!Keeps
  <2>2. PICK event :
          /\ Known(event)
          /\ heard' = Stream!Consume(event) /\ event.whole = <<>>
          /\ (event.delta = <<>> /\ said = all) \/ (said = 0 /\ event.delta = meant)
    <3> DEFINE stop == [Stream!Event EXCEPT !.finish = "stop"]
               message == [Stream!Event EXCEPT !.delta = meant, !.finish = "stop", !.terminal = "completed"]
    <3>1. Known(stop) /\ stop.delta = <<>> /\ stop.whole = <<>>
      BY DEF Stream!Event
    <3>2. Known(message) /\ message.delta = meant /\ message.whole = <<>>
      BY <1>1 DEF Stream!Event
    <3>3. (said = all /\ heard' = Stream!Consume(stop)) \/ (said = 0 /\ heard' = Stream!Consume(message))
      BY <1>8 DEF Stream!Finish, Stream!Whole
    <3> HIDE DEF stop, message
    <3> QED BY <3>1, <3>2, <3>3
  <2>3. heard' \in Heard(said')
    <3>1. all \in 0 .. Len(meant) /\ meant = SubSeq(meant, 1, all)
      BY <1>1
    <3> QED BY <2>1, <2>2, <3>1, EventIsHeard
  <2> QED BY <1>1, <2>1, <2>3, StreamGoesOn
<1>9. CASE Stream!Refuse
  <2> DEFINE event == [Stream!Event EXCEPT !.refused = TRUE]
  <2>1. Known(event) /\ event.delta = <<>> /\ event.whole = <<>> /\ event.terminal = "none" /\ event.finish = "none"
    BY DEF Stream!Event
  <2> HIDE DEF event
  <2>2. heard' = Stream!Consume(event) /\ upstream = "answers"
        /\ UNCHANGED <<meant, doneFailing, verdict, upstream, said>>
    BY <1>9 DEF Stream!Refuse, Stream!Keeps, event
  <2>3. heard' \in Heard(said') /\ heard'.terminal = "none" /\ heard'.finish = "none"
    BY <1>1, <1>2, <2>1, <2>2, EventIsHeard
  <2> QED BY <1>1, <2>2, <2>3, StreamGoesOn
<1>10. CASE Stream!UpstreamFails
  <2>1. upstream = "answers" /\ upstream' = "failed" /\ UNCHANGED <<meant, doneFailing, verdict, said>>
    BY <1>10 DEF Stream!UpstreamFails, Stream!Keeps
  <2>2. PICK event :
          /\ Known(event)
          /\ heard' = Stream!Consume(event)
          /\ event.delta = <<>> /\ event.whole = <<>> /\ event.terminal \in {"failed", "none"}
    <3> DEFINE failed == [Stream!Event EXCEPT !.terminal = "failed"]
    <3>1. Known(failed) /\ failed.delta = <<>> /\ failed.whole = <<>> /\ failed.terminal = "failed"
      BY DEF Stream!Event
    <3>2. /\ Known(Stream!Event) /\ Stream!Event.delta = <<>> /\ Stream!Event.whole = <<>>
          /\ Stream!Event.terminal = "none"
      BY DEF Stream!Event
    <3>3. heard' = Stream!Consume(failed) \/ heard' = Stream!Consume(Stream!Event)
      BY <1>10 DEF Stream!UpstreamFails
    <3> HIDE DEF failed
    <3> QED BY <3>1, <3>2, <3>3
  <2>3. heard' \in Heard(said') /\ heard'.terminal # "completed"
    BY <1>1, <1>2, <2>1, <2>2, EventIsHeard
  <2> QED BY <1>1, <2>1, <2>3, StreamGoesOn
<1>11. CASE Stream!Done
  <2>1. /\ upstream \in {"done", "failed"} /\ heard' = [heard EXCEPT !.terminal = "completed"]
        /\ doneFailing' = (doneFailing \/ upstream = "failed" \/ heard.terminal = "incomplete")
        /\ UNCHANGED <<meant, said, upstream, verdict>>
    BY <1>11 DEF Stream!Done
  <2>2. verdict = Stream!NoVerdict
    BY <2>1 DEF Stream!StreamInv, Stream!EndInv, Stream!Over
  <2>3. heard' \in Heard(said) /\ heard'.finish = heard.finish /\ heard'.terminal = "completed"
    BY <2>1 DEF Stream!StreamInv, Stream!Sent, Heard
  <2>4. Stream!EndInv'
    BY <2>1, <2>2, <2>3 DEF Stream!StreamInv, Stream!EndInv, Stream!Over, Stream!Whole, Stream!NoVerdict
  <2>5. Stream!QualityMeansTheSum'
    BY <2>1, <2>2 DEF Stream!QualityMeansTheSum, Stream!NoVerdict, Stream!Over
  <2> QED BY <2>1, <2>3, <2>4, <2>5 DEF Stream!StreamInv, Stream!Sent, Heard
<1>12. CASE Stream!StreamEnds
  <2>1. /\ upstream # "over" /\ upstream' = "over" /\ UNCHANGED <<meant, said, doneFailing, heard>>
        /\ verdict'.answer = IF Stream!Classification = "alive" THEN Stream!AnswerClassification ELSE "not_assessed"
        /\ verdict'.quality => Stream!AnswerClassification = "correct"
    BY <1>12 DEF Stream!StreamEnds, Stream!Over
  <2>2. ASSUME Stream!AnswerClassification \in {"correct", "wrong_number", "format_invalid", "empty"}
        PROVE  heard.finish # "length" /\ heard.terminal \notin {"incomplete", "none", "failed"}
    BY <2>2 DEF Stream!AnswerClassification
  <2>3. Stream!AnswerClassification = "correct" => Stream!Trimmed(heard.text) = Expected
    BY DEF Stream!AnswerClassification, Stream!Parsed
  <2>4. said = all => heard.text = meant
    BY <1>1 DEF Stream!StreamInv, Stream!Sent
  <2>5. verdict'.quality => said = all \/ doneFailing
    BY <1>2, <2>1, <2>2 DEF Stream!StreamInv, Stream!EndInv, Stream!Over, Stream!Whole
  <2>6. Stream!QualityMeansTheSum'
    <3>1. verdict'.quality => Stream!Trimmed(meant') = Expected \/ doneFailing'
      BY <2>1, <2>3, <2>4, <2>5
    <3>2. said' = Len(meant') => heard'.text = meant'
      BY <2>1, <2>4
    <3> QED BY <3>1, <3>2 DEF Stream!QualityMeansTheSum, Stream!Whole, Stream!Trimmed
  <2>7. Stream!EndInv'
    BY <2>1 DEF Stream!EndInv, Stream!Over
  <2> QED BY <2>1, <2>6, <2>7 DEF Stream!StreamInv, Stream!Sent
<1>13. CASE Stream!StreamBreaks
  <2>1. /\ upstream' = "over" /\ UNCHANGED <<meant, said, doneFailing, heard>>
        /\ verdict'.answer = "not_assessed" /\ verdict'.quality = FALSE
    BY <1>13 DEF Stream!StreamBreaks
  <2>2. Stream!QualityMeansTheSum' /\ Stream!EndInv'
    BY <2>1 DEF Stream!QualityMeansTheSum, Stream!EndInv, Stream!Over
  <2> QED BY <2>1, <2>2 DEF Stream!StreamInv, Stream!Sent
<1> QED BY <1>3, <1>4, <1>5, <1>6, <1>7, <1>8, <1>9, <1>10, <1>11, <1>12, <1>13 DEF Stream!Next

-----------------------------------------------------------------------------
(* Scheduling page *)

inView == v1
latest == v2
asking == v3
probing == v4
onPage == v5
history == v6
pageState == v7
refreshButton == v8
refreshTimer == v9
interval == v10
USE DEF inView, latest, asking, probing, onPage, history, pageState, refreshButton, refreshTimer, interval

LEMMA SchedulingInitHolds == ASSUME Scheduling!Init PROVE Scheduling!SchedulingInv
BY DEF Scheduling!Init, Scheduling!SchedulingInv, Scheduling!TypeInv, Scheduling!RequestInv,
       Scheduling!ShowsTheScopeInView, Scheduling!RefreshGoesOn

\* A new request is the latest one, and the page waits for it.
LEMMA LoadScopeHolds ==
  ASSUME Scheduling!SchedulingInv, NEW scope \in Scopes \cup {Off}, Scheduling!LoadScope(scope),
         inView' = scope, UNCHANGED interval
  PROVE  Scheduling!SchedulingInv'
<1> USE DEF Scheduling!SchedulingInv
<1> DEFINE asked == [id |-> latest + 1, scope |-> scope]
<1>1. /\ latest' = latest + 1 /\ asking' = asking \cup {asked}
      /\ refreshTimer' = FALSE /\ refreshButton' = FALSE /\ pageState' = "refreshing"
  BY DEF Scheduling!LoadScope, Scheduling!ClearAutoRefresh
<1>2. Scheduling!TypeInv'
  <2>1. asked \in [id : Nat, scope : Scopes \cup {Off}]
    BY DEF Scheduling!TypeInv
  <2> HIDE DEF asked
  <2>2. asking' \subseteq [id : Nat, scope : Scopes \cup {Off}]
    BY <1>1, <2>1 DEF Scheduling!TypeInv
  <2>3. latest' \in Nat /\ inView' \in Scopes \cup {Off}
    BY <1>1 DEF Scheduling!TypeInv
  <2>4. interval' \in BOOLEAN /\ refreshTimer' \in BOOLEAN /\ refreshButton' \in BOOLEAN
    BY <1>1 DEF Scheduling!TypeInv
  <2> QED BY <2>2, <2>3, <2>4 DEF Scheduling!TypeInv
<1>3. \A q \in asking : q.id \in Nat /\ q.id <= latest /\ latest \in Nat
  BY DEF Scheduling!TypeInv, Scheduling!RequestInv
<1>4. asked.id = latest + 1 /\ asked.scope = scope
  OBVIOUS
<1> HIDE DEF asked
<1>5. Scheduling!RequestInv'
  BY <1>1, <1>3, <1>4 DEF Scheduling!RequestInv
<1>6. Scheduling!ShowsTheScopeInView' /\ Scheduling!RefreshGoesOn'
  BY <1>1, <1>4 DEF Scheduling!ShowsTheScopeInView, Scheduling!RefreshGoesOn
<1> QED BY <1>2, <1>5, <1>6

LEMMA SchedulingAnswerHolds ==
  ASSUME Scheduling!SchedulingInv, NEW asked \in asking, NEW ok \in BOOLEAN, Scheduling!Answer(asked, ok)
  PROVE  Scheduling!SchedulingInv'
<1> USE DEF Scheduling!SchedulingInv
<1>1. asking' = asking \ {asked} /\ UNCHANGED <<inView, latest, probing, interval>>
  BY DEF Scheduling!Answer
<1>2. asked.id = latest => asked.scope = inView
  BY DEF Scheduling!RequestInv
<1>3. CASE Scheduling!Current(asked)
  <2>1. /\ refreshButton' = TRUE /\ refreshTimer' = (inView # Off /\ interval)
        /\ \/ onPage' = asked /\ history' = [scope |-> asked.scope, page |-> 1] /\ pageState' = "ready"
           \/ UNCHANGED <<onPage, history>> /\ pageState' = "unavailable"
    BY <1>1, <1>3 DEF Scheduling!Answer, Scheduling!RenderSnapshot, Scheduling!RenderFailure, Scheduling!ScheduleAutoRefresh
  <2>2. \A q \in asking' : q.id # latest
    BY <1>1, <1>3 DEF Scheduling!RequestInv, Scheduling!Current
  <2>3. Scheduling!TypeInv'
    BY <1>1, <2>1 DEF Scheduling!TypeInv
  <2>4. Scheduling!RequestInv'
    BY <1>1, <2>2 DEF Scheduling!RequestInv
  <2>5. Scheduling!ShowsTheScopeInView'
    BY <1>1, <1>3, <2>1 DEF Scheduling!ShowsTheScopeInView, Scheduling!Current
  <2>6. Scheduling!RefreshGoesOn'
    BY <1>1, <2>1, <2>2 DEF Scheduling!RefreshGoesOn
  <2> QED BY <2>3, <2>4, <2>5, <2>6
<1>4. CASE ~ Scheduling!Current(asked)
  <2>1. UNCHANGED <<onPage, history, pageState, refreshButton, refreshTimer>>
    BY <1>4 DEF Scheduling!Answer
  <2>2. asked.id # latest
    BY <1>2, <1>4 DEF Scheduling!Current
  <2>3. Scheduling!TypeInv'
    BY <1>1, <2>1 DEF Scheduling!TypeInv
  <2>4. Scheduling!RequestInv'
    BY <1>1, <2>1 DEF Scheduling!RequestInv
  <2>5. Scheduling!ShowsTheScopeInView' /\ Scheduling!RefreshGoesOn'
    BY <1>1, <2>1, <2>2 DEF Scheduling!ShowsTheScopeInView, Scheduling!RefreshGoesOn
  <2> QED BY <2>3, <2>4, <2>5
<1> QED BY <1>3, <1>4

LEMMA SchedulingNextHolds ==
  ASSUME Scheduling!SchedulingInv, [Scheduling!Next]_(Scheduling!pageVars)
  PROVE  Scheduling!SchedulingInv'
<1> USE DEF Scheduling!SchedulingInv
<1>1. inView \in Scopes \cup {Off}
  BY DEF Scheduling!TypeInv
<1>2. ASSUME NEW scope \in Scopes, Scheduling!SwitchScope(scope) PROVE Scheduling!SchedulingInv'
  BY <1>2, LoadScopeHolds DEF Scheduling!SwitchScope
<1>3. ASSUME Scheduling!Refresh \/ Scheduling!AutoRefresh PROVE Scheduling!SchedulingInv'
  <2>1. Scheduling!LoadScope(inView) /\ UNCHANGED <<inView, interval>>
    BY <1>3 DEF Scheduling!Refresh, Scheduling!AutoRefresh
  <2> QED BY <1>1, <2>1, LoadScopeHolds
<1>4. ASSUME Scheduling!SelectInterval PROVE Scheduling!SchedulingInv'
  <2>1. /\ interval' = ~interval /\ refreshTimer' = (inView # Off /\ interval')
        /\ UNCHANGED <<inView, latest, asking, probing, onPage, history, pageState, refreshButton>>
    BY <1>4 DEF Scheduling!SelectInterval, Scheduling!ScheduleAutoRefresh
  <2> QED
    BY <2>1 DEF Scheduling!TypeInv, Scheduling!RequestInv, Scheduling!ShowsTheScopeInView, Scheduling!RefreshGoesOn
\* A page of the probe history is of the scope in view.
<1>5. ASSUME NEW step \in {-1, 1}, Scheduling!TurnPage(step) PROVE Scheduling!SchedulingInv'
  BY <1>5 DEF Scheduling!TurnPage, Scheduling!TypeInv, Scheduling!RequestInv, Scheduling!ShowsTheScopeInView,
              Scheduling!RefreshGoesOn
<1>6. ASSUME NEW asked \in probing, NEW ok \in BOOLEAN, Scheduling!ProbeAnswer(asked, ok)
      PROVE  Scheduling!SchedulingInv'
  <2>1. /\ history' = history \/ history'.scope = inView
        /\ UNCHANGED <<inView, latest, asking, onPage, pageState, refreshButton, refreshTimer, interval>>
    BY <1>6 DEF Scheduling!ProbeAnswer, Scheduling!RenderProbeHistory
  <2> QED
    BY <2>1 DEF Scheduling!TypeInv, Scheduling!RequestInv, Scheduling!ShowsTheScopeInView, Scheduling!RefreshGoesOn
<1>7. ASSUME UNCHANGED Scheduling!pageVars PROVE Scheduling!SchedulingInv'
  BY <1>7 DEF Scheduling!pageVars, Scheduling!TypeInv, Scheduling!RequestInv, Scheduling!ShowsTheScopeInView,
              Scheduling!RefreshGoesOn
<1> QED BY <1>2, <1>3, <1>4, <1>5, <1>6, <1>7, SchedulingAnswerHolds DEF Scheduling!Next

-----------------------------------------------------------------------------
(* Import page *)

inputFormat == v1
content == v2
typed == v3
readOnly == v4
preview == v5
chosen == v6
loads == v7
sentForPreview == v8
submitDisabled == v9
dialog == v10
submitting == v11
imports == v12
wentOn == v13
USE DEF inputFormat, content, typed, readOnly, preview, chosen, loads, sentForPreview, submitDisabled,
        dialog, submitting, imports, wentOn

LEMMA ImportInitHolds == ASSUME Import!Init PROVE Import!ImportInv
<1>1. Import!TypeInv
  BY DEF Import!Init, Import!TypeInv, Import!Forms
<1> QED
  BY <1>1 DEF Import!Init, Import!ImportInv, Import!SequenceInv, Import!FileInv, Import!SourceInv,
              Import!ImportsWhatWasConfirmed, Import!OneImportAtATime

\* A source as it is, or as JSON, is a content, and a content is something.
LEMMA ContentIsSound ==
  ASSUME NEW source \in Sources
  PROVE  /\ source # Off
         /\ Import!Content(source) \in Import!Contents /\ Import!Content(source).of = source
         /\ Import!Content(source) # Off /\ Import!Content(source).form = (IF source \in Zips THEN "zip" ELSE "json")
         /\ Import!AsJson(source) \in Import!Contents /\ Import!AsJson(source).of = source
         /\ Import!AsJson(source) # Off
<1>1. Import!Content(source) \in Import!Contents /\ Import!AsJson(source) \in Import!Contents
  BY DEF Import!Content, Import!AsJson, Import!Contents, Import!Forms
<1>2. /\ Import!Content(source).of = source /\ Import!AsJson(source).of = source
      /\ Import!Content(source).form = (IF source \in Zips THEN "zip" ELSE "json")
  BY DEF Import!Content, Import!AsJson
<1> QED BY <1>1, <1>2, ImportAssumption

\* What would be submitted is what the page holds.
LEMMA SentIsSound ==
  ASSUME Import!TypeInv
  PROVE  /\ Import!Sent \in Import!Contents \cup {Off}
         /\ inputFormat = "zip" => Import!Sent = content
         /\ inputFormat = "json" /\ typed # Off => Import!Sent # Off /\ Import!Sent.of = typed
         /\ inputFormat \in {"json", "zip"}
<1>1. CASE typed = Off
  BY <1>1 DEF Import!TypeInv, Import!Sent, Import!Forms
<1>2. CASE typed # Off
  BY <1>2, ContentIsSound DEF Import!TypeInv, Import!Sent, Import!Forms
<1> QED BY <1>1, <1>2

\* The same, after a step.
LEMMA SentIsSoundAgain ==
  ASSUME Import!TypeInv'
  PROVE  /\ Import!Sent' \in Import!Contents \cup {Off}
         /\ inputFormat' = "zip" => Import!Sent' = content'
         /\ inputFormat' = "json" /\ typed' # Off => Import!Sent' # Off /\ Import!Sent'.of = typed'
         /\ inputFormat' \in {"json", "zip"}
<1>1. CASE typed' = Off
  BY <1>1 DEF Import!TypeInv, Import!Sent, Import!Forms
<1>2. CASE typed' # Off
  BY <1>2, ContentIsSound DEF Import!TypeInv, Import!Sent, Import!Forms
<1> QED BY <1>1, <1>2

\* A file under way.
LEMMA LoadIsSound ==
  ASSUME Import!TypeInv, NEW load \in loads
  PROVE  /\ load.sequence \in Nat /\ load.of \in Sources /\ load.body \in Import!Bodies \cup {Off}
         /\ load = [sequence |-> load.sequence, of |-> load.of, body |-> load.body]
<1>1. load \in [sequence : Nat, of : Sources, body : Import!Bodies \cup {Off}]
  BY DEF Import!TypeInv
<1> QED BY <1>1

LEMMA ChooseFileHolds ==
  ASSUME Import!ImportInv, NEW source \in Sources, Import!ChooseFile(source)
  PROVE  Import!ImportInv'
<1> USE DEF Import!ImportInv
<1> DEFINE file == [sequence |-> chosen + 1, of |-> source, body |-> Off]
<1>1. /\ dialog = Off /\ wentOn' = (wentOn \/ sentForPreview # {} \/ Import!Unread # {})
      /\ chosen' = chosen + 1 /\ inputFormat' = Import!Content(source).form /\ preview' = Off
      /\ loads' = loads \cup {file}
      /\ UNCHANGED <<content, typed, readOnly, sentForPreview, submitDisabled, dialog, submitting, imports>>
  BY DEF Import!ChooseFile, Import!Act, Import!view
<1>2. /\ file.sequence = chosen + 1 /\ file.of = source /\ file.body = Off
      /\ file \in [sequence : Nat, of : Sources, body : Import!Bodies \cup {Off}]
  BY DEF Import!TypeInv
<1> HIDE DEF file
<1>3. Import!TypeInv'
  <2>1. loads' \subseteq [sequence : Nat, of : Sources, body : Import!Bodies \cup {Off}]
    BY <1>1, <1>2 DEF Import!TypeInv
  <2>2. inputFormat' \in Import!Forms /\ chosen' \in Nat /\ wentOn' \in BOOLEAN
    BY <1>1, ContentIsSound DEF Import!TypeInv, Import!Forms
  <2> QED BY <1>1, <2>1, <2>2 DEF Import!TypeInv
<1>4. \A load \in loads : load.sequence \in Nat /\ load.sequence <= chosen /\ chosen \in Nat
  BY LoadIsSound DEF Import!SequenceInv, Import!TypeInv
<1>5. Import!SequenceInv'
  BY <1>1, <1>2, <1>4 DEF Import!SequenceInv
<1>6. ASSUME ~wentOn' PROVE Import!FileInv' /\ Import!SourceInv'
  <2>1. sentForPreview = {} /\ \A load \in loads : load.body # Off
    BY <1>1, <1>6 DEF Import!Unread
  <2>2. \A load \in loads : load.sequence # chosen'
    BY <1>1, <1>4
  <2>3. Import!FileInv'
    BY <1>1, <1>2, <2>1, <2>2 DEF Import!FileInv, Import!Current
  <2>4. Import!SourceInv'
    BY <1>1, <2>1 DEF Import!SourceInv
  <2> QED BY <2>3, <2>4
<1>7. Import!ImportsWhatWasConfirmed' /\ Import!OneImportAtATime'
  BY <1>1 DEF Import!ImportsWhatWasConfirmed, Import!OneImportAtATime
<1> QED BY <1>3, <1>5, <1>6, <1>7

LEMMA BytesHolds ==
  ASSUME Import!ImportInv, NEW load \in loads, Import!Bytes(load)
  PROVE  Import!ImportInv'
<1> USE DEF Import!ImportInv
<1> DEFINE body == [content |-> Import!Content(load.of), format |-> inputFormat]
           read == [load EXCEPT !.body = body]
<1>1. /\ load.body = Off /\ content' = Import!Content(load.of)
      /\ typed' = (IF load.of \in Zips THEN Off ELSE load.of)
      /\ loads' = (loads \ {load}) \cup {read}
      /\ UNCHANGED <<inputFormat, preview, chosen, sentForPreview, dialog, submitting, imports, wentOn>>
  BY DEF Import!Bytes, Import!view
<1>2. /\ load.sequence \in Nat /\ load.of \in Sources
      /\ load \in [sequence : Nat, of : Sources, body : Import!Bodies \cup {Off}]
  BY LoadIsSound DEF Import!TypeInv
<1>3. body \in Import!Bodies /\ body # Off
  <2>1. body \in Import!Bodies
    BY <1>2, ContentIsSound DEF Import!Bodies, Import!TypeInv
  <2> QED BY <2>1, ImportAssumption
<1>4. /\ read.sequence = load.sequence /\ read.of = load.of /\ read.body = body
      /\ read \in [sequence : Nat, of : Sources, body : Import!Bodies \cup {Off}]
  BY <1>2, <1>3
<1> HIDE DEF body, read
<1>5. Import!TypeInv'
  <2>1. loads' \subseteq [sequence : Nat, of : Sources, body : Import!Bodies \cup {Off}]
    BY <1>1, <1>4 DEF Import!TypeInv
  <2>2. content' \in Import!Contents /\ typed' \in Sources \cup {Off}
    BY <1>1, <1>2, ContentIsSound
  <2> QED BY <1>1, <2>1, <2>2 DEF Import!TypeInv
<1>6. Import!SequenceInv'
  BY <1>1, <1>4 DEF Import!SequenceInv
<1>7. ASSUME ~wentOn' PROVE Import!FileInv' /\ Import!SourceInv'
  <2>1. /\ load.sequence = chosen /\ preview = Off /\ dialog = Off /\ sentForPreview = {}
        /\ inputFormat = Import!Content(load.of).form
    BY <1>1, <1>7 DEF Import!FileInv, Import!Current
  <2>2. Import!Holds(load.of)'
    <3>1. CASE load.of \in Zips
      BY <1>1, <1>2, <1>5, <2>1, <3>1, ContentIsSound, SentIsSoundAgain DEF Import!Holds
    <3>2. CASE load.of \notin Zips
      BY <1>1, <1>2, <1>5, <2>1, <3>2, ContentIsSound, SentIsSoundAgain DEF Import!Holds
    <3> QED BY <3>1, <3>2
  <2>3. \A other \in loads : other # load => other.body # Off /\ other.sequence # chosen
    BY <1>1, <1>7, <2>1 DEF Import!FileInv, Import!Current, Import!SequenceInv
  <2>4. Import!FileInv'
    BY <1>1, <1>3, <1>4, <2>1, <2>2, <2>3 DEF Import!FileInv, Import!Current
  <2>5. Import!SourceInv'
    BY <1>1, <2>1 DEF Import!SourceInv
  <2> QED BY <2>4, <2>5
<1>8. Import!ImportsWhatWasConfirmed' /\ Import!OneImportAtATime'
  BY <1>1 DEF Import!ImportsWhatWasConfirmed, Import!OneImportAtATime
<1> QED BY <1>5, <1>6, <1>7, <1>8

\* What was held is held still when the source of what would be submitted stays.
LEMMA HoldsStill ==
  ASSUME Import!Sent # Off, Import!Sent' # Off, Import!Sent'.of = Import!Sent.of, NEW source, Import!Holds(source)
  PROVE  Import!Holds(source)'
BY DEF Import!Holds

LEMMA ImportPreviewHolds ==
  ASSUME Import!ImportInv, NEW load \in loads, NEW ok \in BOOLEAN, Import!Preview(load, ok)
  PROVE  Import!ImportInv'
<1> USE DEF Import!ImportInv
<1>1. /\ load.body # Off /\ loads' = loads \ {load}
      /\ UNCHANGED <<inputFormat, chosen, sentForPreview, dialog, submitting, imports, wentOn>>
  BY DEF Import!Preview, Import!view
<1>2. load.of \in Sources /\ load.sequence \in Nat
  BY LoadIsSound
<1>3. \/ ~Import!Current(load) /\ UNCHANGED <<content, typed, preview>>
      \/ /\ Import!Current(load) /\ preview' = load.of /\ typed' = load.of
         /\ content' = IF load.of \in Zips THEN content ELSE Import!AsJson(load.of)
      \/ /\ Import!Current(load) /\ preview' = Off /\ content' = content
         /\ typed' = IF load.of \in Zips THEN Off ELSE typed
  BY DEF Import!Preview
<1>4. Import!TypeInv'
  <2>1. preview' \in Sources \cup {Off} /\ typed' \in Sources \cup {Off} /\ content' \in Import!Contents \cup {Off}
    BY <1>2, <1>3, ContentIsSound DEF Import!TypeInv
  <2> QED BY <1>1, <2>1 DEF Import!TypeInv
<1>5. Import!SequenceInv'
  BY <1>1 DEF Import!SequenceInv
<1>6. ASSUME ~wentOn' PROVE Import!FileInv' /\ Import!SourceInv'
  <2>1. CASE ~Import!Current(load)
    <3>1. UNCHANGED <<content, typed, preview>>
      BY <1>3, <2>1
    <3>2. Import!FileInv'
      BY <1>1, <1>6, <3>1 DEF Import!FileInv, Import!Current, Import!Holds, Import!Sent
    <3>3. Import!SourceInv'
      BY <1>1, <1>6, <3>1 DEF Import!SourceInv, Import!Holds, Import!Sent
    <3> QED BY <3>2, <3>3
  <2>2. CASE Import!Current(load)
    <3>1. /\ load.sequence = chosen /\ inputFormat = Import!Content(load.of).form
          /\ Import!Sent # Off /\ Import!Sent.of = load.of
      BY <1>1, <1>6, <2>2 DEF Import!FileInv, Import!Current, Import!Holds
    <3>2. Import!Sent' # Off /\ Import!Sent'.of = load.of
      <4>1. CASE load.of \in Zips
        <5>1. inputFormat = "zip" /\ content' = content
          BY <1>2, <1>3, <2>2, <3>1, <4>1, ContentIsSound
        <5> QED BY <1>1, <1>4, <3>1, <5>1, SentIsSound, SentIsSoundAgain
      <4>2. CASE load.of \notin Zips
        <5>1. inputFormat = "json" /\ (typed' = load.of \/ typed' = typed)
          BY <1>2, <1>3, <2>2, <3>1, <4>2, ContentIsSound
        <5>2. typed # Off /\ typed = load.of
          BY <3>1, <5>1, ContentIsSound DEF Import!Sent, Import!TypeInv
        <5> QED BY <1>1, <1>2, <1>4, <5>1, <5>2, ContentIsSound, SentIsSoundAgain
      <4> QED BY <4>1, <4>2
    <3>3. \A source \in Sources : Import!Holds(source) => Import!Holds(source)'
      BY <3>1, <3>2, HoldsStill
    <3>4. \A other \in loads : other # load => other.body # Off /\ other.sequence # chosen
      BY <1>1, <1>6, <3>1 DEF Import!FileInv, Import!Current, Import!SequenceInv
    <3>5. Import!FileInv'
      BY <1>1, <3>4 DEF Import!FileInv, Import!Current
    <3>6. Import!SourceInv'
      <4>1. preview' = Off \/ (preview' = load.of /\ Import!Holds(load.of)')
        BY <1>2, <1>3, <2>2, <3>1, <3>3 DEF Import!Holds
      <4>2. \A body \in sentForPreview : body.content # Off => body.content.of \in Sources
        BY DEF Import!TypeInv, Import!Contents
      <4>3. dialog # Off => dialog \in Sources
        BY DEF Import!TypeInv
      <4> QED BY <1>1, <1>6, <3>3, <4>1, <4>2, <4>3 DEF Import!SourceInv
    <3> QED BY <3>5, <3>6
  <2> QED BY <2>1, <2>2
<1>7. Import!ImportsWhatWasConfirmed' /\ Import!OneImportAtATime'
  BY <1>1 DEF Import!ImportsWhatWasConfirmed, Import!OneImportAtATime
<1> QED BY <1>4, <1>5, <1>6, <1>7

LEMMA TypeHolds ==
  ASSUME Import!ImportInv, NEW source \in Sources, Import!Type(source)
  PROVE  Import!ImportInv'
<1> USE DEF Import!ImportInv
<1>1. /\ dialog = Off /\ preview' = Off
      /\ wentOn' = (wentOn \/ sentForPreview # {} \/ Import!Unread \cup Import!Unseen # {})
      /\ inputFormat' = "json" /\ content' = Import!AsJson(source) /\ typed' = source
      /\ UNCHANGED <<chosen, loads, sentForPreview, dialog, submitting, imports>>
  BY DEF Import!Type, Import!Act, Import!DropsPreview, Import!view
<1>2. Import!TypeInv'
  BY <1>1, ContentIsSound DEF Import!TypeInv, Import!Forms
<1>3. Import!SequenceInv'
  BY <1>1 DEF Import!SequenceInv
<1>4. ASSUME ~wentOn' PROVE Import!FileInv' /\ Import!SourceInv'
  <2>1. sentForPreview = {} /\ \A load \in loads : load.body # Off /\ load.sequence # chosen
    BY <1>1, <1>4 DEF Import!Unread, Import!Unseen, Import!Current
  <2> QED BY <1>1, <2>1 DEF Import!FileInv, Import!SourceInv, Import!Current
<1>5. Import!ImportsWhatWasConfirmed' /\ Import!OneImportAtATime'
  BY <1>1 DEF Import!ImportsWhatWasConfirmed, Import!OneImportAtATime
<1> QED BY <1>2, <1>3, <1>4, <1>5

LEMMA SubmitHolds == ASSUME Import!ImportInv, Import!Submit PROVE Import!ImportInv'
<1> USE DEF Import!ImportInv
<1> DEFINE body == [content |-> Import!Sent, format |-> inputFormat]
<1>1. /\ dialog = Off /\ wentOn' = (wentOn \/ sentForPreview # {} \/ Import!Unread # {})
      /\ \/ preview = Off /\ sentForPreview' = sentForPreview \cup {body} /\ dialog' = Off
         \/ sentForPreview' = sentForPreview /\ dialog' = preview
      /\ UNCHANGED <<inputFormat, content, typed, preview, chosen, loads, submitting, imports>>
  BY DEF Import!Submit, Import!Act, Import!OpenConfirmation
<1>2. body.content = Import!Sent /\ body \in [content : Import!Contents \cup {Off}, format : Import!Forms]
  BY SentIsSound DEF Import!TypeInv
<1> HIDE DEF body
<1>3. Import!TypeInv'
  BY <1>1, <1>2 DEF Import!TypeInv
<1>4. Import!SequenceInv'
  BY <1>1 DEF Import!SequenceInv
<1>5. ASSUME ~wentOn' PROVE Import!FileInv' /\ Import!SourceInv'
  <2>1. sentForPreview = {} /\ \A load \in loads : load.body # Off
    BY <1>1, <1>5 DEF Import!Unread
  <2>2. \A source : Import!Holds(source)' <=> Import!Holds(source)
    BY <1>1 DEF Import!Holds, Import!Sent
  <2>3. Import!FileInv'
    BY <1>1, <1>5, <2>1, <2>2 DEF Import!FileInv, Import!Current
  <2>4. Import!SourceInv'
    BY <1>1, <1>2, <1>5, <2>1, <2>2 DEF Import!SourceInv, Import!Holds
  <2> QED BY <2>3, <2>4
<1>6. Import!ImportsWhatWasConfirmed' /\ Import!OneImportAtATime'
  BY <1>1 DEF Import!ImportsWhatWasConfirmed, Import!OneImportAtATime
<1> QED BY <1>3, <1>4, <1>5, <1>6

LEMMA PreviewedHolds ==
  ASSUME Import!ImportInv, NEW body \in sentForPreview, NEW ok \in BOOLEAN, Import!Previewed(body, ok)
  PROVE  Import!ImportInv'
<1> USE DEF Import!ImportInv
<1> DEFINE source == body.content.of
<1>1. /\ sentForPreview' = sentForPreview \ {body}
      /\ \/ UNCHANGED <<preview, content, typed, dialog>>
         \/ /\ body.content # Off /\ preview' = source /\ content' = Import!AsJson(source) /\ typed' = source
            /\ dialog' = source
      /\ UNCHANGED <<inputFormat, chosen, loads, submitting, imports, wentOn>>
  BY DEF Import!Previewed, Import!OpenConfirmation, Import!Readable
<1>2. \A other \in sentForPreview : other.content # Off => other.content.of \in Sources
  BY DEF Import!TypeInv, Import!Contents
<1>3. body.content # Off => source \in Sources
  BY <1>2
<1> HIDE DEF source
<1>4. Import!TypeInv'
  BY <1>1, <1>3, ContentIsSound DEF Import!TypeInv
<1>5. Import!SequenceInv'
  BY <1>1 DEF Import!SequenceInv
<1>6. ASSUME ~wentOn' PROVE Import!FileInv' /\ Import!SourceInv'
  <2>1. CASE UNCHANGED <<preview, content, typed, dialog>>
    <3>1. \A x : Import!Holds(x)' <=> Import!Holds(x)
      BY <1>1, <2>1 DEF Import!Holds, Import!Sent
    <3>2. Import!FileInv'
      BY <1>1, <1>6, <2>1, <3>1 DEF Import!FileInv, Import!Current
    <3>3. Import!SourceInv'
      BY <1>1, <1>6, <2>1, <3>1 DEF Import!SourceInv
    <3> QED BY <3>2, <3>3
  <2>2. CASE /\ body.content # Off /\ preview' = source /\ content' = Import!AsJson(source) /\ typed' = source
             /\ dialog' = source
    <3>1. Import!Sent # Off /\ Import!Sent.of = source
      BY <1>1, <1>6, <2>2 DEF Import!SourceInv, Import!Holds, source
    <3>2. Import!Sent' # Off /\ Import!Sent'.of = source
      BY <1>3, <1>4, <2>2, ContentIsSound, SentIsSoundAgain
    <3>3. \A x \in Sources : Import!Holds(x) => Import!Holds(x)'
      BY <3>1, <3>2, HoldsStill
    <3>4. \A load \in loads : load.body # Off /\ load.of \in Sources
      BY <1>1, <1>6, LoadIsSound DEF Import!FileInv
    <3>5. Import!FileInv'
      BY <1>1, <1>6, <3>3, <3>4 DEF Import!FileInv, Import!Current
    <3>6. Import!Holds(source)'
      BY <3>2 DEF Import!Holds
    <3>7. Import!SourceInv'
      BY <1>1, <1>2, <1>6, <2>2, <3>3, <3>6 DEF Import!SourceInv
    <3> QED BY <3>5, <3>7
  <2> QED BY <1>1, <2>1, <2>2
<1>7. Import!ImportsWhatWasConfirmed' /\ Import!OneImportAtATime'
  BY <1>1 DEF Import!ImportsWhatWasConfirmed, Import!OneImportAtATime
<1> QED BY <1>4, <1>5, <1>6, <1>7

\* What is submitted is what the dialog counted, for the page holds it.
LEMMA ConfirmHolds == ASSUME Import!ImportInv, Import!Confirm PROVE Import!ImportInv'
<1> USE DEF Import!ImportInv
<1>1. PICK import :
        /\ import.counted = dialog /\ import.sent = Import!Sent /\ import.overtaken = wentOn
        /\ import.beside = submitting /\ imports' = imports \cup {import}
  BY DEF Import!Confirm
<1>2. /\ dialog # Off /\ ~submitting /\ dialog' = Off
      /\ UNCHANGED <<inputFormat, content, typed, preview, chosen, loads, sentForPreview, wentOn>>
  BY DEF Import!Confirm, Import!IsFree
<1>3. Import!TypeInv' /\ Import!SequenceInv'
  BY <1>2 DEF Import!TypeInv, Import!SequenceInv
<1>4. \A source : Import!Holds(source)' <=> Import!Holds(source)
  BY <1>2 DEF Import!Holds, Import!Sent
<1>5. ASSUME ~wentOn' PROVE Import!FileInv' /\ Import!SourceInv'
  BY <1>2, <1>4, <1>5 DEF Import!FileInv, Import!SourceInv, Import!Current
<1>6. Import!ImportsWhatWasConfirmed'
  BY <1>1, <1>2 DEF Import!ImportsWhatWasConfirmed, Import!SourceInv, Import!Holds
<1>7. Import!OneImportAtATime'
  BY <1>1, <1>2 DEF Import!OneImportAtATime
<1> QED BY <1>3, <1>5, <1>6, <1>7

LEMMA ImportNextHolds ==
  ASSUME Import!ImportInv, [Import!Next]_(Import!importVars)
  PROVE  Import!ImportInv'
<1>1. ASSUME dialog' \in {dialog, Off},
             UNCHANGED <<inputFormat, content, typed, preview, chosen, loads, sentForPreview, imports, wentOn>>
      PROVE  Import!ImportInv'
  <2>1. Import!TypeInv' /\ Import!SequenceInv'
    BY <1>1 DEF Import!ImportInv, Import!TypeInv, Import!SequenceInv
  <2>2. \A source : Import!Holds(source)' <=> Import!Holds(source)
    BY <1>1 DEF Import!Holds, Import!Sent
  <2>3. ASSUME ~wentOn' PROVE Import!FileInv' /\ Import!SourceInv'
    BY <1>1, <2>2, <2>3 DEF Import!ImportInv, Import!FileInv, Import!SourceInv, Import!Current
  <2> QED BY <1>1, <2>1, <2>3 DEF Import!ImportInv, Import!ImportsWhatWasConfirmed, Import!OneImportAtATime
<1>2. ASSUME Import!Cancel \/ Import!JobEnds \/ UNCHANGED Import!importVars PROVE Import!ImportInv'
  BY <1>1, <1>2 DEF Import!Cancel, Import!JobEnds, Import!importVars
<1> QED
  BY <1>2, ChooseFileHolds, BytesHolds, ImportPreviewHolds, TypeHolds, SubmitHolds, PreviewedHolds, ConfirmHolds
     DEF Import!Next

-----------------------------------------------------------------------------
(* Quota page *)

now == v1
excluded == v2
kept == v3
persistedSummary == v4
computing == v5
joinable == v6
passes == v7
count == v8
loading == v9
timers == v10
held == v11
display == v12
USE DEF now, excluded, kept, persistedSummary, computing, joinable, passes, count, loading, timers, held, display

PassStages == {"job", "accounts", "ask", "persisted", "waits", "answered"}

\* A pass under way, field by field.
LEMMA PassIsSound ==
  ASSUME Page!TypeInv, NEW pass, pass \in Page!PassValues
  PROVE  /\ pass.id \in Nat /\ pass.by \in {"boot", "user", "other"} /\ pass.auto \in BOOLEAN /\ pass.start \in Nat
         /\ pass.config \in BOOLEAN /\ pass.stage \in PassStages /\ pass.build \in Nat /\ pass.joined \in BOOLEAN
         /\ pass.summary \in Page!Summaries \cup {Off}
BY DEF Page!PassValues, PassStages

\* Passes that go on leave the turns as they are.
LEMMA TurnsStay ==
  ASSUME Page!QuotaPageInv, NEW pass \in passes, NEW next \in Page!PassValues,
         next.id = pass.id, next.by = pass.by, next.auto = pass.auto,
         next.by = "other" => next.stage \notin {"job", "accounts"},
         Page!Becomes(pass, next),
         \A build \in computing' : build.id <= count,
         UNCHANGED <<count, loading, timers, held, display>>
  PROVE  Page!NumberInv' /\ Page!TurnInv' /\ Page!PassesShowInOrder' /\ passes' \subseteq Page!PassValues
<1> USE DEF Page!QuotaPageInv
<1>1. /\ passes' \subseteq (passes \ {pass}) \cup {next} /\ passes \ {pass} \subseteq passes'
      /\ pass.by = "user" => next \in passes'
  BY DEF Page!Becomes, Page!Stays
<1>2. Page!NumberInv'
  BY <1>1 DEF Page!NumberInv
<1>3. Page!TurnInv'
  <2>1. \A p \in passes' : /\ p.by = "user" => loading'
                           /\ p.auto => p.by = "user"
                           /\ p.by = "boot" => p.id = 1
                           /\ p.by = "other" => p.stage \notin {"job", "accounts"}
    BY <1>1 DEF Page!TurnInv
  <2>2. \A p, q \in passes' : p.by = "user" /\ q.by = "user" => p = q
    BY <1>1 DEF Page!TurnInv
  <2>3. timers' # {} \/ \E p \in passes' : p.auto
    <3>1. CASE timers # {}
      BY <3>1
    <3>2. CASE timers = {}
      <4>1. PICK p \in passes : p.auto
        BY <3>2 DEF Page!TurnInv
      <4>2. CASE p = pass
        BY <1>1, <4>1, <4>2 DEF Page!TurnInv
      <4>3. CASE p # pass
        BY <1>1, <4>1, <4>3
      <4> QED BY <4>2, <4>3
    <3> QED BY <3>1, <3>2
  <2> QED BY <2>1, <2>2, <2>3 DEF Page!TurnInv
<1>4. Page!PassesShowInOrder'
  BY <1>1 DEF Page!PassesShowInOrder
<1>5. passes' \subseteq Page!PassValues
  BY <1>1 DEF Page!TypeInv
<1> QED BY <1>2, <1>3, <1>4, <1>5

LEMMA KnowledgeIsKept ==
  ASSUME UNCHANGED <<now, excluded, computing>>
  PROVE  \A p : Page!BuildInv(p) => Page!BuildInv(p)'
BY DEF Page!BuildInv, Page!IsRecent

\* What is being computed, the time and the configuration stay: so does what the passes
\* know, except the one that goes on.
LEMMA KnowledgeStays ==
  ASSUME Page!QuotaPageInv, NEW pass \in passes, NEW next, Page!Becomes(pass, next), Page!BuildInv(next),
         UNCHANGED <<now, excluded, computing>>
  PROVE  \A p \in passes' : Page!BuildInv(p)'
<1>1. passes' \subseteq (passes \ {pass}) \cup {next}
  BY DEF Page!Becomes
<1> QED BY <1>1, KnowledgeIsKept DEF Page!QuotaPageInv

LEMMA QuotaPageInitHolds == ASSUME Page!Init PROVE Page!QuotaPageInv
<1> DEFINE first == [id |-> 1, by |-> "boot", auto |-> FALSE, start |-> 0, config |-> FALSE, stage |-> "accounts",
                     build |-> 0, joined |-> FALSE, summary |-> Off]
<1>1. /\ now = 0 /\ excluded = FALSE /\ kept = Off /\ computing = {} /\ joinable = 0 /\ loading = FALSE
      /\ persistedSummary \in {Off, [at |-> 0, config |-> FALSE]} /\ count \in 0 .. 1
      /\ passes = {first : i \in 1 .. count} /\ timers = {1} /\ held = 1
      /\ display = [summary |-> Off, pass |-> Off, whole |-> FALSE]
  BY DEF Page!Init
<1>2. first \in Page!PassValues
  BY DEF Page!PassValues
<1>3. /\ first.id = 1 /\ first.by = "boot" /\ ~first.auto /\ first.start = 0 /\ ~first.config
      /\ first.stage = "accounts" /\ ~first.joined /\ first.summary = Off
  OBVIOUS
<1> HIDE DEF first
<1>4. \A p \in passes : p = first /\ count = 1
  BY <1>1
<1>5. Page!TypeInv
  <2>1. persistedSummary \in Page!Summaries \cup {Off}
    <3>1. [at |-> 0, config |-> FALSE] \in Page!Summaries
      BY DEF Page!Summaries
    <3> QED BY <1>1, <3>1
  <2>2. passes \subseteq Page!PassValues
    BY <1>2, <1>4
  <2>3. display \in [summary : Page!Summaries \cup {Off}, pass : Page!PassValues \cup {Off}, whole : BOOLEAN]
    BY <1>1
  <2>4. held \in {1, 2} /\ timers \subseteq {held} /\ now \in Nat /\ count \in Nat /\ joinable \in Nat
    BY <1>1
  <2>5. kept \in Page!Summaries \cup {Off} /\ excluded \in BOOLEAN /\ loading \in BOOLEAN
    BY <1>1
  <2>6. computing \subseteq [id : Nat, config : BOOLEAN, summary : Page!Summaries \cup {Off}]
    BY <1>1
  <2> QED BY <2>1, <2>2, <2>3, <2>4, <2>5, <2>6 DEF Page!TypeInv
<1>6. display.pass = Off /\ ~display.whole
  BY <1>1
<1>7. Page!NumberInv
  BY <1>1, <1>3, <1>4, <1>6 DEF Page!NumberInv
<1>8. Page!TurnInv
  BY <1>1, <1>3, <1>4 DEF Page!TurnInv
<1>9. \A p \in passes : Page!BuildInv(p)
  BY <1>1, <1>3, <1>4 DEF Page!BuildInv
<1> QED BY <1>5, <1>6, <1>7, <1>8, <1>9 DEF Page!QuotaPageInv, Page!ShownIsRecent, Page!PassesShowInOrder

LEMMA UsableIsRecent ==
  ASSUME Page!QuotaPageInv, NEW summary \in Page!Summaries \cup {Off}, NEW cfg \in BOOLEAN, Page!Usable(summary, cfg),
         NEW pass, pass.start \in Nat, pass.start <= now, pass.config = cfg
  PROVE  Page!IsRecent(summary, pass)
<1>1. summary.at \in Nat /\ summary.config = cfg /\ now - summary.at <= Ttl
  BY DEF Page!Usable, Page!Summaries
<1>2. now \in Nat
  BY DEF Page!QuotaPageInv, Page!TypeInv
<1> QED BY <1>1, <1>2, PagesAssumption DEF Page!IsRecent

LEMMA AskSummaryHolds ==
  ASSUME Page!QuotaPageInv, NEW pass \in passes, Page!AskSummary(pass)
  PROVE  Page!QuotaPageInv'
<1> USE DEF Page!QuotaPageInv
<1>1. pass \in Page!PassValues /\ excluded \in BOOLEAN /\ joinable \in Nat /\ kept \in Page!Summaries \cup {Off}
  BY DEF Page!TypeInv
<1>2. /\ pass.stage = "ask"
      /\ UNCHANGED <<now, excluded, count, kept, persistedSummary, computing, joinable, loading, timers, held, display>>
  BY DEF Page!AskSummary, Page!summaryVars, Page!pageVars
<1>3. pass.start \in Nat /\ pass.start <= now /\ \A build \in computing : build.id # pass.id
  BY <1>1, <1>2, PassIsSound DEF Page!BuildInv
<1>4. PICK next \in Page!PassValues :
        /\ next.id = pass.id /\ next.by = pass.by /\ next.auto = pass.auto
        /\ next.stage \in {"answered", "waits", "persisted"}
        /\ Page!Becomes(pass, next) /\ Page!BuildInv(next)
  <2>1. CASE Page!Usable(kept, excluded)
               /\ Page!Becomes(pass, [pass EXCEPT !.config = excluded, !.stage = "answered", !.summary = kept])
    <3> DEFINE next == [pass EXCEPT !.config = excluded, !.stage = "answered", !.summary = kept]
    <3>1. next \in Page!PassValues
      BY <1>1 DEF Page!PassValues
    <3>2. /\ next.id = pass.id /\ next.by = pass.by /\ next.auto = pass.auto /\ next.start = pass.start
          /\ next.config = excluded /\ next.stage = "answered" /\ next.summary = kept
      BY <1>1 DEF Page!PassValues
    <3> HIDE DEF next
    <3>3. Page!IsRecent(kept, next)
      BY <1>1, <1>3, <2>1, <3>2, UsableIsRecent
    <3>4. Page!BuildInv(next)
      BY <1>3, <3>2, <3>3 DEF Page!BuildInv
    <3> QED BY <2>1, <3>1, <3>2, <3>4 DEF next
  <2>2. CASE Page!Becomes(pass, [pass EXCEPT !.config = excluded, !.stage = "waits", !.build = joinable, !.joined = TRUE])
    <3> DEFINE next == [pass EXCEPT !.config = excluded, !.stage = "waits", !.build = joinable, !.joined = TRUE]
    <3>1. next \in Page!PassValues
      BY <1>1 DEF Page!PassValues
    <3>2. /\ next.id = pass.id /\ next.by = pass.by /\ next.auto = pass.auto /\ next.start = pass.start
          /\ next.config = excluded /\ next.stage = "waits" /\ next.joined = TRUE
      BY <1>1 DEF Page!PassValues
    <3> HIDE DEF next
    <3>3. Page!BuildInv(next)
      BY <1>3, <3>2 DEF Page!BuildInv
    <3> QED BY <2>2, <3>1, <3>2, <3>3 DEF next
  <2>3. CASE Page!Becomes(pass, [pass EXCEPT !.config = excluded, !.stage = "persisted"])
    <3> DEFINE next == [pass EXCEPT !.config = excluded, !.stage = "persisted"]
    <3>1. next \in Page!PassValues
      BY <1>1 DEF Page!PassValues
    <3>2. /\ next.id = pass.id /\ next.by = pass.by /\ next.auto = pass.auto /\ next.start = pass.start
          /\ next.config = excluded /\ next.stage = "persisted"
      BY <1>1 DEF Page!PassValues
    <3> HIDE DEF next
    <3>3. Page!BuildInv(next)
      BY <1>3, <3>2 DEF Page!BuildInv
    <3> QED BY <2>3, <3>1, <3>2, <3>3 DEF next
  <2> QED BY <2>1, <2>2, <2>3 DEF Page!AskSummary
<1>5. \A build \in computing' : build.id <= count
  BY <1>2 DEF Page!NumberInv
<1>6. Page!NumberInv' /\ Page!TurnInv' /\ Page!PassesShowInOrder' /\ passes' \subseteq Page!PassValues
  BY <1>2, <1>4, <1>5, TurnsStay
<1>7. \A p \in passes' : Page!BuildInv(p)'
  BY <1>2, <1>4, KnowledgeStays
<1>8. Page!TypeInv'
  BY <1>2, <1>6 DEF Page!TypeInv
<1>9. Page!ShownIsRecent'
  BY <1>2 DEF Page!ShownIsRecent
<1> QED BY <1>6, <1>7, <1>8, <1>9

LEMMA PersistedSummaryHolds ==
  ASSUME Page!QuotaPageInv, NEW pass \in passes, Page!PersistedSummary(pass)
  PROVE  Page!QuotaPageInv'
<1> USE DEF Page!QuotaPageInv
<1>1. /\ pass \in Page!PassValues /\ excluded \in BOOLEAN /\ persistedSummary \in Page!Summaries \cup {Off}
      /\ kept' \in Page!Summaries \cup {Off}
  BY DEF Page!TypeInv, Page!PersistedSummary
<1>2. /\ pass.stage = "persisted"
      /\ UNCHANGED <<now, excluded, count, persistedSummary, loading, timers, held, display>>
  BY DEF Page!PersistedSummary, Page!pageVars
<1>3. /\ pass.start \in Nat /\ pass.start <= now /\ pass.id \in Nat /\ pass.id \in 1 .. count /\ pass.config \in BOOLEAN
      /\ pass.config => excluded
      /\ \A build \in computing : build.id # pass.id
  BY <1>1, <1>2, PassIsSound DEF Page!BuildInv, Page!NumberInv
<1>4. Page!ShownIsRecent'
  BY <1>2 DEF Page!ShownIsRecent
<1>5. CASE Page!Usable(persistedSummary, pass.config)
  <2> DEFINE next == [pass EXCEPT !.stage = "answered", !.summary = persistedSummary]
  <2>1. next \in Page!PassValues
    BY <1>1 DEF Page!PassValues
  <2>2. /\ next.id = pass.id /\ next.by = pass.by /\ next.auto = pass.auto /\ next.start = pass.start
        /\ next.config = pass.config /\ next.stage = "answered" /\ next.summary = persistedSummary
    BY <1>1 DEF Page!PassValues
  <2>3. Page!Becomes(pass, next) /\ UNCHANGED <<computing, joinable>>
    BY <1>5 DEF Page!PersistedSummary
  <2> HIDE DEF next
  <2>4. Page!IsRecent(persistedSummary, next)
    BY <1>1, <1>3, <1>5, <2>2, UsableIsRecent
  <2>5. Page!BuildInv(next)
    BY <1>3, <2>2, <2>4 DEF Page!BuildInv
  <2>6. \A build \in computing' : build.id <= count
    BY <2>3 DEF Page!NumberInv
  <2>7. Page!NumberInv' /\ Page!TurnInv' /\ Page!PassesShowInOrder' /\ passes' \subseteq Page!PassValues
    BY <1>2, <2>1, <2>2, <2>3, <2>6, TurnsStay
  <2>8. \A p \in passes' : Page!BuildInv(p)'
    BY <1>2, <2>3, <2>5, KnowledgeStays
  <2>9. Page!TypeInv'
    BY <1>1, <1>2, <2>3, <2>7 DEF Page!TypeInv
  <2> QED BY <1>4, <2>7, <2>8, <2>9
<1>6. CASE ~Page!Usable(persistedSummary, pass.config)
  <2> DEFINE next == [pass EXCEPT !.stage = "waits", !.build = pass.id]
             begun == [id |-> pass.id, config |-> excluded, summary |-> Off]
  <2>1. next \in Page!PassValues
    BY <1>1, <1>3 DEF Page!PassValues
  <2>2. /\ next.id = pass.id /\ next.by = pass.by /\ next.auto = pass.auto /\ next.start = pass.start
        /\ next.config = pass.config /\ next.stage = "waits" /\ next.build = pass.id
    BY <1>1 DEF Page!PassValues
  <2>3. Page!Becomes(pass, next) /\ computing' = computing \cup {begun} /\ joinable' = pass.id
    BY <1>6 DEF Page!PersistedSummary
  <2>4. /\ begun.id = pass.id /\ begun.config = excluded /\ begun.summary = Off
        /\ begun \in [id : Nat, config : BOOLEAN, summary : Page!Summaries \cup {Off}]
    BY <1>1, <1>3
  <2> HIDE DEF next, begun
  <2>5. \A build \in computing' : build.id <= count
    BY <1>3, <2>3, <2>4 DEF Page!NumberInv, Page!TypeInv
  <2>6. Page!NumberInv' /\ Page!TurnInv' /\ Page!PassesShowInOrder' /\ passes' \subseteq Page!PassValues
    BY <1>2, <2>1, <2>2, <2>3, <2>5, TurnsStay
  <2>7. \A p \in passes' : Page!BuildInv(p)'
    <3>1. Page!BuildInv(next)'
      BY <1>2, <1>3, <2>2, <2>3, <2>4 DEF Page!BuildInv
    <3>2. ASSUME NEW p \in passes, p # pass PROVE Page!BuildInv(p)'
      <4>1. p.id # pass.id /\ Page!BuildInv(p)
        BY <3>2 DEF Page!NumberInv
      <4>2. \A build \in computing' : build.id = p.id => build \in computing
        BY <2>3, <2>4, <4>1
      <4> QED BY <1>2, <2>3, <4>1, <4>2 DEF Page!BuildInv, Page!IsRecent
    <3> QED BY <2>3, <3>1, <3>2 DEF Page!Becomes
  <2>8. computing' \subseteq [id : Nat, config : BOOLEAN, summary : Page!Summaries \cup {Off}]
    BY <2>3, <2>4 DEF Page!TypeInv
  <2>9. Page!TypeInv'
    BY <1>1, <1>2, <1>3, <2>3, <2>6, <2>8 DEF Page!TypeInv
  <2> QED BY <1>4, <2>6, <2>7, <2>9
<1> QED BY <1>5, <1>6

LEMMA BuildHolds ==
  ASSUME Page!QuotaPageInv, NEW build \in computing, Page!Build(build)
  PROVE  Page!QuotaPageInv'
<1> USE DEF Page!QuotaPageInv
<1> DEFINE computed == [build EXCEPT !.summary = kept']
<1>1. /\ kept' = [at |-> now, config |-> build.config] /\ computing' = (computing \ {build}) \cup {computed}
      /\ UNCHANGED <<now, excluded, count, passes, persistedSummary, joinable, loading, timers, held, display>>
  BY DEF Page!Build, Page!pageVars
<1>2. build \in [id : Nat, config : BOOLEAN, summary : Page!Summaries \cup {Off}] /\ now \in Nat
  BY DEF Page!TypeInv
<1>3. kept' \in Page!Summaries /\ kept'.at = now /\ kept'.config = build.config
  BY <1>1, <1>2 DEF Page!Summaries
<1>4. /\ computed \in [id : Nat, config : BOOLEAN, summary : Page!Summaries \cup {Off}]
      /\ computed.id = build.id /\ computed.config = build.config /\ computed.summary = kept'
  BY <1>2, <1>3
<1> HIDE DEF computed
<1>5. Page!TypeInv'
  <2>1. computing' \subseteq [id : Nat, config : BOOLEAN, summary : Page!Summaries \cup {Off}]
    BY <1>1, <1>4 DEF Page!TypeInv
  <2> QED BY <1>1, <1>3, <2>1 DEF Page!TypeInv
<1>6. Page!NumberInv' /\ Page!TurnInv' /\ Page!PassesShowInOrder' /\ Page!ShownIsRecent'
  BY <1>1, <1>4 DEF Page!NumberInv, Page!TurnInv, Page!PassesShowInOrder, Page!ShownIsRecent
<1>7. ASSUME NEW p \in passes PROVE Page!BuildInv(p)'
  <2>1. Page!BuildInv(p)
    OBVIOUS
  <2>2. ASSUME NEW other \in computing', other.id = p.id, p.stage \in {"job", "accounts", "ask", "persisted"} PROVE FALSE
    BY <1>1, <1>4, <2>1, <2>2 DEF Page!BuildInv
  <2>3. ASSUME NEW other \in computing', other.id = p.id, p.stage = "waits", ~p.joined
        PROVE  /\ p.config => other.config
               /\ other.summary # Off => other.summary.config = other.config /\ other.summary.at >= p.start
    <3>1. CASE other = computed
      BY <1>3, <1>4, <2>1, <2>3, <3>1 DEF Page!BuildInv
    <3>2. CASE other # computed
      BY <1>1, <2>1, <2>3, <3>2 DEF Page!BuildInv
    <3> QED BY <3>1, <3>2
  <2> QED BY <1>1, <2>1, <2>2, <2>3 DEF Page!BuildInv, Page!IsRecent
<1> QED BY <1>1, <1>5, <1>6, <1>7

\* A build that is over answers those who wait for it.
LEMMA AnsweredHolds ==
  ASSUME Page!QuotaPageInv, NEW failed, NEW summary \in Page!Summaries \cup {Off},
         passes' = Page!Answered(failed, summary), computing' \subseteq computing,
         \A p \in passes : p.stage = "waits" /\ p.build \in failed /\ ~p.joined /\ summary # Off => Page!IsRecent(summary, p),
         UNCHANGED <<now, excluded, count, loading, timers, held, display>>,
         joinable' \in Nat, kept' \in Page!Summaries \cup {Off}, persistedSummary' \in Page!Summaries \cup {Off}
  PROVE  Page!QuotaPageInv'
<1> USE DEF Page!QuotaPageInv
<1> DEFINE After(p) == IF p.stage = "waits" /\ p.build \in failed
                       THEN [p EXCEPT !.stage = "answered", !.summary = summary, !.build = 0] ELSE p
<1>1. \A p \in passes : p \in Page!PassValues
  BY DEF Page!TypeInv
<1>2. ASSUME NEW p \in passes
      PROVE  /\ After(p) \in Page!PassValues
             /\ After(p).id = p.id /\ After(p).by = p.by /\ After(p).auto = p.auto /\ After(p).start = p.start
             /\ After(p).config = p.config /\ After(p).joined = p.joined
             /\ \/ After(p) = p
                \/ /\ p.stage = "waits" /\ p.build \in failed
                   /\ After(p).stage = "answered" /\ After(p).summary = summary
  <2>1. CASE ~(p.stage = "waits" /\ p.build \in failed)
    BY <1>1, <2>1
  <2>2. CASE p.stage = "waits" /\ p.build \in failed
    <3> DEFINE next == [p EXCEPT !.stage = "answered", !.summary = summary, !.build = 0]
    <3>1. next \in Page!PassValues
      BY <1>1 DEF Page!PassValues
    <3>2. /\ next.id = p.id /\ next.by = p.by /\ next.auto = p.auto /\ next.start = p.start
          /\ next.config = p.config /\ next.joined = p.joined /\ next.stage = "answered" /\ next.summary = summary
      BY <1>1 DEF Page!PassValues
    <3>3. After(p) = next
      BY <2>2
    <3> HIDE DEF next, After
    <3> QED BY <2>2, <3>1, <3>2, <3>3
  <2> QED BY <2>1, <2>2
<1>3. passes' = {q \in {After(p) : p \in passes} : q.by # "other" \/ q.stage # "answered"}
  BY DEF Page!Answered, Page!Stays
<1> HIDE DEF After
<1>4. \A q \in passes' : \E p \in passes : q = After(p)
  BY <1>3
<1>5. \A p \in passes : p.by # "other" => After(p) \in passes'
  BY <1>2, <1>3
<1>6. Page!TypeInv'
  <2>1. passes' \subseteq Page!PassValues
    BY <1>2, <1>4
  <2>2. computing' \subseteq [id : Nat, config : BOOLEAN, summary : Page!Summaries \cup {Off}]
    BY DEF Page!TypeInv
  <2> QED BY <2>1, <2>2 DEF Page!TypeInv
<1>7. Page!NumberInv'
  BY <1>2, <1>4 DEF Page!NumberInv
<1>8. Page!TurnInv'
  <2>1. \A q \in passes' : /\ q.by = "user" => loading'
                           /\ q.auto => q.by = "user"
                           /\ q.by = "boot" => q.id = 1
                           /\ q.by = "other" => q.stage \notin {"job", "accounts"}
    BY <1>2, <1>4 DEF Page!TurnInv
  <2>2. \A p, q \in passes' : p.by = "user" /\ q.by = "user" => p = q
    BY <1>2, <1>4 DEF Page!TurnInv
  <2>3. timers' # {} \/ \E q \in passes' : q.auto
    BY <1>2, <1>5 DEF Page!TurnInv
  <2> QED BY <2>1, <2>2, <2>3 DEF Page!TurnInv
<1>9. ASSUME NEW q \in passes' PROVE Page!BuildInv(q)'
  <2>1. PICK p \in passes : q = After(p)
    BY <1>4
  <2>2. Page!BuildInv(p)
    OBVIOUS
  <2>3. CASE q = p
    BY <2>2, <2>3 DEF Page!BuildInv, Page!IsRecent
  <2>4. CASE p.stage = "waits" /\ p.build \in failed /\ q.stage = "answered" /\ q.summary = summary
    <3>1. q.start = p.start /\ q.config = p.config /\ q.joined = p.joined
      BY <1>2, <2>1
    <3> QED BY <2>2, <2>4, <3>1 DEF Page!BuildInv, Page!IsRecent
  <2> QED BY <1>2, <2>1, <2>3, <2>4
<1>10. Page!ShownIsRecent' /\ Page!PassesShowInOrder'
  BY <1>2, <1>4 DEF Page!ShownIsRecent, Page!PassesShowInOrder
<1> QED BY <1>6, <1>7, <1>8, <1>9, <1>10

LEMMA PersistHolds ==
  ASSUME Page!QuotaPageInv, NEW build \in computing, NEW ok \in BOOLEAN, Page!Persist(build, ok)
  PROVE  Page!QuotaPageInv'
<1> USE DEF Page!QuotaPageInv
<1>1. build \in [id : Nat, config : BOOLEAN, summary : Page!Summaries \cup {Off}] /\ build.summary # Off
  BY DEF Page!TypeInv, Page!Persist
<1>2. build.summary \in Page!Summaries /\ build.summary.at \in Nat
  BY <1>1 DEF Page!Summaries
<1>3. ASSUME NEW p \in passes, p.stage = "waits", p.build \in {build.id}, ~p.joined
      PROVE  Page!IsRecent(build.summary, p)
  <2>1. p.start \in Nat
    BY PassIsSound DEF Page!TypeInv
  <2>2. p.build = p.id /\ (p.config => build.config) /\ build.summary.config = build.config /\ build.summary.at >= p.start
    BY <1>1, <1>3 DEF Page!BuildInv
  <2> QED BY <1>2, <2>1, <2>2, PagesAssumption DEF Page!IsRecent
<1>4. /\ passes' = Page!Answered({build.id}, build.summary) /\ computing' \subseteq computing
      /\ UNCHANGED <<now, excluded, count, kept, loading, timers, held, display>>
      /\ joinable' \in {joinable, 0} /\ persistedSummary' \in {persistedSummary, build.summary}
  BY DEF Page!Persist, Page!pageVars
<1>5. joinable' \in Nat /\ kept' \in Page!Summaries \cup {Off} /\ persistedSummary' \in Page!Summaries \cup {Off}
  BY <1>2, <1>4 DEF Page!TypeInv
<1> QED BY <1>2, <1>3, <1>4, <1>5, AnsweredHolds

LEMMA BuildsFailHolds ==
  ASSUME Page!QuotaPageInv, NEW failed, NEW restart \in BOOLEAN, Page!BuildsFail(failed, restart)
  PROVE  Page!QuotaPageInv'
<1>1. /\ passes' = Page!Answered({build.id : build \in failed}, Off) /\ computing' \subseteq computing
      /\ UNCHANGED <<now, excluded, count, persistedSummary, loading, timers, held, display>>
      /\ joinable' \in {joinable, 0} /\ kept' \in {kept, Off}
  BY DEF Page!BuildsFail, Page!pageVars
<1>2. joinable' \in Nat /\ kept' \in Page!Summaries \cup {Off} /\ persistedSummary' \in Page!Summaries \cup {Off}
  BY <1>1 DEF Page!QuotaPageInv, Page!TypeInv
<1> QED BY <1>1, <1>2, AnsweredHolds

\* A pass that is over gives way to the next one, and sets the timer that made it.
LEMMA EndsHolds ==
  ASSUME Page!QuotaPageInv, NEW pass \in passes, pass.by # "other", Page!Ends(pass),
         UNCHANGED <<now, excluded, count, kept, persistedSummary, computing, joinable>>
  PROVE  /\ Page!NumberInv' \/ display' # display
         /\ Page!TurnInv' /\ passes' = passes \ {pass} /\ (\A p \in passes' : Page!BuildInv(p)')
         /\ held' \in {1, 2} /\ timers' \subseteq {held'} /\ loading' \in BOOLEAN
<1> USE DEF Page!QuotaPageInv
<1>1. /\ passes' = passes \ {pass} /\ loading' = (pass.by = "boot" /\ loading)
      /\ IF pass.auto THEN timers' = (timers \ {held}) \cup {3 - held} /\ held' = 3 - held ELSE UNCHANGED <<timers, held>>
  BY DEF Page!Ends, Page!ScheduleAutoRefresh
<1>2. /\ held' \in {1, 2} /\ timers' \subseteq {held'} /\ loading' \in BOOLEAN
  <2>1. held \in {1, 2} /\ timers \subseteq {held}
    BY DEF Page!TypeInv
  <2>2. CASE pass.auto
    <3>1. held' = 3 - held /\ timers' = {held'}
      BY <1>1, <2>1, <2>2
    <3> QED BY <1>1, <2>1, <3>1
  <2>3. CASE ~pass.auto
    BY <1>1, <2>1, <2>3
  <2> QED BY <2>2, <2>3
<1>3. Page!TurnInv'
  <2>1. pass.by \in {"boot", "user"}
    BY PassIsSound DEF Page!TypeInv
  <2>2. \A p \in passes' : p.by = "user" => loading'
    BY <1>1, <2>1 DEF Page!TurnInv
  <2>3. timers' # {} \/ \E p \in passes' : p.auto
    BY <1>1 DEF Page!TurnInv
  <2> QED BY <1>1, <2>2, <2>3 DEF Page!TurnInv
<1>4. \A p \in passes' : Page!BuildInv(p)'
  BY <1>1 DEF Page!BuildInv, Page!IsRecent
<1>5. display' = display => Page!NumberInv'
  BY <1>1 DEF Page!NumberInv
<1> QED BY <1>1, <1>2, <1>3, <1>4, <1>5

\* The pass ends and shows nothing.
LEMMA EndsUnseenHolds ==
  ASSUME Page!QuotaPageInv, NEW pass \in passes, pass.by # "other", Page!Ends(pass),
         UNCHANGED <<now, excluded, count, kept, persistedSummary, computing, joinable, display>>
  PROVE  Page!QuotaPageInv'
<1>1. /\ Page!NumberInv' /\ Page!TurnInv' /\ passes' = passes \ {pass} /\ (\A p \in passes' : Page!BuildInv(p)')
      /\ held' \in {1, 2} /\ timers' \subseteq {held'} /\ loading' \in BOOLEAN
  BY EndsHolds
<1>2. Page!TypeInv' /\ Page!ShownIsRecent' /\ Page!PassesShowInOrder'
  BY <1>1 DEF Page!QuotaPageInv, Page!TypeInv, Page!ShownIsRecent, Page!PassesShowInOrder
<1> QED BY <1>1, <1>2 DEF Page!QuotaPageInv

LEMMA SampledHolds ==
  ASSUME Page!QuotaPageInv, NEW pass \in passes, NEW ok \in BOOLEAN, Page!Sampled(pass, ok) \/ Page!Accounts(pass, ok)
  PROVE  Page!QuotaPageInv'
<1> USE DEF Page!QuotaPageInv
<1>1. /\ pass.stage \in {"job", "accounts"}
      /\ UNCHANGED <<now, excluded, count, kept, persistedSummary, computing, joinable, display>>
  BY DEF Page!Sampled, Page!Accounts, Page!summaryVars
<1>2. /\ pass \in Page!PassValues /\ now \in Nat /\ pass.by # "other" /\ pass.start <= now /\ pass.start \in Nat
      /\ pass.config => excluded
      /\ \A build \in computing : build.id # pass.id
  BY <1>1, PassIsSound DEF Page!TypeInv, Page!TurnInv, Page!BuildInv
<1>3. CASE Page!Ends(pass)
  BY <1>1, <1>2, <1>3, EndsUnseenHolds
<1>4. CASE /\ UNCHANGED <<loading, timers, held>>
           /\ \/ Page!Becomes(pass, [pass EXCEPT !.start = now, !.stage = "accounts"])
              \/ Page!Becomes(pass, [pass EXCEPT !.stage = "ask"])
  <2>1. PICK next \in Page!PassValues :
          /\ next.id = pass.id /\ next.by = pass.by /\ next.auto = pass.auto /\ next.start \in {pass.start, now}
          /\ next.config = pass.config /\ next.stage \in {"accounts", "ask"} /\ Page!Becomes(pass, next)
    <3>1. CASE Page!Becomes(pass, [pass EXCEPT !.start = now, !.stage = "accounts"])
      <4> DEFINE next == [pass EXCEPT !.start = now, !.stage = "accounts"]
      <4>1. next \in Page!PassValues
        BY <1>2 DEF Page!PassValues
      <4>2. /\ next.id = pass.id /\ next.by = pass.by /\ next.auto = pass.auto /\ next.start = now
            /\ next.config = pass.config /\ next.stage = "accounts"
        BY <1>2 DEF Page!PassValues
      <4> QED BY <3>1, <4>1, <4>2
    <3>2. CASE Page!Becomes(pass, [pass EXCEPT !.stage = "ask"])
      <4> DEFINE next == [pass EXCEPT !.stage = "ask"]
      <4>1. next \in Page!PassValues
        BY <1>2 DEF Page!PassValues
      <4>2. /\ next.id = pass.id /\ next.by = pass.by /\ next.auto = pass.auto /\ next.start = pass.start
            /\ next.config = pass.config /\ next.stage = "ask"
        BY <1>2 DEF Page!PassValues
      <4> QED BY <3>2, <4>1, <4>2
    <3> QED BY <1>4, <3>1, <3>2
  <2>2. Page!BuildInv(next)
    BY <1>2, <2>1 DEF Page!BuildInv
  <2>3. \A build \in computing' : build.id <= count
    BY <1>1 DEF Page!NumberInv
  <2>4. Page!NumberInv' /\ Page!TurnInv' /\ Page!PassesShowInOrder' /\ passes' \subseteq Page!PassValues
    BY <1>1, <1>2, <1>4, <2>1, <2>3, TurnsStay
  <2>5. \A p \in passes' : Page!BuildInv(p)'
    BY <1>1, <2>1, <2>2, KnowledgeStays
  <2>6. Page!TypeInv' /\ Page!ShownIsRecent'
    BY <1>1, <1>4, <2>4 DEF Page!TypeInv, Page!ShownIsRecent
  <2> QED BY <2>4, <2>5, <2>6
<1> QED BY <1>3, <1>4 DEF Page!Sampled, Page!Accounts

LEMMA ShowHolds ==
  ASSUME Page!QuotaPageInv, NEW pass \in passes, Page!Show(pass)
  PROVE  Page!QuotaPageInv'
<1> USE DEF Page!QuotaPageInv
<1> DEFINE read == [pass EXCEPT !.stage = "answered", !.build = 0]
           summary == IF pass.summary = Off THEN display.summary ELSE pass.summary
<1>1. /\ pass.stage = "answered" /\ pass.by # "other" /\ Page!Ends(pass)
      /\ display' = [summary |-> summary, pass |-> read, whole |-> pass.summary # Off]
      /\ UNCHANGED <<now, excluded, count, kept, persistedSummary, computing, joinable>>
  BY DEF Page!Show, Page!summaryVars
<1>2. /\ Page!TurnInv' /\ passes' = passes \ {pass} /\ (\A p \in passes' : Page!BuildInv(p)')
      /\ held' \in {1, 2} /\ timers' \subseteq {held'} /\ loading' \in BOOLEAN
  BY <1>1, EndsHolds
<1>3. pass \in Page!PassValues /\ pass.id \in 1 .. count /\ pass.summary \in Page!Summaries \cup {Off}
  BY PassIsSound DEF Page!TypeInv, Page!NumberInv
<1>4. /\ read \in Page!PassValues /\ read.id = pass.id /\ read.start = pass.start /\ read.config = pass.config
      /\ read.joined = pass.joined
  <2>1. read \in Page!PassValues
    BY <1>3 DEF Page!PassValues
  <2>2. read.id = pass.id /\ read.start = pass.start /\ read.config = pass.config /\ read.joined = pass.joined
    BY <1>3 DEF Page!PassValues
  <2> QED BY <2>1, <2>2
<1>5. summary \in Page!Summaries \cup {Off} /\ (pass.summary # Off => summary = pass.summary)
  BY <1>3 DEF Page!TypeInv
<1> HIDE DEF read, summary
<1>6. display'.summary = summary /\ display'.pass = read /\ display'.whole = (pass.summary # Off)
  BY <1>1
<1>7. Page!TypeInv'
  <2>1. display' \in [summary : Page!Summaries \cup {Off}, pass : Page!PassValues \cup {Off}, whole : BOOLEAN]
    BY <1>1, <1>4, <1>5
  <2>2. passes' \subseteq Page!PassValues
    BY <1>2 DEF Page!TypeInv
  <2> QED BY <1>1, <1>2, <2>1, <2>2 DEF Page!TypeInv
<1>8. Page!NumberInv'
  BY <1>1, <1>2, <1>3, <1>4, <1>6 DEF Page!NumberInv
<1>9. Page!ShownIsRecent'
  BY <1>1, <1>4, <1>5, <1>6 DEF Page!ShownIsRecent, Page!BuildInv, Page!IsRecent
<1>10. Page!PassesShowInOrder'
  <2>1. ASSUME NEW p \in passes', p.by = "user" PROVE p.id > pass.id
    <3>1. p \in passes /\ p # pass /\ p.id # pass.id /\ p.id \in 1 .. count
      BY <1>2 DEF Page!NumberInv
    <3>2. pass.by = "boot"
      BY <1>1, <1>3, <2>1, <3>1, PassIsSound DEF Page!TurnInv, Page!TypeInv
    <3> QED BY <1>3, <3>1, <3>2 DEF Page!TurnInv
  <2> QED BY <1>4, <1>6, <2>1 DEF Page!PassesShowInOrder
<1> QED BY <1>2, <1>7, <1>8, <1>9, <1>10

LEMMA NewPassKnowsNothing ==
  ASSUME NEW pass, pass.start <= now, pass.config = FALSE, pass.stage \in {"job", "accounts", "ask"},
         \A build \in computing : build.id # pass.id
  PROVE  Page!BuildInv(pass)
BY DEF Page!BuildInv

\* A new pass has a number that no build has.
LEMMA StartHolds ==
  ASSUME Page!QuotaPageInv, NEW by \in {"user", "other"}, NEW auto \in BOOLEAN, NEW stage \in {"job", "accounts", "ask"},
         Page!Start(Page!Pass(by, auto, stage)), auto => by = "user", by = "other" => stage = "ask",
         by = "user" => ~loading /\ loading', by = "other" => UNCHANGED loading,
         held' = held, timers' \subseteq timers, auto \/ timers' = timers,
         UNCHANGED <<now, excluded, kept, persistedSummary, computing, joinable, display>>
  PROVE  Page!QuotaPageInv'
<1> USE DEF Page!QuotaPageInv
<1> DEFINE next == Page!Pass(by, auto, stage)
<1>1. passes' = passes \cup {next} /\ count' = count + 1 /\ count \in Nat /\ now \in Nat
  BY DEF Page!Start, Page!TypeInv
<1>2. /\ next.id = count + 1 /\ next.by = by /\ next.auto = auto /\ next.start = now /\ next.config = FALSE
      /\ next.stage = stage /\ next.joined = FALSE /\ next.summary = Off
  BY DEF Page!Pass
<1>3. next \in Page!PassValues
  BY <1>1 DEF Page!Pass, Page!PassValues
<1> HIDE DEF next
<1>4. loading' \in BOOLEAN
  BY DEF Page!TypeInv
<1>5. Page!TypeInv'
  <2>1. passes' \subseteq Page!PassValues /\ count' \in Nat /\ timers' \subseteq {held'}
    BY <1>1, <1>3 DEF Page!TypeInv
  <2> QED BY <1>4, <2>1 DEF Page!TypeInv
<1>6. /\ \A p \in passes : p.id \in 1 .. count /\ p.id # next.id
      /\ \A build \in computing : build.id \in Nat /\ build.id <= count
  BY <1>1, <1>2 DEF Page!NumberInv, Page!TypeInv
<1>7. Page!NumberInv'
  <2>1. \A build \in computing' : build.id <= count'
    BY <1>1, <1>6
  <2>2. display'.pass # Off => display'.pass.id <= count'
    <3>1. display.pass # Off => display.pass.id \in Nat /\ display.pass.id <= count
      BY DEF Page!NumberInv, Page!TypeInv, Page!PassValues
    <3> QED BY <1>1, <3>1
  <2>3. \A p \in passes' : p.id \in 1 .. count'
    BY <1>1, <1>2, <1>6
  <2>4. \A p, q \in passes' : p.id = q.id => p = q
    BY <1>1, <1>6 DEF Page!NumberInv
  <2> QED BY <2>1, <2>2, <2>3, <2>4 DEF Page!NumberInv
<1>8. Page!TurnInv'
  <2>1. \A p \in passes' : /\ p.by = "user" => loading'
                           /\ p.auto => p.by = "user"
                           /\ p.by = "boot" => p.id = 1
                           /\ p.by = "other" => p.stage \notin {"job", "accounts"}
    BY <1>1, <1>2 DEF Page!TurnInv
  <2>2. \A p, q \in passes' : p.by = "user" /\ q.by = "user" => p = q
    BY <1>1, <1>2 DEF Page!TurnInv
  <2>3. timers' # {} \/ \E p \in passes' : p.auto
    BY <1>1, <1>2 DEF Page!TurnInv
  <2> QED BY <2>1, <2>2, <2>3 DEF Page!TurnInv
<1>9. \A p \in passes' : Page!BuildInv(p)'
  <2>1. next.start <= now'
    BY <1>1, <1>2
  <2>2. \A build \in computing' : build.id # next.id
    BY <1>1, <1>2, <1>6
  <2>3. next.start <= now /\ \A build \in computing : build.id # next.id
    BY <2>1, <2>2
  <2>4. Page!BuildInv(next)
    BY <1>2, <2>3, NewPassKnowsNothing
  <2> QED BY <1>1, <2>4, KnowledgeIsKept
<1>10. Page!ShownIsRecent'
  BY DEF Page!ShownIsRecent
<1>11. Page!PassesShowInOrder'
  <2>1. display.pass # Off => display.pass.id \in Nat /\ display.pass.id <= count
    BY DEF Page!NumberInv, Page!TypeInv, Page!PassValues
  <2> QED BY <1>1, <1>2, <2>1 DEF Page!PassesShowInOrder
<1> QED BY <1>5, <1>7, <1>8, <1>9, <1>10, <1>11

\* A timer that is set anew.
LEMMA RescheduleHolds ==
  ASSUME Page!QuotaPageInv, held' = 3 - held, timers' = {held'},
         UNCHANGED <<now, excluded, kept, persistedSummary, computing, joinable, passes, count, loading, display>>
  PROVE  Page!QuotaPageInv'
<1>1. Page!TypeInv'
  BY DEF Page!QuotaPageInv, Page!TypeInv
<1>2. Page!NumberInv' /\ Page!TurnInv'
  BY DEF Page!QuotaPageInv, Page!NumberInv, Page!TurnInv
<1>3. \A p \in passes' : Page!BuildInv(p)'
  BY DEF Page!QuotaPageInv, Page!BuildInv, Page!IsRecent
<1>4. Page!ShownIsRecent' /\ Page!PassesShowInOrder'
  BY DEF Page!QuotaPageInv, Page!ShownIsRecent, Page!PassesShowInOrder
<1> QED BY <1>1, <1>2, <1>3, <1>4 DEF Page!QuotaPageInv

LEMMA TimerHolds ==
  ASSUME Page!QuotaPageInv, Page!TimerFires \/ Page!SelectInterval
  PROVE  Page!QuotaPageInv'
<1>1. held \in {1, 2} /\ timers \subseteq {held}
  BY DEF Page!QuotaPageInv, Page!TypeInv
<1>2. CASE Page!SelectInterval
  <2>1. /\ held' = 3 - held /\ timers' = (timers \ {held}) \cup {held'}
        /\ UNCHANGED <<now, excluded, kept, persistedSummary, computing, joinable, passes, count, loading, display>>
    BY <1>2 DEF Page!SelectInterval, Page!ScheduleAutoRefresh, Page!summaryVars
  <2> QED BY <1>1, <2>1, RescheduleHolds
<1>3. CASE Page!TimerFires
  <2>1. PICK timer \in timers :
          IF Page!IsFree
          THEN /\ loading' = TRUE /\ timers' = timers \ {timer}
               /\ Page!Start(Page!Pass("user", TRUE, "accounts"))
               /\ UNCHANGED <<now, excluded, kept, persistedSummary, computing, joinable, held, display>>
          ELSE /\ timers' = (timers \ {timer, held}) \cup {3 - held} /\ held' = 3 - held
               /\ UNCHANGED <<now, excluded, kept, persistedSummary, computing, joinable, passes, count, loading, display>>
    BY <1>3 DEF Page!TimerFires, Page!summaryVars
  <2>2. CASE Page!IsFree
    BY <2>1, <2>2, StartHolds DEF Page!IsFree
  <2>3. CASE ~Page!IsFree
    BY <1>1, <2>1, <2>3, RescheduleHolds
  <2> QED BY <2>2, <2>3
<1> QED BY <1>2, <1>3

LEMMA QuotaPageNextHolds ==
  ASSUME Page!QuotaPageInv, [Page!Next]_(Page!vars)
  PROVE  Page!QuotaPageInv'
<1>1. ASSUME NEW stage \in {"accounts", "job"}, Page!Refresh(stage) PROVE Page!QuotaPageInv'
  <2>1. /\ ~loading /\ loading' = TRUE /\ Page!Start(Page!Pass("user", FALSE, stage))
        /\ UNCHANGED <<now, excluded, kept, persistedSummary, computing, joinable, timers, held, display>>
    BY <1>1 DEF Page!Refresh, Page!IsFree, Page!summaryVars
  <2> QED BY <2>1, StartHolds
<1>2. ASSUME Page!Other PROVE Page!QuotaPageInv'
  <2>1. /\ Page!Start(Page!Pass("other", FALSE, "ask"))
        /\ UNCHANGED <<now, excluded, kept, persistedSummary, computing, joinable, loading, timers, held, display>>
    BY <1>2 DEF Page!Other, Page!summaryVars, Page!pageVars
  <2> QED BY <2>1, StartHolds
<1>3. ASSUME now' \in {now, now + 1}, excluded' = excluded \/ excluded' = TRUE,
             UNCHANGED <<kept, persistedSummary, computing, joinable, passes, count, loading, timers, held, display>>
      PROVE  Page!QuotaPageInv'
  <2>1. Page!TypeInv'
    <3>1. now \in Nat /\ excluded \in BOOLEAN
      BY DEF Page!QuotaPageInv, Page!TypeInv
    <3>2. now' \in Nat
      BY <1>3, <3>1
    <3>3. excluded' \in BOOLEAN
      BY <1>3, <3>1
    <3> QED BY <1>3, <3>2, <3>3 DEF Page!QuotaPageInv, Page!TypeInv
  <2>2. Page!NumberInv' /\ Page!TurnInv'
    BY <1>3 DEF Page!QuotaPageInv, Page!NumberInv, Page!TurnInv
  <2>3. ASSUME NEW p \in passes PROVE Page!BuildInv(p)'
    <3>1. p.start \in Nat /\ now \in Nat
      BY PassIsSound DEF Page!QuotaPageInv, Page!TypeInv
    <3>2. Page!BuildInv(p)
      BY DEF Page!QuotaPageInv
    <3>3. p.start <= now'
      BY <1>3, <3>1, <3>2 DEF Page!BuildInv
    <3>4. p.config => excluded'
      BY <1>3, <3>2 DEF Page!BuildInv
    <3> QED BY <1>3, <3>2, <3>3, <3>4 DEF Page!BuildInv, Page!IsRecent
  <2>4. Page!ShownIsRecent' /\ Page!PassesShowInOrder'
    BY <1>3 DEF Page!QuotaPageInv, Page!ShownIsRecent, Page!PassesShowInOrder
  <2> QED BY <1>3, <2>1, <2>2, <2>3, <2>4 DEF Page!QuotaPageInv
<1>4. ASSUME Page!Tick \/ Page!Reload \/ UNCHANGED Page!vars PROVE Page!QuotaPageInv'
  <2>1. /\ now' \in {now, now + 1} /\ (excluded' = excluded \/ excluded' = TRUE)
        /\ UNCHANGED <<kept, persistedSummary, computing, joinable, passes, count, loading, timers, held, display>>
    BY <1>4 DEF Page!Tick, Page!Reload, Page!vars, Page!summaryVars, Page!pageVars
  <2> QED BY <1>3, <2>1
<1> QED
  BY <1>1, <1>2, <1>4, AskSummaryHolds, PersistedSummaryHolds, ShowHolds, SampledHolds, BuildHolds, BuildsFailHolds,
     PersistHolds, TimerHolds DEF Page!Next

\* The timer or the refresh that it made, for two of either there never are.
LEMMA QuotaPageSuffices ==
  ASSUME Page!QuotaPageInv
  PROVE  Page!ShownIsRecent /\ Page!OneTimer /\ Page!PassesShowInOrder
<1> USE DEF Page!QuotaPageInv
<1> DEFINE automatic == {p \in passes : p.auto}
<1>1. timers = {} \/ timers = {held}
  <2>1. timers \subseteq {held}
    BY DEF Page!TypeInv
  <2> QED BY <2>1, Zenon
<1>2. automatic = {} \/ \E p : automatic = {p}
  <2>1. ASSUME NEW p \in automatic PROVE automatic = {p}
    <3>1. \A q \in automatic : q = p
      BY DEF Page!TurnInv
    <3> QED BY <3>1
  <2> QED BY <2>1
<1>3. timers # {} \/ automatic # {}
  BY DEF Page!TurnInv
<1> HIDE DEF automatic
<1>4. /\ Cardinality(timers) \in {0, 1} /\ Cardinality(automatic) \in {0, 1}
      /\ timers # {} => Cardinality(timers) = 1
      /\ automatic # {} => Cardinality(automatic) = 1
  BY <1>1, <1>2, FS_EmptySet, FS_Singleton
<1>5. Cardinality(timers) + Cardinality(automatic) \in 1 .. 2 /\ Cardinality(timers) <= 1
  <2>1. Cardinality(timers) = 1 \/ Cardinality(automatic) = 1
    BY <1>3, <1>4
  <2> QED BY <1>4, <2>1
<1>6. \A S : Page!Cardinality(S) = Cardinality(S)
  BY DEF Page!Cardinality, Cardinality
<1> QED BY <1>5, <1>6 DEF Page!OneTimer, automatic

-----------------------------------------------------------------------------
(* The command line *)

order == v1
entered == v2
options == v3
queue == v4
noted == v5
intents == v6
applied == v7
topUps == v8
told == v10
USE DEF order, entered, options, queue, noted, intents, applied, topUps, told

\* What was entered: a retry is possible only where a key can be repeated.
LEMMA OptionsAreSound ==
  ASSUME NEW line, NEW o \in Command!Options(line)
  PROVE  /\ o.confirm \in BOOLEAN /\ o.retry \in BOOLEAN /\ o.amount \in {1, 2}
         /\ o.retry => line.key \in {"own", "printed"}
BY DEF Command!Options

\* The two commands that ask nobody make a new key for each process.
LEMMA UnaskedAreFresh == ASSUME order \in Command!Unasked PROVE order.key = "fresh"
BY DEF Command!Unasked, Command!UpstreamUsage, Command!MathProbe, Command!Line

\* How many writes were asked for is a number.
LEMMA AskedIsCounted ==
  ASSUME entered \in Nat, intents \in Nat PROVE Command!Asked \in Nat
BY DEF Command!Asked

LEMMA RechargeIsPrinted == order = Command!Recharge => order.key = "printed"
BY DEF Command!Recharge, Command!Line

\* What a command sends, from the table of commands.
LEMMA CommandSends ==
  ASSUME NEW line \in Command!Lines, NEW o \in Command!Options(line)
  PROVE  /\ Command!Sends(line, o) \in Seq(Command!ToSet(Command!Sends(line, o)))
         /\ \A c \in Command!ToSet(Command!Sends(line, o)) :
              Command!Writes(line, c, o) => Command!Asks(line, o) /\ c = Command!Writer(line)
<1> DEFINE s == Command!Sends(line, o)
<1>1. /\ s \in Seq(STRING)
      /\ \A c \in Command!ToSet(s) : Command!Writes(line, c, o) => Command!Asks(line, o) /\ c = Command!Writer(line)
  BY CommandAssumption DEF Command!WritesAreAsked
<1> HIDE DEF s
<1>2. s \in Seq(Command!ToSet(s))
  <2>1. Len(s) \in Nat /\ DOMAIN s = 1 .. Len(s) /\ s = [i \in 1 .. Len(s) |-> s[i]]
    BY <1>1
  <2>2. \A i \in 1 .. Len(s) : s[i] \in Command!ToSet(s)
    BY <2>1 DEF Command!ToSet
  <2> QED BY <2>1, <2>2
<1> QED BY <1>1, <1>2 DEF s

\* The key of a process does not depend on what the operator is told meanwhile.
LEMMA KeyIsKept ==
  ASSUME Command!TypeInv, noted' \in {noted, Command!ThisKey}, UNCHANGED <<order, entered, options>>
  PROVE  Command!ThisKey' = Command!ThisKey
BY DEF Command!ThisKey, Command!Key

LEMMA KeysAreCounted == ASSUME Command!TypeInv PROVE Command!ThisKey \in 0 .. entered
BY DEF Command!TypeInv, Command!ThisKey, Command!Key

LEMMA CommandCardinality == \A S : Command!Cardinality(S) = Cardinality(S)
BY DEF Command!Cardinality, Cardinality

LEMMA CommandInitHolds == ASSUME Command!Init PROVE Command!CommandInv
<1>1. Command!TypeInv
  <2>1. options \in Command!Options(order)
    BY DEF Command!Init, Command!NoOptions, Command!Options
  <2>2. topUps \in [DOMAIN topUps -> [state : {"running", "completed", "failed"}, amount : {1, 2}]]
    BY DEF Command!Init
  <2>3. queue \in Seq(Command!ToSet(Command!Sends(order, options)))
    BY DEF Command!Init
  <2> QED BY <2>1, <2>2, <2>3 DEF Command!Init, Command!TypeInv
<1>2. Command!KeysInv
  <2>1. Cardinality({}) = 0
    BY FS_EmptySet
  <2>2. {} \in SUBSET (0 .. entered) /\ Command!Cardinality({}) <= Command!Asked /\ DOMAIN topUps = {}
    BY <2>1, CommandCardinality DEF Command!Init, Command!Asked
  <2> QED BY <2>2 DEF Command!Init, Command!KeysInv
<1>3. Command!BookedInv
  BY DEF Command!Init, Command!BookedInv
<1> QED BY <1>1, <1>2, <1>3 DEF Command!CommandInv

\* A key that is wanted now joins those that were.
LEMMA OneMoreIsWanted ==
  ASSUME NEW n \in Nat, NEW wanted \in SUBSET (0 .. n), NEW k \in 0 .. n + 1, NEW m \in Nat,
         Command!Cardinality(wanted) <= m
  PROVE  /\ wanted \cup {k} \in SUBSET (0 .. n + 1) /\ wanted \in SUBSET (0 .. n + 1)
         /\ Command!Cardinality(wanted \cup {k}) <= m + 1
<1>1. IsFiniteSet(wanted) /\ Cardinality(wanted) \in Nat
  <2>1. IsFiniteSet(0 .. n)
    BY FS_Interval
  <2> QED BY <2>1, FS_Subset, FS_CardinalityType
<1>2. Cardinality(wanted \cup {k}) <= Cardinality(wanted) + 1
  BY <1>1, FS_AddElement
<1>3. Cardinality(wanted \cup {k}) \in Nat
  BY <1>1, FS_AddElement, FS_CardinalityType
<1> QED BY <1>1, <1>2, <1>3, CommandCardinality

LEMMA EnterHolds ==
  ASSUME Command!CommandInv, NEW o \in Command!Options(order), Command!Enter(o)
  PROVE  Command!CommandInv'
<1> DEFINE refused == Command!Refused(order, o)
           key == Command!Key(order, o, entered + 1, noted)
<1>1. /\ o.confirm \in BOOLEAN /\ o.retry \in BOOLEAN
      /\ o.retry => order.key \in {"own", "printed"}
  BY OptionsAreSound
<1>2. /\ order \in Command!Lines /\ entered \in Nat /\ intents \in Nat /\ noted \in 0 .. entered
      /\ order.key # "printed" => noted = 0
  BY DEF Command!CommandInv, Command!TypeInv
<1>3. /\ queue = <<>> /\ entered' = entered + 1 /\ options' = o /\ queue' = Command!Sends(order, o)
      /\ o.retry /\ order.key = "printed" => noted # 0
      /\ UNCHANGED <<order, applied, topUps>>
  BY DEF Command!Enter
<1>4. refused => queue' = <<>>
  BY <1>3 DEF Command!Sends
<1>5. key \in 0 .. entered + 1
  BY <1>2 DEF Command!Key
<1>6. noted' = IF order.key # "printed" \/ refused \/ o.retry THEN noted
               ELSE IF o.confirm THEN 0
               ELSE IF Command!PreviewsHere(order, o) /\ intents = 0 THEN key ELSE noted
  BY DEF Command!Enter
<1>7. intents' = IF o.confirm /\ (~ o.retry \/ intents = 0) THEN intents + 1 ELSE intents
  BY DEF Command!Enter
<1>8. order.key = "own" => key = 0
  BY DEF Command!Key
<1>9. order.key = "printed" /\ o.retry => key = noted
  BY DEF Command!Key
<1>10. Command!ThisKey' = key
  <2>1. Command!ThisKey' = Command!Key(order, o, entered + 1, noted')
    BY <1>3 DEF Command!ThisKey
  <2>2. CASE order.key = "printed" /\ o.retry
    BY <1>6, <2>1, <2>2
  <2>3. CASE ~ (order.key = "printed" /\ o.retry)
    BY <2>1, <2>3 DEF Command!Key
  <2> QED BY <2>2, <2>3
<1> HIDE DEF refused, key
<1>11. /\ order.key # "printed" \/ refused \/ o.retry => noted' = noted
       /\ ~ (order.key # "printed" \/ refused \/ o.retry) /\ o.confirm => noted' = 0
       /\ ~ o.confirm /\ intents > 0 => noted' = noted
       /\ noted' \in {noted, 0, key}
  <2>1. CASE order.key # "printed" \/ refused \/ o.retry
    BY <1>6, <2>1
  <2>2. CASE ~ (order.key # "printed" \/ refused \/ o.retry)
    BY <1>2, <1>6, <2>2
  <2> QED BY <2>1, <2>2
<1>12. Command!TypeInv'
  <2>1. queue' \in Seq(Command!ToSet(Command!Sends(order, o)))
    BY <1>2, <1>3, CommandSends
  <2>2. noted' \in 0 .. entered' /\ entered' \in Nat /\ intents' \in Nat
    BY <1>2, <1>3, <1>5, <1>11, <1>7
  <2>3. order.key # "printed" => noted' = 0
    BY <1>2, <1>11
  <2> QED BY <1>3, <2>1, <2>2, <2>3 DEF Command!CommandInv, Command!TypeInv
<1>13. Command!KeysInv'
  <2>1. PICK wanted \in SUBSET (0 .. entered) :
          /\ Command!Cardinality(wanted) <= Command!Asked
          /\ intents > 0 /\ (order.key = "own" \/ noted # 0) => noted \in wanted
          /\ DOMAIN topUps \subseteq wanted
          /\ applied \subseteq wanted \X {Command!Writer(order)}
    BY DEF Command!CommandInv, Command!KeysInv
  <2> DEFINE k == IF refused \/ order.key = "own" THEN noted ELSE key
  <2>2. k \in 0 .. entered + 1
    BY <1>2, <1>5
  <2> HIDE DEF k
  <2>3. /\ wanted \cup {k} \in SUBSET (0 .. entered') /\ wanted \in SUBSET (0 .. entered')
        /\ Command!Cardinality(wanted \cup {k}) <= Command!Asked + 1
    BY <1>2, <1>3, <2>1, <2>2, OneMoreIsWanted, AskedIsCounted
  <2> DEFINE more == order \in Command!Unasked \/ (o.confirm /\ (~ o.retry \/ intents = 0))
  <2>4. /\ order' = order
        /\ order \in Command!Unasked => order.key = "fresh"
        /\ Command!Asked' = IF more THEN Command!Asked + 1 ELSE Command!Asked
    BY <1>2, <1>3, <1>7, UnaskedAreFresh DEF Command!Asked
  <2>5. CASE more
    <3>1. queue' # <<>> => Command!ThisKey' \in wanted \cup {k}
      BY <1>2, <1>4, <1>8, <1>10 DEF k
    <3>2. order.key = "own" \/ noted' # 0 => noted' \in wanted \cup {k}
      BY <1>1, <1>2, <1>11, <1>9, <2>4, <2>5 DEF k
    <3>3. applied \subseteq (wanted \cup {k}) \X {Command!Writer(order)}
      BY <2>1
    <3>4. Command!Cardinality(wanted \cup {k}) <= Command!Asked'
      BY <2>3, <2>4, <2>5
    <3> HIDE DEF more
    <3> QED BY <1>3, <2>1, <2>3, <3>1, <3>2, <3>3, <3>4 DEF Command!KeysInv
  <2>6. CASE ~ more
    <3>1. intents' = intents /\ Command!Asked' = Command!Asked
      BY <1>7, <2>4, <2>6
    <3>2. Command!Asks(order, o) => Command!ThisKey' \in wanted
      BY <1>1, <1>2, <1>3, <1>8, <1>9, <1>10, <2>1, <2>6 DEF Command!Asks
    <3>3. intents > 0 /\ (order.key = "own" \/ noted' # 0) => noted' \in wanted
      BY <1>1, <1>2, <1>11, <2>1, <2>6
    <3> HIDE DEF more
    <3> QED BY <1>3, <2>1, <2>3, <3>1, <3>2, <3>3 DEF Command!KeysInv
  <2> QED BY <2>5, <2>6
<1>14. Command!BookedInv'
  <2>1. told' # "verified"
    BY DEF Command!Enter
  <2> QED BY <1>3, <2>1 DEF Command!CommandInv, Command!BookedInv
<1> QED BY <1>12, <1>13, <1>14 DEF Command!CommandInv

\* What a call that was sent may have done.
LEMMA WhatACallDoes ==
  ASSUME Command!TypeInv, queue # <<>>,
         Command!Reaches(Head(queue)) \/ UNCHANGED <<applied, topUps>>
  PROVE  /\ topUps' \in [DOMAIN topUps' -> [state : {"running", "completed", "failed"}, amount : {1, 2}]]
         /\ \A key \in DOMAIN topUps : key \in DOMAIN topUps' /\ topUps'[key] = topUps[key]
         /\ \A key \in DOMAIN topUps' : key \notin DOMAIN topUps =>
              /\ key = Command!ThisKey /\ Command!Asks(order, options) /\ topUps'[key].state = "running"
              /\ Command!Writer(order) = "upstreamRecharge"
         /\ applied \subseteq applied'
         /\ \A pair \in applied' : pair \notin applied =>
              Command!Asks(order, options) /\ pair = <<Command!ThisKey, Command!Writer(order)>>
<1> DEFINE call0 == Head(queue)
           k == Command!ThisKey
<1>1. /\ order \in Command!Lines /\ options \in Command!Options(order)
      /\ queue \in Seq(Command!ToSet(Command!Sends(order, options)))
      /\ topUps \in [DOMAIN topUps -> [state : {"running", "completed", "failed"}, amount : {1, 2}]]
  BY DEF Command!TypeInv
<1>2. call0 \in Command!ToSet(Command!Sends(order, options))
  BY <1>1
<1>3. Command!Writes(order, call0, options) => Command!Asks(order, options) /\ call0 = Command!Writer(order)
  BY <1>1, <1>2, CommandSends
<1>4. options.amount \in {1, 2}
  BY <1>1, OptionsAreSound
<1>5. CASE UNCHANGED <<applied, topUps>>
  BY <1>1, <1>5
<1>6. CASE Command!Reaches(call0) /\ call0 = "upstreamRecharge"
  <2> DEFINE began == [state |-> "running", amount |-> options.amount]
  <2>1. /\ topUps' = [key \in DOMAIN topUps \cup {k} |-> IF key \in DOMAIN topUps THEN topUps[key] ELSE began]
        /\ UNCHANGED applied
    BY <1>6 DEF Command!Reaches
  <2>2. Command!Asks(order, options) /\ Command!Writer(order) = "upstreamRecharge"
    BY <1>3, <1>6 DEF Command!Writes
  <2>3. began \in [state : {"running", "completed", "failed"}, amount : {1, 2}] /\ began.state = "running"
    BY <1>4
  <2> HIDE DEF began, k
  <2>4. DOMAIN topUps' = DOMAIN topUps \cup {k}
    BY <2>1
  <2>5. \A key \in DOMAIN topUps' : topUps'[key] = IF key \in DOMAIN topUps THEN topUps[key] ELSE began
    BY <2>1
  <2>6. topUps' \in [DOMAIN topUps' -> [state : {"running", "completed", "failed"}, amount : {1, 2}]]
    BY <1>1, <2>1, <2>3, <2>4
  <2> QED BY <2>1, <2>2, <2>3, <2>4, <2>5, <2>6 DEF k
<1>7. CASE Command!Reaches(call0) /\ call0 # "upstreamRecharge"
  <2>1. UNCHANGED topUps
    BY <1>7 DEF Command!Reaches
  <2>2. CASE Command!Effect(order, call0, options.target, options.confirm) = "business"
    <3>1. Command!Asks(order, options) /\ call0 = Command!Writer(order)
      BY <1>3, <2>2 DEF Command!Writes
    <3>2. applied' = applied \cup {<<k, call0>>}
      BY <1>7, <2>2 DEF Command!Reaches
    <3> HIDE DEF call0, k
    <3>3. applied' = applied \cup {<<k, Command!Writer(order)>>}
      BY <3>1, <3>2
    <3> QED BY <1>1, <2>1, <3>1, <3>3 DEF k
  <2>3. CASE Command!Effect(order, call0, options.target, options.confirm) # "business"
    <3>1. UNCHANGED applied
      BY <1>7, <2>3 DEF Command!Reaches
    <3> QED BY <1>1, <2>1, <3>1
  <2> QED BY <2>2, <2>3
<1> QED BY <1>5, <1>6, <1>7

LEMMA WhatIsLeft ==
  ASSUME NEW S, NEW s \in Seq(S), s # <<>>
  PROVE  Tail(s) \in Seq(S) /\ (Len(s) = 1 => Tail(s) = <<>>)
<1>1. Tail(s) \in Seq(S) /\ Len(Tail(s)) = Len(s) - 1
  OBVIOUS
<1> DEFINE rest == Tail(s)
<1>2. rest \in Seq(S) /\ (Len(s) = 1 => Len(rest) = 0)
  BY <1>1
<1> HIDE DEF rest
<1>3. Len(s) = 1 => rest = <<>>
  BY <1>2, EmptySeq
<1> QED BY <1>2, <1>3 DEF rest

\* A call is sent, answered or not, and the operator is told of its key.
LEMMA CallGoesOn ==
  ASSUME Command!CommandInv, queue # <<>>,
         Command!Reaches(Head(queue)) \/ UNCHANGED <<applied, topUps>>,
         queue' \in {<<>>, Tail(queue)},
         noted' \in {noted, Command!ThisKey},
         noted' # noted => order = Command!Recharge /\ (options.confirm \/ intents = 0),
         told' = "verified" => queue' = <<>> /\ Command!Agrees(Command!ThisKey, options.amount),
         UNCHANGED <<order, entered, options, intents>>
  PROVE  Command!CommandInv'
<1>1. Command!TypeInv /\ Command!KeysInv /\ Command!BookedInv
  BY DEF Command!CommandInv
<1>2. /\ topUps' \in [DOMAIN topUps' -> [state : {"running", "completed", "failed"}, amount : {1, 2}]]
      /\ \A key \in DOMAIN topUps : key \in DOMAIN topUps' /\ topUps'[key] = topUps[key]
      /\ \A key \in DOMAIN topUps' : key \notin DOMAIN topUps =>
           /\ key = Command!ThisKey /\ Command!Asks(order, options) /\ topUps'[key].state = "running"
           /\ Command!Writer(order) = "upstreamRecharge"
      /\ applied \subseteq applied'
      /\ \A pair \in applied' : pair \notin applied =>
           Command!Asks(order, options) /\ pair = <<Command!ThisKey, Command!Writer(order)>>
  BY <1>1, WhatACallDoes
<1>3. Command!ThisKey' = Command!ThisKey /\ Command!ThisKey \in 0 .. entered
  BY <1>1, KeyIsKept, KeysAreCounted
<1>4. Command!TypeInv'
  <2>1. queue' \in Seq(Command!ToSet(Command!Sends(order, options)))
    <3> DEFINE left == Command!ToSet(Command!Sends(order, options))
    <3>1. queue \in Seq(left)
      BY <1>1 DEF Command!TypeInv
    <3> HIDE DEF left
    <3>2. <<>> \in Seq(left) /\ Tail(queue) \in Seq(left)
      BY <3>1, WhatIsLeft, EmptySeq
    <3> QED BY <3>2 DEF left
  <2>2. order.key # "printed" => noted' = 0
    BY <1>1, RechargeIsPrinted DEF Command!TypeInv
  <2> QED BY <1>1, <1>2, <1>3, <2>1, <2>2 DEF Command!TypeInv
<1>5. Command!KeysInv'
  <2>1. PICK wanted \in SUBSET (0 .. entered) :
          /\ Command!Cardinality(wanted) <= Command!Asked
          /\ Command!Asks(order, options) /\ queue # <<>> => Command!ThisKey \in wanted
          /\ intents > 0 /\ (order.key = "own" \/ noted # 0) => noted \in wanted
          /\ DOMAIN topUps \subseteq wanted
          /\ applied \subseteq wanted \X {Command!Writer(order)}
    BY <1>1 DEF Command!KeysInv
  <2>2. DOMAIN topUps' \subseteq wanted
    BY <1>2, <2>1
  <2>3. applied' \subseteq wanted \X {Command!Writer(order)}
    <3>1. ASSUME NEW pair \in applied' PROVE pair \in wanted \X {Command!Writer(order)}
      BY <1>2, <2>1
    <3> QED BY <3>1
  <2>4. intents > 0 /\ (order.key = "own" \/ noted' # 0) => noted' \in wanted
    BY <2>1 DEF Command!Asks
  <2>5. Command!Asks(order, options)' /\ queue' # <<>> => Command!ThisKey' \in wanted
    BY <1>3, <2>1 DEF Command!Asks
  <2>6. Command!Asked' = Command!Asked
    BY DEF Command!Asked
  <2> QED BY <2>1, <2>2, <2>3, <2>4, <2>5, <2>6 DEF Command!KeysInv
<1>6. Command!BookedInv'
  <2>1. ASSUME NEW key \in DOMAIN topUps'
        PROVE  /\ Command!Writer(order) = "upstreamRecharge"
               /\ topUps'[key].state = "completed" => <<key, "upstreamRecharge">> \in applied'
    BY <1>1, <1>2, <2>1 DEF Command!BookedInv
  <2>2. told' = "verified" => queue' = <<>> /\ Command!Agrees(Command!ThisKey, options.amount)'
    BY <1>2, <1>3 DEF Command!Agrees
  <2> QED BY <2>1, <2>2 DEF Command!BookedInv
<1> QED BY <1>4, <1>5, <1>6 DEF Command!CommandInv

LEMMA CallHolds == ASSUME Command!CommandInv, Command!Call PROVE Command!CommandInv'
<1> DEFINE last == Len(queue) = 1
           state == IF Command!ThisKey \in DOMAIN topUps THEN topUps[Command!ThisKey].state ELSE "unknown"
           stops == Head(queue) = "workflowStatus" /\ order = Command!Recharge /\ state # "completed"
<1>1. /\ queue # <<>> /\ Command!Reaches(Head(queue))
      /\ queue' = IF stops THEN <<>> ELSE Tail(queue)
      /\ told' = IF stops THEN IF state = "failed" THEN "workflow_failed" ELSE "pending"
                 ELSE IF ~ last THEN told
                 ELSE IF order # Command!Recharge THEN "done"
                 ELSE IF options.confirm THEN Command!Verified ELSE "preview"
      /\ noted' = IF order = Command!Recharge /\ (stops \/ last) /\ (options.confirm \/ intents = 0)
                  THEN Command!ThisKey ELSE noted
      /\ UNCHANGED <<order, entered, options, intents>>
  BY DEF Command!Call, Command!Answered
<1> HIDE DEF state, stops
<1>2. last => Tail(queue) = <<>>
  BY <1>1, WhatIsLeft DEF Command!CommandInv, Command!TypeInv
<1>3. told # "verified"
  BY <1>1 DEF Command!CommandInv, Command!BookedInv
<1>4. Command!Verified = "verified" => Command!Agrees(Command!ThisKey, options.amount)
  BY DEF Command!Verified
<1> HIDE DEF last
<1>5. told' = "verified" => queue' = <<>> /\ Command!Agrees(Command!ThisKey, options.amount)
  BY <1>1, <1>2, <1>3, <1>4
<1> QED BY <1>1, <1>5, CallGoesOn

LEMMA NoAnswerHolds == ASSUME Command!CommandInv, Command!NoAnswer PROVE Command!CommandInv'
BY CallGoesOn DEF Command!NoAnswer

LEMMA NotReadyHolds == ASSUME Command!CommandInv, Command!NotReady PROVE Command!CommandInv'
<1>1. queue # <<>>
  BY DEF Command!NotReady
<1> QED BY <1>1, CallGoesOn DEF Command!NotReady

LEMMA WorkHolds ==
  ASSUME Command!CommandInv, NEW key \in DOMAIN topUps, Command!Work(key)
  PROVE  Command!CommandInv'
<1> DEFINE Values == [state : {"running", "completed", "failed"}, amount : {1, 2}]
<1>1. Command!TypeInv /\ Command!KeysInv /\ Command!BookedInv
  BY DEF Command!CommandInv
<1>2. /\ topUps[key].state = "running" /\ UNCHANGED <<order, entered, options, queue, noted, intents, told>>
      /\ UNCHANGED Command!ThisKey
  BY DEF Command!Work, Command!ThisKey
<1>3. PICK state \in {"completed", "failed"} :
        /\ topUps' = [topUps EXCEPT ![key].state = state]
        /\ applied' = IF state = "completed" THEN applied \cup {<<key, "upstreamRecharge">>} ELSE applied
  BY DEF Command!Work
<1>4. topUps \in [DOMAIN topUps -> Values]
  BY <1>1 DEF Command!TypeInv
<1>5. /\ DOMAIN topUps' = DOMAIN topUps /\ topUps' \in [DOMAIN topUps' -> Values]
      /\ topUps'[key].state = state
      /\ \A other \in DOMAIN topUps : other # key => topUps'[other] = topUps[other]
  BY <1>3, <1>4
<1>6. Command!TypeInv'
  BY <1>1, <1>2, <1>5 DEF Command!TypeInv
<1>7. Command!KeysInv'
  BY <1>1, <1>2, <1>3, <1>5 DEF Command!KeysInv, Command!BookedInv, Command!Asks, Command!Asked
<1>8. Command!BookedInv'
  BY <1>1, <1>2, <1>3, <1>5 DEF Command!BookedInv, Command!Agrees
<1> QED BY <1>6, <1>7, <1>8 DEF Command!CommandInv

LEMMA CommandNextHolds ==
  ASSUME Command!CommandInv, [Command!Next]_(Command!cliVars)
  PROVE  Command!CommandInv'
<1>1. CASE UNCHANGED Command!cliVars
  <2>1. UNCHANGED <<order, entered, options, queue, noted, intents, applied, topUps, told>>
    BY <1>1 DEF Command!cliVars
  <2> QED BY <2>1 DEF Command!CommandInv, Command!TypeInv, Command!KeysInv, Command!BookedInv,
                      Command!ThisKey, Command!Agrees, Command!Asks, Command!Asked
<1>2. ASSUME NEW o \in Command!Options(order), Command!Enter(o) PROVE Command!CommandInv'
  BY <1>2, EnterHolds
<1>3. CASE Command!WalletChanges
  <2>1. UNCHANGED <<order, entered, options, queue, noted, intents, applied, topUps, told>>
    BY <1>3 DEF Command!WalletChanges
  <2> QED BY <2>1 DEF Command!CommandInv, Command!TypeInv, Command!KeysInv, Command!BookedInv,
                      Command!ThisKey, Command!Agrees, Command!Asks, Command!Asked
<1>4. ASSUME NEW key \in DOMAIN topUps, Command!Work(key) PROVE Command!CommandInv'
  BY <1>4, WorkHolds
<1> QED BY <1>1, <1>2, <1>3, <1>4, CallHolds, NoAnswerHolds, NotReadyHolds DEF Command!Next

\* There are no more writes than keys that were wanted.
LEMMA CommandSuffices ==
  ASSUME Command!CommandInv
  PROVE  Command!EffectsAreAsked /\ Command!VerifiedIsBooked
<1>1. Command!EffectsAreAsked
  <2>1. PICK wanted \in SUBSET (0 .. entered) :
          /\ Command!Cardinality(wanted) <= Command!Asked
          /\ applied \subseteq wanted \X {Command!Writer(order)}
    BY DEF Command!CommandInv, Command!KeysInv
  <2> DEFINE pairs == wanted \X {Command!Writer(order)}
  <2>2. IsFiniteSet(wanted) /\ Cardinality(wanted) \in Nat
    <3>1. entered \in Nat
      BY DEF Command!CommandInv, Command!TypeInv
    <3>2. IsFiniteSet(0 .. entered)
      BY <3>1, FS_Interval
    <3> QED BY <3>2, FS_Subset, FS_CardinalityType
  <2>3. IsFiniteSet(pairs) /\ Cardinality(pairs) = Cardinality(wanted)
    <3>1. IsFiniteSet({Command!Writer(order)}) /\ Cardinality({Command!Writer(order)}) = 1
      BY FS_Singleton
    <3> QED BY <2>2, <3>1, FS_Product
  <2> HIDE DEF pairs
  <2>4. Cardinality(applied) <= Cardinality(pairs) /\ Cardinality(applied) \in Nat
    BY <2>1, <2>3, FS_Subset, FS_CardinalityType DEF pairs
  <2>5. Command!Asked \in Nat
    BY AskedIsCounted DEF Command!CommandInv, Command!TypeInv
  <2> QED BY <2>1, <2>2, <2>3, <2>4, <2>5, CommandCardinality DEF Command!EffectsAreAsked
<1>2. Command!VerifiedIsBooked
  BY DEF Command!CommandInv, Command!BookedInv, Command!VerifiedIsBooked, Command!Agrees
<1> QED BY <1>1, <1>2

-----------------------------------------------------------------------------

\* Answers, for any number of requests, keys, calls, sections, builds, files, faults and
\* edits: the entry of the response cache never gets older; a refresh of the scores that
\* is joined or started gives scores kept after it was asked for; a snapshot says of each
\* section what it is, and one that is told to be refreshed is not older than what was
\* served before; and an edit of the configuration that is not in use is found out,
\* unless it came between a reading and the fingerprint; a balance that the quota monitor
\* shows is the newest read of its wallet, whichever account read it and whoever failed
\* since; and however the upstream sends an answer, what was sent completely is heard
\* once, and a probe is of quality only if all of the answer is the sum that was asked for,
\* unless the upstream itself called a broken answer done.
THEOREM AnswersStayHonest == AnsweringSpec => []AnswersAreHonest
<1> DEFINE AInv == /\ part = "scores" => Scores!ScoreInv
                   /\ part = "responses" => Responses!ResponseInv
                   /\ part = "snapshot" => Snapshot!SnapshotInv
                   /\ part = "reload" => Reload!ReloadInv
                   /\ part = "quota" => Quota!QuotaInv
                   /\ part = "stream" => Stream!StreamInv
<1>1. AnsweringInit => AInv
  BY PartsBegin, ScoresInitHolds, ResponsesInitHolds, SnapshotInitHolds, ReloadInitHolds,
     QuotaInitHolds, StreamInitHolds
<1>2. AInv /\ [AnsweringNext]_vars => AInv'
  BY PartsTakeTurns, ScoresNextHolds, ResponsesNextHolds, SnapshotNextHolds, ReloadNextHolds,
     QuotaNextHolds, StreamNextHolds
<1>3. AInv => AnswersAreHonest
  BY SnapshotSuffices, ReloadSuffices DEF AnswersAreHonest, Scores!ScoreInv, Responses!ResponseInv, Quota!QuotaInv,
                                          Stream!StreamInv
<1> QED BY <1>1, <1>2, <1>3, PTL DEF AnsweringSpec

\* The pages, for any number of scopes, files, archives, actions, passes and reads by
\* others, and in whatever order answers arrive: the scheduling page that says it is
\* ready shows the scope in view and goes on refreshing; what is imported is what the
\* dialog counted, once at a time, when the operator waited for what was under way; and
\* the quota page shows summaries no older than the time to live, in the order of its
\* passes, with one timer.
THEOREM PagesStayHonest == AnsweringSpec => []PagesAreHonest
<1> DEFINE PInv == /\ part = "scheduling page" => Scheduling!SchedulingInv
                   /\ part = "import page" => Import!ImportInv
                   /\ part = "quota page" => Page!QuotaPageInv
<1>1. AnsweringInit => PInv
  BY PartsBegin, SchedulingInitHolds, ImportInitHolds, QuotaPageInitHolds
<1>2. PInv /\ [AnsweringNext]_vars => PInv'
  BY PartsTakeTurns, SchedulingNextHolds, ImportNextHolds, QuotaPageNextHolds
<1>3. PInv => PagesAreHonest
  BY QuotaPageSuffices DEF PagesAreHonest, Scheduling!SchedulingInv, Import!ImportInv
<1> QED BY <1>1, <1>2, <1>3, PTL DEF AnsweringSpec

\* The command line, for any number of times that a command is entered, with whatever
\* options, lost answers and changes of the wallet: a command writes at most once for each
\* time that it was confirmed, and `upstreams usage` and `accounts math-probe`, which need
\* no --confirm, at most once for each time that they were entered, however often a write
\* is repeated with its key; and a recharge that is shown as verified was booked with the
\* amount of the command.
THEOREM CommandsStaySafe == AnsweringSpec => []CommandsAreSafe
<1> DEFINE CInv == part = "command" => Command!CommandInv
<1>1. AnsweringInit => CInv
  BY PartsBegin, CommandInitHolds
<1>2. CInv /\ [AnsweringNext]_vars => CInv'
  BY PartsTakeTurns, CommandNextHolds
<1>3. CInv => CommandsAreSafe
  BY CommandSuffices DEF CommandsAreSafe
<1> QED BY <1>1, <1>2, <1>3, PTL DEF AnsweringSpec
=============================================================================
