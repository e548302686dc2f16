---------------------------- MODULE ResponseCache ----------------------------
(***************************************************************************)
(* The response cache of the API (cachedHandle() of createHandler() and    *)
(* the functions around it, src/src/http.ts; getApiCache() and             *)
(* setApiCache() of src/src/operations-store.ts).                          *)
(*                                                                         *)
(* A GET of a cacheable path is answered from the store; only a request    *)
(* that asks for a refresh reaches the handler, and requests for the same  *)
(* key share one refresh.  The body of a response is the version of what   *)
(* the handler reads, which changes all the time.                          *)
(***************************************************************************)
EXTENDS Integers, FiniteSets

CONSTANTS
  Requests, Keys,
  NoOne,          \* no request
  MaxVersion,     \* bound: changes of what the handler reads
  MaxCacheFaults  \* bound: failures and restarts

VARIABLES
  request,   \* what each request is, where it is, what it was answered
  live,      \* version of what the handler reads
  entry,     \* cached version for each key, 0 when there is none
  inflight,  \* cacheRefreshes: the request that refreshes each key, or none
  job,       \* the refresh that each request started
  shownBody, \* newest version answered for each key
  cacheFaults

cacheVars == <<request, live, entry, inflight, job, shownBody, cacheFaults>>

\* A GET of a cacheable path, with or without the refresh header; any other
\* request; a request without a session or an API key.
Kinds == {"read", "refresh", "other", "refused"}
NoJob == [stage |-> "none", read |-> 0]

Init ==
  /\ request \in [Requests -> [kind : Kinds, key : Keys, stage : {"new"}, awaits : {NoOne},
                             floor : {0}, seen : {0}, got : {0}]]
  /\ live = 1
  /\ entry = [k \in Keys |-> 0]
  /\ inflight = [k \in Keys |-> NoOne]
  /\ job = [r \in Requests |-> NoJob]
  /\ shownBody = [k \in Keys |-> 0]
  /\ cacheFaults = 0

Fault == cacheFaults < MaxCacheFaults /\ cacheFaults' = cacheFaults + 1

Answered(r, status, version) ==
  [request[r] EXCEPT !.stage = status, !.got = version]

\* Everybody who awaits the refresh of `owner` learns how it ended.
Tell(owner, stage) ==
  /\ request' = [r \in Requests |->
       IF request[r].stage = "joined" /\ request[r].awaits = owner
       THEN [request[r] EXCEPT !.stage = stage] ELSE request[r]]
  /\ job' = [job EXCEPT ![owner] = NoJob]
  /\ inflight' = [k \in Keys |-> IF inflight[k] = owner THEN NoOne ELSE inflight[k]]

-----------------------------------------------------------------------------
(* cachedHandle() *)

\* isApiResponseCacheable() and the credentials: everything else is handled.
Cacheable(r) == request[r].kind \in {"read", "refresh"}

Handle(r) ==
  /\ request[r].stage = "new" /\ ~ Cacheable(r)
  /\ request' = [request EXCEPT ![r] =
       IF request[r].kind = "refused" THEN Answered(r, "refused", 0) ELSE Answered(r, "handled", live)]
  /\ UNCHANGED <<live, entry, inflight, job, shownBody, cacheFaults>>

\* readApiCache(): no entry is not an error, and nothing is refreshed for it.
ReadApiCache(r) ==
  /\ request[r].stage = "new" /\ request[r].kind = "read"
  /\ LET k == request[r].key
     IN \/ /\ request' = [request EXCEPT ![r] =
                IF entry[k] = 0 THEN [@ EXCEPT !.stage = "miss", !.floor = shownBody[k]]
                ELSE [@ EXCEPT !.stage = "hit", !.floor = shownBody[k], !.got = entry[k]]]
           /\ shownBody' = IF entry[k] > shownBody[k] THEN [shownBody EXCEPT ![k] = entry[k]] ELSE shownBody
           /\ UNCHANGED cacheFaults
        \/ Fault /\ request' = [request EXCEPT ![r] = Answered(r, "error", 0)] /\ UNCHANGED shownBody
  /\ UNCHANGED <<live, entry, inflight, job>>

\* Faulty: every request refreshes for itself.
NoneShared(r) == r

\* The first of the requests for a key refreshes it for all.
Owner(r) == IF inflight[request[r].key] = NoOne THEN r ELSE inflight[request[r].key]

Join(r) ==
  /\ request[r].stage = "new" /\ request[r].kind = "refresh"
  /\ LET k == request[r].key
     IN /\ request' = [request EXCEPT ![r].stage = "joined", ![r].awaits = Owner(r),
                                      ![r].floor = shownBody[k], ![r].seen = entry[k]]
        /\ inflight' = [inflight EXCEPT ![k] = Owner(r)]
  /\ job' = IF Owner(r) = r THEN [job EXCEPT ![r] = [stage |-> "refresh", read |-> 0]] ELSE job
  /\ UNCHANGED <<live, entry, shownBody, cacheFaults>>

\* handle() answers, or fails: an error is told and never written.
RefreshBody(r) ==
  /\ job[r].stage = "refresh"
  /\ \/ job' = [job EXCEPT ![r] = [stage |-> "write", read |-> live]] /\ UNCHANGED <<request, inflight, cacheFaults>>
     \/ Fault /\ Tell(r, "error")
  /\ UNCHANGED <<live, entry, shownBody>>

SetApiCache(r) == entry' = [entry EXCEPT ![request[r].key] = job[r].read]

\* A write that fails may have been executed.
Write(r) ==
  /\ job[r].stage = "write"
  /\ \/ SetApiCache(r) /\ Tell(r, "written") /\ UNCHANGED cacheFaults
     \/ Fault /\ Tell(r, "error") /\ (SetApiCache(r) \/ UNCHANGED entry)
  /\ UNCHANGED <<live, shownBody>>

\* Whoever asked for the refresh reads the entry back.
ReadBack(r) ==
  /\ request[r].stage = "written"
  /\ LET k == request[r].key
     IN \/ /\ request' = [request EXCEPT ![r] =
                IF entry[k] = 0 THEN Answered(r, "error", 0) ELSE Answered(r, "refreshed", entry[k])]
           /\ shownBody' = IF entry[k] > shownBody[k] THEN [shownBody EXCEPT ![k] = entry[k]] ELSE shownBody
           /\ UNCHANGED cacheFaults
        \/ Fault /\ request' = [request EXCEPT ![r] = Answered(r, "error", 0)] /\ UNCHANGED shownBody
  /\ UNCHANGED <<live, entry, inflight, job>>

-----------------------------------------------------------------------------
(* What the handler reads changes, and the process ends *)

Change ==
  /\ live < MaxVersion /\ live' = live + 1
  /\ UNCHANGED <<request, entry, inflight, job, shownBody, cacheFaults>>

Restart ==
  /\ Fault
  /\ job' = [r \in Requests |-> NoJob] /\ inflight' = [k \in Keys |-> NoOne]
  /\ request' = [r \in Requests |->
       IF request[r].stage \in {"joined", "written"} THEN Answered(r, "lost", 0) ELSE request[r]]
  /\ UNCHANGED <<live, entry, shownBody>>

Next ==
  \/ \E r \in Requests : Handle(r) \/ ReadApiCache(r) \/ Join(r) \/ RefreshBody(r) \/ Write(r) \/ ReadBack(r)
  \/ Change \/ Restart

-----------------------------------------------------------------------------
(* Properties *)

\* refreshThenReadApiCache() and readApiCache(): the entry of a key never gets
\* older, so nobody is answered less than what was answered before it asked; a
\* refresh that succeeds has replaced the entry there was, or an equal one.
AnswersNeverGoBack ==
  \A r \in Requests :
    /\ request[r].stage \in {"hit", "refreshed"} => request[r].got >= request[r].floor
    /\ request[r].stage = "miss" => request[r].floor = 0
    /\ request[r].stage = "refreshed" => request[r].got >= request[r].seen

-----------------------------------------------------------------------------
(* The inductive invariant behind the properties *)

Stages == {"new", "refused", "handled", "hit", "miss", "error", "joined", "written", "refreshed", "lost"}
RequestValues ==
  [kind : Kinds, key : Keys, stage : Stages, awaits : Requests \cup {NoOne}, floor : Nat, seen : Nat, got : Nat]

TypeInv ==
  /\ request \in [Requests -> RequestValues]
  /\ live \in Nat /\ entry \in [Keys -> Nat] /\ shownBody \in [Keys -> Nat]
  /\ inflight \in [Keys -> Requests \cup {NoOne}]
  /\ job \in [Requests -> [stage : {"none", "refresh", "write"}, read : Nat]]

\* What was shown was kept, what is kept was read.
EntryInv == \A k \in Keys : shownBody[k] <= entry[k] /\ entry[k] <= live

\* A key has one refresh, and what it read is as new as the entry.
JobInv(r) ==
  /\ job[r].stage # "none" => inflight[request[r].key] = r
  /\ job[r].stage = "write" => entry[request[r].key] <= job[r].read /\ job[r].read <= live

\* The entry is as new as what a request that is under way has to get.
RequestInv(r) ==
  /\ request[r].stage \in {"joined", "written"} =>
       request[r].floor <= entry[request[r].key] /\ request[r].seen <= entry[request[r].key]

ResponseInv ==
  /\ TypeInv /\ EntryInv /\ AnswersNeverGoBack
  /\ \A r \in Requests : JobInv(r) /\ RequestInv(r)
=============================================================================
