---------------------------- MODULE SchedulingPage ----------------------------
(***************************************************************************)
(* The page of the upstream scheduling in the browser                      *)
(* (src/static/upstream-scheduling-v2.js): snapshots and probe history of  *)
(* the scope in view, read by requests that are answered in any order,     *)
(* fail, or are cut off after 20 seconds.                                  *)
(***************************************************************************)
EXTENDS Integers, FiniteSets

CONSTANTS
  Scopes,       \* enabled scopes
  MaxPages,     \* pages of the probe history
  MaxRequests,  \* bound: requests sent
  NoScope

VARIABLES
  activeScope,      \* state.activeScope
  scopeRequestId,   \* state.scopeRequestId: the latest request for a snapshot
  requests,         \* requests for snapshots under way
  probeRequests,    \* requests for pages of the probe history under way
  snapshot,         \* what the page shows: its scope and the request it answered
  probe,            \* the probe history it shows: scope and page
  dataState,        \* what the page says about it
  button,           \* whether the button to refresh can be used
  refreshTimer,     \* whether the next refresh is scheduled
  interval,         \* whether an interval is selected
  sent

pageVars == <<activeScope, scopeRequestId, requests, probeRequests, snapshot, probe,
              dataState, button, refreshTimer, interval, sent>>

Nothing == [scope |-> NoScope, id |-> 0]

\* The scopes have been read; the URL names one of them.
Init ==
  /\ activeScope = NoScope
  /\ scopeRequestId = 0 /\ requests = {} /\ probeRequests = {}
  /\ snapshot = Nothing /\ probe = [scope |-> NoScope, page |-> 1]
  /\ dataState = "empty" /\ button = TRUE /\ refreshTimer = FALSE
  /\ interval \in BOOLEAN
  /\ sent = 0

Send == sent < MaxRequests /\ sent' = sent + 1

\* clearAutoRefresh(), scheduleAutoRefresh()
ClearAutoRefresh == refreshTimer' = FALSE
ScheduleAutoRefresh == refreshTimer' = (activeScope' # NoScope /\ interval')

\* loadScope(): the refresh is rescheduled when the request ends.
LoadScope(scope) ==
  /\ Send
  /\ ClearAutoRefresh
  /\ scopeRequestId' = scopeRequestId + 1
  /\ requests' = requests \cup {[id |-> scopeRequestId + 1, scope |-> scope]}
  /\ button' = FALSE /\ dataState' = "refreshing"

\* A click on another scope, the browser's back and forward, the first scope.
\* What is shown stays until an answer arrives.
SwitchScope(scope) ==
  /\ scope # activeScope
  /\ activeScope' = scope
  /\ probe' = [probe EXCEPT !.page = 1]
  /\ LoadScope(scope)
  /\ UNCHANGED <<probeRequests, snapshot, interval>>

Refresh ==
  /\ activeScope # NoScope /\ button
  /\ LoadScope(activeScope)
  /\ UNCHANGED <<activeScope, probeRequests, snapshot, probe, interval>>

\* The timer refreshes even while a request that it did not start is under way.
AutoRefresh ==
  /\ refreshTimer
  /\ LoadScope(activeScope)
  /\ UNCHANGED <<activeScope, probeRequests, snapshot, probe, interval>>

SelectInterval ==
  /\ interval' = ~interval
  /\ UNCHANGED activeScope
  /\ ScheduleAutoRefresh
  /\ UNCHANGED <<scopeRequestId, requests, probeRequests, snapshot, probe, dataState, button, sent>>

\* Faulty: an answer counts when its scope is in view.
OfTheScope(request) == request.scope = activeScope

\* Faulty: an answer counts when it is the latest to arrive.
AnyAnswer(request) == TRUE

\* Only the answer to the latest request counts.
Current(request) == request.id = scopeRequestId /\ request.scope = activeScope

\* renderSnapshot() shows the first page of the probe history as well.
RenderSnapshot(request) ==
  /\ snapshot' = request
  /\ probe' = [scope |-> request.scope, page |-> 1]
  /\ dataState' = "ready"

RenderFailure ==
  /\ dataState' = "unavailable"
  /\ UNCHANGED <<snapshot, probe>>

\* requestJson() answers, fails, or is cut off.
Answer(request, ok) ==
  /\ requests' = requests \ {request}
  /\ IF Current(request)
     THEN /\ IF ok THEN RenderSnapshot(request) ELSE RenderFailure
          /\ UNCHANGED <<activeScope, interval>>
          /\ button' = TRUE /\ ScheduleAutoRefresh
     ELSE UNCHANGED <<activeScope, interval, snapshot, probe, dataState, button, refreshTimer>>
  /\ UNCHANGED <<scopeRequestId, probeRequests, sent>>

-----------------------------------------------------------------------------
(* The pages of the probe history *)

TurnPage(step) ==
  /\ activeScope # NoScope /\ Send
  /\ probe.page + step \in 1 .. MaxPages
  /\ probeRequests' = probeRequests \cup {[scope |-> activeScope, page |-> probe.page + step]}
  /\ UNCHANGED <<activeScope, scopeRequestId, requests, snapshot, probe, dataState, button, refreshTimer, interval>>

\* Faulty: the page is shown whatever scope is in view by then.
RenderAnyProbeHistory(request) == probe' = request

RenderProbeHistory(request) == probe' = IF request.scope = activeScope THEN request ELSE probe

\* loadProbeHistory(): a page that cannot be read changes nothing.
ProbeAnswer(request, ok) ==
  /\ probeRequests' = probeRequests \ {request}
  /\ IF ok THEN RenderProbeHistory(request) ELSE UNCHANGED probe
  /\ UNCHANGED <<activeScope, scopeRequestId, requests, snapshot, dataState, button, refreshTimer, interval, sent>>

Next ==
  \/ \E scope \in Scopes : SwitchScope(scope)
  \/ Refresh \/ AutoRefresh \/ SelectInterval
  \/ \E request \in requests, ok \in BOOLEAN : Answer(request, ok)
  \/ \E step \in {-1, 1} : TurnPage(step)
  \/ \E request \in probeRequests, ok \in BOOLEAN : ProbeAnswer(request, ok)

-----------------------------------------------------------------------------
(* Properties *)

\* upstream-scheduling.md: the page that says it is ready shows the scope in view
\* and nothing of another one, and its data are the answer to the latest request,
\* in whatever order the answers arrived.
ShowsTheScopeInView ==
  dataState = "ready" =>
    /\ snapshot.scope = activeScope /\ snapshot.id = scopeRequestId
    /\ probe.scope = activeScope

\* The page neither hangs nor goes quiet: unless it waits for the latest request,
\* the button works and, when an interval is selected, a refresh is scheduled; one
\* that waits does not look ready.
RefreshGoesOn ==
  activeScope # NoScope =>
    IF \E request \in requests : request.id = scopeRequestId
    THEN dataState = "refreshing"
    ELSE button /\ (interval => refreshTimer)

-----------------------------------------------------------------------------
(* The inductive invariant behind the properties *)

TypeInv ==
  /\ scopeRequestId \in Nat
  /\ requests \subseteq [id : Nat, scope : Scopes \cup {NoScope}]
  /\ activeScope \in Scopes \cup {NoScope}
  /\ interval \in BOOLEAN /\ refreshTimer \in BOOLEAN /\ button \in BOOLEAN

\* The latest request is for the scope in view, and a page that waits for it does not
\* look ready.
RequestInv ==
  /\ \A request \in requests :
       /\ request.id <= scopeRequestId
       /\ request.id = scopeRequestId => request.scope = activeScope /\ dataState # "ready"
  /\ \A request, other \in requests : request.id = other.id => request = other

SchedulingInv == TypeInv /\ RequestInv /\ ShowsTheScopeInView /\ RefreshGoesOn
=============================================================================
