----------------------------- MODULE ApiKeyCutoff -----------------------------
(***************************************************************************)
(* Temporary cutoffs of API key accounts.  A cutoff is a Temporal workflow *)
(* (ApiKeyCutoffWorkflow) of three kinds of activity, each one call of the *)
(* API: "disable" finds the schedulable API key accounts, switches them    *)
(* off and reads them back; "guard" asks every few seconds whether the     *)
(* OAuth pool still has an account; "restore" switches on again what the   *)
(* cutoff had found on.  A cutoff for an external error covers one account *)
(* and waits without a guard.  Several cutoffs may overlap, administrators *)
(* switch accounts meanwhile, and no activity is retried.                  *)
(***************************************************************************)
EXTENDS Naturals, FiniteSets

CONSTANTS
  Accounts,    \* the OpenAI API key accounts of Sub2API
  Cutoffs,     \* cutoff workflows that may be started
  MaxFaults    \* bound: failing calls and timeouts

ASSUME MaxFaultsAssumption == MaxFaults \in Nat

VARIABLES
  schedulable,  \* accounts that are on in Sub2API
  adminOff,     \* accounts whose last switch by hand was to off
  active,       \* accounts whose status in Sub2API is active
  oauth,        \* whether the OAuth pool has an available account
  kind,         \* the scope of each cutoff: all accounts, or one
  phase,        \* what each workflow does next
  cut,          \* accounts the cutoff found on: what it may switch on again
  targets,      \* accounts its restore activity is about to switch on
  due,          \* cutoffs whose deadline has passed
  signalled,    \* cutoffs that received restore-now
  faults

accounts == <<schedulable, adminOff, active>>
flags    == <<due, signalled>>
vars     == <<accounts, oauth, kind, phase, cut, targets, flags, faults>>

Manual   == [account : {"all"}, live : {TRUE}]
External == [account : Accounts, live : BOOLEAN]
Kinds    == Manual \cup External

IsManual(c) == kind[c] \in Manual
Running(c)  == phase[c] \in {"check", "read", "write", "verify", "guard", "timer",
                             "hold", "restore", "restoring"}
InForce(c)  == phase[c] \in {"guard", "timer", "hold"}

Init ==
  /\ adminOff \in SUBSET Accounts
  /\ schedulable = Accounts \ adminOff
  /\ active = Accounts
  /\ oauth = TRUE
  /\ kind \in [Cutoffs -> Kinds]
  /\ phase = [c \in Cutoffs |-> "none"]
  /\ cut = [c \in Cutoffs |-> {}]
  /\ targets = [c \in Cutoffs |-> {}]
  /\ due = {}
  /\ signalled = {}
  /\ faults = 0

Goto(c, p) == phase' = [phase EXCEPT ![c] = p]

\* The workflow is over and its timers, signals and variables with it.
Closes(c, p) ==
  /\ Goto(c, p)
  /\ targets' = [targets EXCEPT ![c] = {}]
  /\ due' = due \ {c}
  /\ signalled' = signalled \ {c}

-----------------------------------------------------------------------------
(* The disable activity *)

\* The HTTP handlers: a manual cutoff is refused when the OAuth pool is empty.
Submit(c) ==
  /\ phase[c] = "none"
  /\ IsManual(c) => oauth
  /\ Goto(c, "check")
  /\ UNCHANGED <<accounts, oauth, kind, cut, targets, flags, faults>>

\* beginApiKeyCutoff asserts again that the OAuth pool has an account.
Check(c) ==
  /\ phase[c] = "check"
  /\ IF IsManual(c) /\ ~oauth
       THEN Closes(c, "refused")
       ELSE Goto(c, "read") /\ UNCHANGED <<targets, flags>>
  /\ UNCHANGED <<accounts, oauth, kind, cut, faults>>

\* The accounts in scope that are on.
On(c) == IF IsManual(c) THEN schedulable ELSE schedulable \cap {kind[c].account}

\* Mutant: beforeSchedulable is taken after the account was switched off.
FoundAfter(c) == IF IsManual(c) THEN schedulable ELSE {}

\* What the disable activity reports as found on: its list of accounts, or
\* the beforeSchedulable it writes to the ledger.
Found(c) == On(c)

\* The disable activity is over.  A restore-now that is already there is heard.
AfterDisable(c) ==
  IF ~IsManual(c) THEN "hold" ELSE IF c \in signalled THEN "restore" ELSE "guard"

Read(c) ==
  /\ phase[c] = "read"
  /\ cut' = [cut EXCEPT ![c] = Found(c)]
  /\ Goto(c, IF kind[c].live /\ On(c) # {} THEN "write" ELSE AfterDisable(c))
  /\ UNCHANGED <<accounts, oauth, kind, targets, flags, faults>>

\* What the write switches off.
Covered(c) == IF IsManual(c) THEN cut[c] ELSE {kind[c].account}

SwitchOff(c) ==
  /\ phase[c] = "write"
  /\ schedulable' = schedulable \ Covered(c)
  /\ Goto(c, IF IsManual(c) THEN "verify" ELSE AfterDisable(c))
  /\ UNCHANGED <<adminOff, active, oauth, kind, cut, targets, flags, faults>>

\* The accounts are read back: an account that is on again fails the activity.
Verify(c) ==
  /\ phase[c] = "verify"
  /\ IF cut[c] \cap schedulable = {}
       THEN Goto(c, AfterDisable(c)) /\ UNCHANGED <<targets, flags>>
       ELSE Closes(c, "failed")
  /\ UNCHANGED <<accounts, oauth, kind, cut, faults>>

-----------------------------------------------------------------------------
(* The cutoff in force *)

\* Mutant: the guard's answer is ignored.
GuardIgnored(c) ==
  /\ phase[c] = "guard"
  /\ Goto(c, "timer")
  /\ UNCHANGED <<accounts, oauth, kind, cut, targets, flags, faults>>

Guard(c) ==
  /\ phase[c] = "guard"
  /\ Goto(c, IF oauth THEN "timer" ELSE "restore")
  /\ UNCHANGED <<accounts, oauth, kind, cut, targets, flags, faults>>

\* Mutant: the selector waits for the timer alone.
TimerDeaf(c) ==
  /\ phase[c] = "timer"
  /\ Goto(c, IF c \in due THEN "restore" ELSE "guard")
  /\ UNCHANGED <<accounts, oauth, kind, cut, targets, flags, faults>>

\* The timer of at most five seconds fires or the signal arrives.
Timer(c) ==
  /\ phase[c] = "timer"
  /\ Goto(c, IF c \in due \cup signalled THEN "restore" ELSE "guard")
  /\ UNCHANGED <<accounts, oauth, kind, cut, targets, flags, faults>>

\* An external cutoff waits for its deadline or the signal, without a guard.
Hold(c) ==
  /\ phase[c] = "hold"
  /\ c \in due \cup signalled
  /\ Goto(c, "restore")
  /\ UNCHANGED <<accounts, oauth, kind, cut, targets, flags, faults>>

DeadlinePasses(c) ==
  /\ InForce(c) /\ c \notin due
  /\ due' = due \cup {c}
  /\ UNCHANGED <<accounts, oauth, kind, phase, cut, targets, signalled, faults>>

RestoreNow(c) ==
  /\ Running(c) /\ c \notin signalled
  /\ signalled' = signalled \cup {c}
  /\ UNCHANGED <<accounts, oauth, kind, phase, cut, targets, due, faults>>

-----------------------------------------------------------------------------
(* The restore activity *)

\* Mutant: an external restore does not ask whose doing it was.
TargetsUnowned(c) ==
  IF IsManual(c) THEN cut[c] \ schedulable
  ELSE IF kind[c].live THEN ({kind[c].account} \cap active) \ schedulable ELSE {}

\* What is still off of what the cutoff found on; an external restore leaves
\* accounts alone that are not active, and only reports in a dry run.
Targets(c) ==
  IF IsManual(c) THEN cut[c] \ schedulable
  ELSE IF kind[c].live THEN (cut[c] \cap active) \ schedulable ELSE {}

RestoreRead(c) ==
  /\ phase[c] = "restore"
  /\ targets' = [targets EXCEPT ![c] = Targets(c)]
  /\ Goto(c, "restoring")
  /\ UNCHANGED <<accounts, oauth, kind, cut, flags, faults>>

SwitchOn(c) ==
  /\ phase[c] = "restoring"
  /\ schedulable' = schedulable \cup targets[c]
  /\ Closes(c, "done")
  /\ UNCHANGED <<adminOff, active, oauth, kind, cut, faults>>

-----------------------------------------------------------------------------
(* Failures and the environment *)

Fault == faults < MaxFaults /\ faults' = faults + 1

\* An activity fails or its answer is lost, or the workflow exceeds its
\* execution timeout: the workflow ends without a restore.
Fails(c) ==
  /\ Running(c)
  /\ Fault
  /\ Closes(c, "failed")
  /\ UNCHANGED <<accounts, oauth, kind, cut>>

\* A bulk update fails after it has reached some of its accounts.
SwitchFails(c) ==
  /\ Fault
  /\ \/ /\ phase[c] = "write"
        /\ \E reached \in SUBSET Covered(c) : schedulable' = schedulable \ reached
     \/ /\ phase[c] = "restoring"
        /\ \E reached \in SUBSET targets[c] : schedulable' = schedulable \cup reached
  /\ Closes(c, "failed")
  /\ UNCHANGED <<adminOff, active, oauth, kind, cut>>

AdminSwitchesOff(a) ==
  /\ a \notin adminOff
  /\ adminOff' = adminOff \cup {a}
  /\ schedulable' = schedulable \ {a}
  /\ UNCHANGED <<active, oauth, kind, phase, cut, targets, flags, faults>>

AdminSwitchesOn(a) ==
  /\ a \in adminOff \/ a \notin active
  /\ adminOff' = adminOff \ {a}
  /\ schedulable' = schedulable \cup {a}
  /\ active' = active \cup {a}
  /\ UNCHANGED <<oauth, kind, phase, cut, targets, flags, faults>>

AccountBreaks(a) ==
  /\ a \in active
  /\ active' = active \ {a}
  /\ UNCHANGED <<schedulable, adminOff, oauth, kind, phase, cut, targets, flags, faults>>

OAuthPoolChanges ==
  /\ oauth' = ~oauth
  /\ UNCHANGED <<accounts, kind, phase, cut, targets, flags, faults>>

-----------------------------------------------------------------------------
Workflow(c) ==
  \/ Check(c) \/ Read(c) \/ SwitchOff(c) \/ Verify(c)
  \/ Guard(c) \/ Timer(c) \/ Hold(c)
  \/ RestoreRead(c) \/ SwitchOn(c)

Next ==
  \/ \E c \in Cutoffs :
       Submit(c) \/ Workflow(c) \/ DeadlinePasses(c) \/ RestoreNow(c) \/ Fails(c) \/ SwitchFails(c)
  \/ \E a \in Accounts : AdminSwitchesOff(a) \/ AdminSwitchesOn(a) \/ AccountBreaks(a)
  \/ OAuthPoolChanges

Spec == Init /\ [][Next]_vars

\* The worker runs the workflow's steps.
FairSpec == Spec /\ \A c \in Cutoffs : WF_vars(Workflow(c))

\* ... and time passes: only needed where a property is about the deadline.
PunctualSpec == FairSpec /\ \A c \in Cutoffs : WF_vars(DeadlinePasses(c))

-----------------------------------------------------------------------------
(* Properties *)

\* The type invariant: only manual cutoffs are guarded.
TypeOK ==
  /\ adminOff \subseteq Accounts
  /\ schedulable \subseteq Accounts
  /\ active \subseteq Accounts
  /\ oauth \in BOOLEAN
  /\ kind \in [Cutoffs -> Kinds]
  /\ phase \in [Cutoffs -> {"none", "check", "read", "write", "verify", "guard", "timer",
                            "hold", "restore", "restoring", "done", "refused", "failed"}]
  /\ \A c \in Cutoffs : phase[c] \in {"verify", "guard", "timer"} => IsManual(c)
  /\ cut \in [Cutoffs -> SUBSET Accounts]
  /\ targets \in [Cutoffs -> SUBSET Accounts]
  /\ due \subseteq Cutoffs
  /\ signalled \subseteq Cutoffs
  /\ faults \in 0 .. MaxFaults

\* An account that was switched off by hand is on again only if some cutoff
\* had found it on: restores never revive what they did not cut (the ledger's
\* beforeSchedulable, the list of the disable activity).
HandsOff == \A a \in adminOff \cap schedulable : \E c \in Cutoffs : a \in cut[c]

\* When every cutoff has come to its end, overlapping or not, each account is
\* on again, save those switched off by hand and those that broke down
\* (restoreApiKeyCutoff and restoreExternalCutoff).
NothingLeftOff ==
  (\A c \in Cutoffs : phase[c] \in {"none", "refused", "done"}) =>
    (active \ adminOff) \subseteq schedulable

\* A cutoff that is due or was told to restore ends, with its accounts
\* restored or its workflow failed (the selectors of ApiKeyCutoffWorkflow).
EndsOnRequest ==
  \A c \in Cutoffs :
    (InForce(c) /\ c \in due \cup signalled) ~> phase[c] \in {"done", "failed"}

\* When the OAuth pool stays empty, a manual cutoff ends without waiting for
\* its deadline (guardApiKeyCutoff).
GuardProtects ==
  \A c \in Cutoffs :
    <>[](~oauth) => [](IsManual(c) /\ InForce(c) => <>(phase[c] \in {"done", "failed"}))

\* What the page says of a cutoff: its accounts come back by themselves.  The
\* accounts a cutoff has switched off are on again at some later time.
ComesBackByItself ==
  \A c \in Cutoffs, a \in Accounts :
    (phase[c] \in {"verify", "hold"} /\ a \in cut[c] \ (schedulable \cup adminOff) /\ a \in active)
      ~> (a \in schedulable \cup adminOff \/ a \notin active)
=============================================================================
