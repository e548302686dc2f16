-------------------------- MODULE ApiKeyCutoffProofs --------------------------
(* TLAPS proofs about ApiKeyCutoff, for any accounts, any number of          *)
(* overlapping cutoffs and any number of failures.                           *)
EXTENDS ApiKeyCutoff, TLAPS

\* A cutoff that has not read its accounts yet has cut nothing, a restore
\* touches only what was cut, and a write covers only what was found on.
CutInv ==
  \A c \in Cutoffs :
    /\ phase[c] \in {"none", "check", "read", "refused"} => cut[c] = {}
    /\ targets[c] \subseteq cut[c]
    /\ phase[c] = "write" => kind[c].live /\ Covered(c) \subseteq cut[c]

\* A cutoff answers for an account: it has switched it off or is about to
\* switch it on again, or it has failed.
AnswersFor(c, a) ==
  /\ kind[c].live
  /\ a \in cut[c]
  /\ \/ phase[c] \in {"verify", "guard", "timer", "hold", "restore", "failed"}
     \/ phase[c] = "restoring" /\ a \in targets[c]

\* An account that is off, though neither by hand nor broken, has a cutoff
\* that answers for it.
OffInv ==
  \A a \in active \ adminOff : a \notin schedulable => \E c \in Cutoffs : AnswersFor(c, a)

IInv == TypeOK /\ CutInv /\ HandsOff /\ OffInv

\* Initially all accounts are on but those switched off by hand.
LEMMA InitInv == Init => IInv
<1> SUFFICES ASSUME Init PROVE IInv
  OBVIOUS
<1>1. TypeOK
  BY MaxFaultsAssumption DEF Init, TypeOK
<1>2. CutInv /\ HandsOff /\ OffInv
  BY DEF Init, CutInv, HandsOff, OffInv
<1> QED BY <1>1, <1>2 DEF IInv

\* The mode of a manual cutoff is live.
LEMMA ManualIsLive == ASSUME NEW c, IsManual(c) PROVE kind[c].live
  BY DEF IsManual, Manual

\* A step of one cutoff that switches nothing and after which the cutoff
\* still answers for the accounts it answered for.
LEMMA PhaseStep ==
  ASSUME IInv, TypeOK', NEW c \in Cutoffs, NEW p,
         Goto(c, p) \/ Closes(c, p),
         p \notin {"none", "check", "read", "refused"} \/ cut[c] = {},
         p # "write",
         UNCHANGED <<accounts, kind, cut>>,
         targets'[c] \subseteq cut[c],
         \A d \in Cutoffs \ {c} : targets'[d] = targets[d],
         \A a \in active \ schedulable : AnswersFor(c, a) => AnswersFor(c, a)'
  PROVE  IInv'
<1> USE DEF IInv, Goto, Closes, accounts
<1>1. /\ schedulable' = schedulable /\ adminOff' = adminOff /\ active' = active
      /\ kind' = kind /\ cut' = cut
  OBVIOUS
<1>2. phase' = [phase EXCEPT ![c] = p]
  OBVIOUS
<1>3. ASSUME NEW d \in Cutoffs, d # c
      PROVE  phase'[d] = phase[d] /\ targets'[d] = targets[d]
  BY <1>2, <1>3 DEF TypeOK
<1>4. phase'[c] = p
  BY <1>2 DEF TypeOK
<1>5. CutInv'
  BY <1>1, <1>3, <1>4 DEF CutInv, Covered, IsManual
<1>6. HandsOff'
  BY <1>1 DEF HandsOff
<1>7. OffInv'
  <2> SUFFICES ASSUME NEW a \in active \ adminOff, a \notin schedulable
               PROVE  \E d \in Cutoffs : AnswersFor(d, a)'
    BY <1>1 DEF OffInv
  <2>1. PICK d \in Cutoffs : AnswersFor(d, a)
    BY DEF OffInv
  <2>2. CASE d = c
    BY <2>1, <2>2
  <2>3. CASE d # c
    BY <1>1, <1>3, <2>1, <2>3 DEF AnswersFor
  <2> QED BY <2>2, <2>3
<1> QED BY <1>5, <1>6, <1>7

\* Every step keeps the types.
LEMMA TypeStep == ASSUME TypeOK, Next PROVE TypeOK'
<1> USE DEF Goto, Closes, accounts, flags, Fault, IsManual
<1>0. ASSUME NEW c PROVE /\ AfterDisable(c) \in {"hold", "restore", "guard"}
                         /\ AfterDisable(c) = "guard" => IsManual(c)
  BY DEF AfterDisable
<1>1. ASSUME NEW c \in Cutoffs, Submit(c) \/ Check(c) \/ Read(c) \/ SwitchOff(c) \/ Verify(c)
      PROVE  TypeOK'
  <2>1. CASE Submit(c)
    BY <2>1 DEF TypeOK, Submit
  <2>2. CASE Check(c)
    BY <2>2 DEF TypeOK, Check
  <2>3. CASE Read(c)
    <3>1. Found(c) \subseteq Accounts
      BY DEF Found, On, TypeOK
    <3>2. PICK p \in {"write", "hold", "restore", "guard"} : Goto(c, p) /\ (p = "guard" => IsManual(c))
      BY <1>0, <2>3 DEF Read
    <3> QED BY <2>3, <3>1, <3>2 DEF TypeOK, Read
  <2>4. CASE SwitchOff(c)
    <3>1. PICK p \in {"verify", "hold", "restore", "guard"} :
            Goto(c, p) /\ (p \in {"verify", "guard"} => IsManual(c))
      BY <1>0, <2>4 DEF SwitchOff
    <3> QED BY <2>4, <3>1 DEF TypeOK, SwitchOff
  <2>5. CASE Verify(c)
    <3> QED BY <1>0, <2>5 DEF TypeOK, Verify
  <2> QED BY <1>1, <2>1, <2>2, <2>3, <2>4, <2>5
<1>2. ASSUME NEW c \in Cutoffs, Guard(c) \/ Timer(c) \/ Hold(c) \/ RestoreRead(c) \/ SwitchOn(c)
      PROVE  TypeOK'
  <2>1. CASE Guard(c) \/ Timer(c) \/ Hold(c)
    BY <2>1 DEF TypeOK, Guard, Timer, Hold
  <2>2. CASE RestoreRead(c)
    BY <2>2 DEF TypeOK, RestoreRead, Targets
  <2>3. CASE SwitchOn(c)
    BY <2>3 DEF TypeOK, SwitchOn
  <2> QED BY <1>2, <2>1, <2>2, <2>3
<1>3. ASSUME NEW c \in Cutoffs, DeadlinePasses(c) \/ RestoreNow(c) PROVE TypeOK'
  BY <1>3 DEF TypeOK, DeadlinePasses, RestoreNow
<1>4. ASSUME NEW c \in Cutoffs, Fails(c) PROVE TypeOK'
  BY <1>4, MaxFaultsAssumption DEF TypeOK, Fails
<1>5. ASSUME NEW c \in Cutoffs, SwitchFails(c) PROVE TypeOK'
  <2>1. schedulable' \subseteq Accounts
    BY <1>5 DEF TypeOK, SwitchFails
  <2>2. faults' \in 0 .. MaxFaults
    BY <1>5, MaxFaultsAssumption DEF TypeOK, SwitchFails
  <2> QED BY <1>5, <2>1, <2>2 DEF TypeOK, SwitchFails
<1>6. ASSUME NEW a \in Accounts, AdminSwitchesOff(a) \/ AdminSwitchesOn(a) \/ AccountBreaks(a)
      PROVE  TypeOK'
  BY <1>6 DEF TypeOK, AdminSwitchesOff, AdminSwitchesOn, AccountBreaks
<1>7. ASSUME OAuthPoolChanges PROVE TypeOK'
  BY <1>7 DEF TypeOK, OAuthPoolChanges
<1> QED BY <1>1, <1>2, <1>3, <1>4, <1>5, <1>6, <1>7 DEF Next, Workflow

\* The disable activity up to its write.
LEMMA DisableStep ==
  ASSUME IInv, TypeOK', NEW c \in Cutoffs, Submit(c) \/ Check(c) \/ Verify(c)
  PROVE  IInv'
<1> USE DEF IInv
<1>1. CASE Submit(c)
  <2>1. targets'[c] \subseteq cut[c] /\ cut[c] = {}
    BY <1>1 DEF Submit, CutInv
  <2> QED BY <1>1, <2>1, PhaseStep DEF Submit, AnswersFor
<1>2. CASE Check(c)
  <2>1. cut[c] = {} /\ targets[c] = {}
    BY <1>2 DEF Check, CutInv
  <2>2. \A d \in Cutoffs : targets'[d] = targets[d]
    BY <1>2, <2>1 DEF Check, Closes, TypeOK
  <2>3. CASE Closes(c, "refused")
    BY <1>2, <2>1, <2>2, <2>3, PhaseStep DEF Check, AnswersFor
  <2>4. CASE Goto(c, "read")
    BY <1>2, <2>1, <2>2, <2>4, PhaseStep DEF Check, AnswersFor
  <2> QED BY <1>2, <2>3, <2>4 DEF Check
<1>3. CASE Verify(c)
  <2>1. \A d \in Cutoffs \ {c} : targets'[d] = targets[d]
    BY <1>3 DEF Verify, Closes, TypeOK
  <2>2. targets'[c] \subseteq cut[c]
    BY <1>3 DEF Verify, Closes, CutInv, TypeOK
  <2>3. CASE Closes(c, "failed")
    <3>1. \A a : AnswersFor(c, a) => AnswersFor(c, a)'
      BY <1>3, <2>3 DEF Verify, Closes, Goto, AnswersFor, TypeOK
    <3> QED BY <1>3, <2>1, <2>2, <2>3, <3>1, PhaseStep DEF Verify
  <2>4. CASE Goto(c, AfterDisable(c))
    <3>1. AfterDisable(c) \in {"hold", "restore", "guard"}
      BY DEF AfterDisable
    <3>2. \A a : AnswersFor(c, a) => AnswersFor(c, a)'
      BY <1>3, <2>4, <3>1 DEF Verify, Goto, AnswersFor, TypeOK
    <3> QED BY <1>3, <2>1, <2>2, <2>4, <3>1, <3>2, PhaseStep DEF Verify
  <2> QED BY <1>3, <2>3, <2>4 DEF Verify
<1> QED BY <1>1, <1>2, <1>3

\* What is found on is on: the cutoff need not answer for it yet.
LEMMA ReadStep ==
  ASSUME IInv, TypeOK', NEW c \in Cutoffs, Read(c)
  PROVE  IInv'
<1> USE DEF IInv, Read, Goto, accounts
<1>1. cut[c] = {} /\ targets[c] = {}
  BY DEF CutInv
<1>2. AfterDisable(c) \in {"hold", "restore", "guard"}
  BY DEF AfterDisable
<1>3. cut' = [cut EXCEPT ![c] = On(c)]
  BY DEF Found
<1>4. ASSUME NEW d \in Cutoffs, d # c PROVE phase'[d] = phase[d] /\ cut'[d] = cut[d]
  BY <1>3, <1>4 DEF TypeOK
<1>5. CutInv'
  <2>1. ASSUME NEW d \in Cutoffs, d # c
        PROVE  /\ phase'[d] \in {"none", "check", "read", "refused"} => cut'[d] = {}
               /\ targets'[d] \subseteq cut'[d]
               /\ phase'[d] = "write" => kind'[d].live /\ Covered(d)' \subseteq cut'[d]
    BY <1>4, <2>1 DEF CutInv, Covered, IsManual
  <2>2. phase'[c] = "write" \/ phase'[c] \in {"hold", "restore", "guard"}
    BY <1>2 DEF TypeOK
  <2>3. targets'[c] \subseteq cut'[c]
    BY <1>1 DEF TypeOK
  <2>4. phase'[c] = "write" => kind'[c].live /\ Covered(c)' \subseteq cut'[c]
    <3> SUFFICES ASSUME phase'[c] = "write" PROVE kind[c].live /\ Covered(c)' \subseteq cut'[c]
      OBVIOUS
    <3>1. kind[c].live /\ On(c) # {}
      BY <1>2 DEF TypeOK
    <3>2. cut'[c] = On(c)
      BY <1>3 DEF TypeOK
    <3>3. Covered(c)' \subseteq On(c)
      BY <3>1, <3>2 DEF Covered, On, IsManual
    <3> QED BY <3>1, <3>2, <3>3
  <2> QED BY <2>1, <2>2, <2>3, <2>4 DEF CutInv
<1>6. HandsOff'
  BY <1>1, <1>4 DEF HandsOff
<1>7. OffInv'
  <2> SUFFICES ASSUME NEW a \in active \ adminOff, a \notin schedulable
               PROVE  \E d \in Cutoffs : AnswersFor(d, a)'
    BY DEF OffInv
  <2>1. PICK d \in Cutoffs : AnswersFor(d, a)
    BY DEF OffInv
  <2>2. d # c
    BY <1>1, <2>1 DEF AnswersFor
  <2> QED BY <1>4, <2>1, <2>2 DEF AnswersFor
<1> QED BY <1>5, <1>6, <1>7

\* Once it has switched off, the cutoff answers for what it covers.
LEMMA SwitchOffStep ==
  ASSUME IInv, TypeOK', NEW c \in Cutoffs, phase[c] = "write",
         NEW p \in {"verify", "hold", "guard", "restore", "failed"}, NEW reached,
         reached \subseteq Covered(c),
         schedulable' = schedulable \ reached,
         Goto(c, p), targets'[c] \subseteq cut[c],
         \A d \in Cutoffs \ {c} : targets'[d] = targets[d],
         UNCHANGED <<adminOff, active, kind, cut>>
  PROVE  IInv'
<1> USE DEF IInv, Goto
<1>1. ASSUME NEW d \in Cutoffs, d # c PROVE phase'[d] = phase[d] /\ targets'[d] = targets[d]
  BY <1>1 DEF TypeOK
<1>2. phase'[c] = p
  BY DEF TypeOK
<1>3. kind[c].live /\ Covered(c) \subseteq cut[c]
  BY DEF CutInv
<1>4. CutInv'
  BY <1>1, <1>2 DEF CutInv, Covered, IsManual
<1>5. HandsOff'
  BY DEF HandsOff
<1>6. OffInv'
  <2> SUFFICES ASSUME NEW a \in active \ adminOff, a \notin schedulable'
               PROVE  \E d \in Cutoffs : AnswersFor(d, a)'
    BY DEF OffInv
  <2>1. CASE a \in reached
    BY <1>2, <1>3, <2>1 DEF AnswersFor
  <2>2. CASE a \notin reached
    <3>1. PICK d \in Cutoffs : AnswersFor(d, a)
      BY <2>2 DEF OffInv
    <3>2. d # c
      BY <3>1 DEF AnswersFor
    <3> QED BY <1>1, <3>1, <3>2 DEF AnswersFor
  <2> QED BY <2>1, <2>2
<1> QED BY <1>4, <1>5, <1>6

\* The cutoff in force, and the start of its restore.
LEMMA ForceStep ==
  ASSUME IInv, TypeOK', NEW c \in Cutoffs,
         Guard(c) \/ Timer(c) \/ Hold(c) \/ RestoreRead(c) \/ Fails(c)
  PROVE  IInv'
<1> USE DEF IInv
<1>1. CASE Guard(c) \/ Timer(c) \/ Hold(c)
  <2>1. PICK p \in {"timer", "restore", "guard"} : Goto(c, p)
    BY <1>1 DEF Guard, Timer, Hold
  <2>2. UNCHANGED <<accounts, kind, cut, targets>> /\ phase[c] \in {"guard", "timer", "hold"}
    BY <1>1 DEF Guard, Timer, Hold
  <2>3. \A a : AnswersFor(c, a) => AnswersFor(c, a)'
    BY <2>1, <2>2 DEF Goto, AnswersFor, TypeOK
  <2>4. targets'[c] \subseteq cut[c]
    BY <2>2 DEF CutInv
  <2> QED BY <2>1, <2>2, <2>3, <2>4, PhaseStep
<1>2. CASE RestoreRead(c)
  <2>1. targets'[c] = Targets(c) /\ Targets(c) \subseteq cut[c]
    BY <1>2 DEF RestoreRead, Targets, TypeOK
  <2>2. \A d \in Cutoffs \ {c} : targets'[d] = targets[d]
    BY <1>2 DEF RestoreRead, TypeOK
  <2>3. ASSUME NEW a \in active \ schedulable, AnswersFor(c, a) PROVE AnswersFor(c, a)'
    <3>1. a \in Targets(c)
      BY <2>3 DEF AnswersFor, Targets
    <3> QED BY <1>2, <2>1, <2>3, <3>1 DEF AnswersFor, RestoreRead, Goto, TypeOK
  <2> QED BY <1>2, <2>1, <2>2, <2>3, PhaseStep DEF RestoreRead
<1>3. CASE Fails(c)
  <2>1. targets'[c] \subseteq cut[c] /\ \A d \in Cutoffs \ {c} : targets'[d] = targets[d]
    BY <1>3 DEF Fails, Closes, TypeOK
  <2>2. \A a : AnswersFor(c, a) => AnswersFor(c, a)'
    BY <1>3 DEF Fails, Closes, Goto, AnswersFor, TypeOK
  <2> QED BY <1>3, <2>1, <2>2, PhaseStep DEF Fails
<1> QED BY <1>1, <1>2, <1>3

\* What the restore does not switch on was on when it looked: somebody else
\* answers for it if it is off again.
LEMMA SwitchOnStep ==
  ASSUME IInv, TypeOK', NEW c \in Cutoffs, phase[c] = "restoring",
         NEW p \in {"done", "failed"}, NEW reached \in SUBSET targets[c],
         p = "failed" \/ reached = targets[c],
         schedulable' = schedulable \cup reached,
         Closes(c, p), UNCHANGED <<adminOff, active, kind, cut>>
  PROVE  IInv'
<1> USE DEF IInv, Closes, Goto
<1>1. ASSUME NEW d \in Cutoffs, d # c PROVE phase'[d] = phase[d] /\ targets'[d] = targets[d]
  BY <1>1 DEF TypeOK
<1>2. phase'[c] = p /\ targets'[c] = {}
  BY DEF TypeOK
<1>3. targets[c] \subseteq cut[c]
  BY DEF CutInv
<1>4. CutInv'
  BY <1>1, <1>2 DEF CutInv, Covered, IsManual
<1>5. HandsOff'
  BY <1>3 DEF HandsOff
<1>6. OffInv'
  <2> SUFFICES ASSUME NEW a \in active \ adminOff, a \notin schedulable'
               PROVE  \E d \in Cutoffs : AnswersFor(d, a)'
    BY DEF OffInv
  <2>1. PICK d \in Cutoffs : AnswersFor(d, a)
    BY DEF OffInv
  <2>2. CASE d = c
    <3>1. a \in targets[c] /\ a \notin reached
      BY <2>1, <2>2 DEF AnswersFor
    <3> QED BY <1>2, <2>1, <2>2, <3>1 DEF AnswersFor
  <2>3. CASE d # c
    BY <1>1, <2>1, <2>3 DEF AnswersFor
  <2> QED BY <2>2, <2>3
<1> QED BY <1>4, <1>5, <1>6

\* Deadlines, signals, administrators, breaking accounts, the OAuth pool.
LEMMA EnvironmentStep ==
  ASSUME IInv, TypeOK',
         \/ \E c \in Cutoffs : DeadlinePasses(c) \/ RestoreNow(c)
         \/ \E a \in Accounts : AdminSwitchesOff(a) \/ AdminSwitchesOn(a) \/ AccountBreaks(a)
         \/ OAuthPoolChanges
  PROVE  IInv'
<1> USE DEF IInv, DeadlinePasses, RestoreNow, AdminSwitchesOff, AdminSwitchesOn, AccountBreaks,
            OAuthPoolChanges, accounts
<1>1. UNCHANGED <<kind, phase, cut, targets>>
  OBVIOUS
<1>2. CutInv'
  BY <1>1 DEF CutInv, Covered, IsManual
<1>3. HandsOff'
  BY <1>1 DEF HandsOff
<1>4. ASSUME NEW a \in active' \ adminOff', a \notin schedulable'
      PROVE  a \in active \ adminOff /\ a \notin schedulable
  BY <1>4
<1>5. OffInv'
  BY <1>1, <1>4 DEF OffInv, AnswersFor
<1> QED BY <1>2, <1>3, <1>5

LEMMA NextInv == IInv /\ [Next]_vars => IInv'
<1> SUFFICES ASSUME IInv, [Next]_vars PROVE IInv'
  OBVIOUS
<1>1. CASE UNCHANGED vars
  BY <1>1 DEF vars, accounts, flags, IInv, TypeOK, CutInv, Covered, IsManual, HandsOff, OffInv, AnswersFor
<1>2. ASSUME Next PROVE IInv'
  <2>1. TypeOK'
    BY <1>2, TypeStep DEF IInv
  <2>2. ASSUME NEW c \in Cutoffs, SwitchOff(c) PROVE IInv'
    <3>1. PICK p \in {"verify", "hold", "guard", "restore", "failed"} : Goto(c, p)
      BY <2>2 DEF SwitchOff, AfterDisable
    <3>2. targets'[c] \subseteq cut[c] /\ \A d \in Cutoffs \ {c} : targets'[d] = targets[d]
      BY <2>2 DEF SwitchOff, IInv, CutInv
    <3> QED BY <2>1, <2>2, <3>1, <3>2, SwitchOffStep DEF SwitchOff
  <2>3. ASSUME NEW c \in Cutoffs, SwitchFails(c) PROVE IInv'
    <3>1. CASE phase[c] = "write"
      <4>1. PICK reached \in SUBSET Covered(c) : schedulable' = schedulable \ reached
        BY <2>3, <3>1 DEF SwitchFails
      <4>2. targets'[c] \subseteq cut[c] /\ \A d \in Cutoffs \ {c} : targets'[d] = targets[d]
        BY <2>3 DEF SwitchFails, Closes, IInv, TypeOK
      <4> QED BY <2>1, <2>3, <3>1, <4>1, <4>2, SwitchOffStep DEF SwitchFails, Closes
    <3>2. CASE phase[c] = "restoring"
      <4>1. PICK reached \in SUBSET targets[c] : schedulable' = schedulable \cup reached
        BY <2>3, <3>2 DEF SwitchFails
      <4> QED BY <2>1, <2>3, <3>2, <4>1, SwitchOnStep DEF SwitchFails
    <3> QED BY <2>3, <3>1, <3>2 DEF SwitchFails
  <2>4. ASSUME NEW c \in Cutoffs, SwitchOn(c) PROVE IInv'
    BY <2>1, <2>4, SwitchOnStep DEF SwitchOn
  <2>5. ASSUME NEW c \in Cutoffs,
               Submit(c) \/ Check(c) \/ Verify(c) \/ Read(c)
               \/ Guard(c) \/ Timer(c) \/ Hold(c) \/ RestoreRead(c) \/ Fails(c)
        PROVE  IInv'
    BY <2>1, <2>5, DisableStep, ReadStep, ForceStep
  <2>6. CASE \/ \E c \in Cutoffs : DeadlinePasses(c) \/ RestoreNow(c)
             \/ \E a \in Accounts : AdminSwitchesOff(a) \/ AdminSwitchesOn(a) \/ AccountBreaks(a)
             \/ OAuthPoolChanges
    BY <2>1, <2>6, EnvironmentStep
  <2> QED BY <1>2, <2>2, <2>3, <2>4, <2>5, <2>6 DEF Next, Workflow
<1> QED BY <1>1, <1>2

\* The inductive invariant: who cut what, and who answers for what is off.
THEOREM InvariantHolds == Spec => []IInv
<1> QED BY InitInv, NextInv, PTL DEF Spec

\* The variables keep their types.
THEOREM TypeCorrect == Spec => []TypeOK
<1>1. IInv => TypeOK
  BY DEF IInv
<1> QED BY <1>1, InvariantHolds, PTL

\* Restores never revive an account switched off by hand that no cutoff cut.
THEOREM RestoresRespectAdministrators == Spec => []HandsOff
<1>1. IInv => HandsOff
  BY DEF IInv
<1> QED BY <1>1, InvariantHolds, PTL

\* Cutoffs that come to their end leave no account off.
THEOREM CutoffsCleanUp == Spec => []NothingLeftOff
<1>1. IInv => NothingLeftOff
  BY DEF IInv, OffInv, AnswersFor, NothingLeftOff
<1> QED BY <1>1, InvariantHolds, PTL
=============================================================================
