---------------------------- MODULE ProbeIsolation ----------------------------
(***************************************************************************)
(* Isolated probes of API-key upstreams (ProbeIsolationService of          *)
(* src/src/probe-isolation.ts; the rounds of IdleAccountProbeService,      *)
(* src/src/idle-account-probe.ts): each account gets a private group, which*)
(* the shared monitor user may use, and a key of that user in the group;   *)
(* a file records what is ready.  A probe goes through the gateway with    *)
(* the key, so it measures whichever account the group of the key holds.   *)
(*                                                                         *)
(* A call that fails has had its effect or not; it has none later.         *)
(***************************************************************************)
EXTENDS Integers, FiniteSets

CONSTANTS
  Accounts,
  Taken,           \* accounts whose group name another platform uses
  Callers,         \* whoever calls ensure(): a route, a round
  Round,           \* the caller that runs rounds
  MaxGroups,       \* bound: groups of Sub2API
  MaxProbeFaults   \* bound: failing calls, restarts, changes made by others

VARIABLES
  group,         \* groups of Sub2API: whose they are, and under which name
  grouped,       \* the probe groups each account is in
  allowed,       \* groups the monitor user may use; it exists once there is one
  keyGroup,      \* the group of the key of each account
  record,        \* the file
  lock,          \* the caller that holds the lock
  ensure,        \* where each caller is
  round,         \* the round under way: accounts planned, repairs left
  measured,      \* pairs: the account a probe was meant for, the account it reached
  probeFaults

isolationVars == <<group, grouped, allowed, keyGroup, record, lock, ensure, round, measured, probeFaults>>

GroupIds == 1 .. MaxGroups
NoGroup == 0
Nobody == "nobody"
NoName == [of |-> Nobody, base |-> TRUE]
NoRecord == [group |-> NoGroup, ready |-> FALSE]
Idle == [stage |-> "idle", account |-> Nobody, group |-> NoGroup, seen |-> {}]
NoRound == [stage |-> "none", planned |-> {}, budget |-> 0]
Members(g) == {a \in Accounts : g \in grouped[a]}

\* A group with the name of one account may be there already, with another in it.
Init ==
  /\ \E a \in Accounts, foreign \in SUBSET Accounts :
       /\ group \in {[g \in GroupIds |-> NoName],
                     [g \in GroupIds |-> IF g = 1 THEN [of |-> a, base |-> TRUE] ELSE NoName]}
       /\ grouped = [b \in Accounts |-> IF b \in foreign /\ group[1] # NoName THEN {1} ELSE {}]
  /\ allowed = {}
  /\ keyGroup = [a \in Accounts |-> NoGroup]
  /\ record = [a \in Accounts |-> NoRecord]
  /\ lock = Nobody
  /\ ensure = [c \in Callers |-> Idle]
  /\ round = NoRound
  /\ measured = {}
  /\ probeFaults = 0

Fault == probeFaults < MaxProbeFaults /\ probeFaults' = probeFaults + 1

-----------------------------------------------------------------------------
(* ensure() *)

GoTo(c, stage) == ensure' = [ensure EXCEPT ![c].stage = stage]
At(c, stage) == ensure[c].stage = stage
Of(c) == ensure[c].account

\* Faulty: the lock is not waited for.
EntersAnyway == TRUE

\* inLock(): one caller at a time.
Enters == lock = Nobody

Ask(c, a) == ensure' = [ensure EXCEPT ![c] = [Idle EXCEPT !.stage = "lock", !.account = a]]

Ensure(c, a) ==
  /\ c # Round /\ At(c, "idle")
  /\ Ask(c, a)
  /\ UNCHANGED <<group, grouped, allowed, keyGroup, record, lock, round, measured, probeFaults>>

Enter(c) ==
  /\ At(c, "lock") /\ Enters
  /\ lock' = c
  /\ GoTo(c, "group")
  /\ UNCHANGED <<group, grouped, allowed, keyGroup, record, round, measured, probeFaults>>

\* The caller leaves; what it was asked for is done, or not.
Leave(c) == ensure' = [ensure EXCEPT ![c] = Idle] /\ lock' = Nobody

\* findOrCreateGroup() looks for the plain name; under a name with the platform it
\* finds nothing and creates another group, unless Sub2API refuses.
Named(a, base) == {g \in GroupIds : group[g] = [of |-> a, base |-> base]}

FindOrCreateGroup(c) ==
  /\ At(c, "group")
  /\ LET a == Of(c)
         base == a \notin Taken
     IN \/ \E g \in Named(a, TRUE) :
             base /\ ensure' = [ensure EXCEPT ![c].stage = "record", ![c].group = g] /\ UNCHANGED group
        \/ \E g \in GroupIds :
             /\ base => Named(a, TRUE) = {}
             /\ group[g] = NoName /\ \A h \in GroupIds : h < g => group[h] # NoName
             /\ group' = [group EXCEPT ![g] = [of |-> a, base |-> base]]
             /\ ensure' = [ensure EXCEPT ![c].stage = "record", ![c].group = g]
  /\ UNCHANGED <<grouped, allowed, keyGroup, record, lock, round, measured, probeFaults>>

\* A first record is written before there are credentials.
Record(c) ==
  /\ At(c, "record")
  /\ record' = IF record[Of(c)] = NoRecord THEN [record EXCEPT ![Of(c)].group = ensure[c].group] ELSE record
  /\ GoTo(c, "user")
  /\ UNCHANGED <<group, grouped, allowed, keyGroup, lock, round, measured, probeFaults>>

\* ensureMonitorUser() reads the groups of the user and writes them with one more.
FindUser(c) ==
  /\ At(c, "user")
  /\ ensure' = [ensure EXCEPT ![c].stage = "allow", ![c].seen = allowed]
  /\ UNCHANGED <<group, grouped, allowed, keyGroup, record, lock, round, measured, probeFaults>>

EnsureMonitorUser(c) ==
  /\ At(c, "allow")
  /\ allowed' = ensure[c].seen \cup {ensure[c].group}
  /\ ensure' = [ensure EXCEPT ![c].stage = "key", ![c].seen = {}]
  /\ UNCHANGED <<group, grouped, keyGroup, record, lock, round, measured, probeFaults>>

\* The key of the account is created in the group, or moved to it.
EnsureUserAndKey(c) ==
  /\ At(c, "key") /\ ensure[c].group \in allowed
  /\ keyGroup' = [keyGroup EXCEPT ![Of(c)] = ensure[c].group]
  /\ GoTo(c, "keep")
  /\ UNCHANGED <<group, grouped, allowed, record, lock, round, measured, probeFaults>>

KeepKey(c) ==
  /\ At(c, "keep")
  /\ record' = [record EXCEPT ![Of(c)] = [group |-> ensure[c].group, ready |-> FALSE]]
  /\ GoTo(c, "bind")
  /\ UNCHANGED <<group, grouped, allowed, keyGroup, lock, round, measured, probeFaults>>

\* ensureAccountBinding() reads the groups of the account, writes them with what is
\* missing, reads again, and refuses a group that holds another account.
FindAccount(c) ==
  /\ At(c, "bind")
  /\ ensure' = [ensure EXCEPT ![c].stage = "configure", ![c].seen = grouped[Of(c)]]
  /\ UNCHANGED <<group, grouped, allowed, keyGroup, record, lock, round, measured, probeFaults>>

ConfigureGroups(c) ==
  /\ At(c, "configure")
  /\ grouped' = [grouped EXCEPT ![Of(c)] = ensure[c].seen \cup {ensure[c].group}]
  /\ ensure' = [ensure EXCEPT ![c].stage = "verify", ![c].seen = {}]
  /\ UNCHANGED <<group, allowed, keyGroup, record, lock, round, measured, probeFaults>>

\* Faulty: whoever is in the group.
AnyMembers(c) == TRUE

OnlyMember(c) == Members(ensure[c].group) \subseteq {Of(c)}

VerifyBinding(c) ==
  /\ At(c, "verify")
  /\ ensure[c].group \in grouped[Of(c)] /\ OnlyMember(c)
  /\ GoTo(c, "ready")
  /\ UNCHANGED <<group, grouped, allowed, keyGroup, record, lock, round, measured, probeFaults>>

Ready(c) ==
  /\ At(c, "ready")
  /\ record' = [record EXCEPT ![Of(c)].ready = TRUE]
  /\ Leave(c)
  /\ UNCHANGED <<group, grouped, allowed, keyGroup, round, measured, probeFaults>>

\* A stage fails: because of what it finds, or because of a call.
Refuses(c) ==
  \/ At(c, "key") /\ ensure[c].group \notin allowed
  \/ At(c, "verify") /\ ~ (ensure[c].group \in grouped[Of(c)] /\ OnlyMember(c))
  \/ At(c, "group") /\ Of(c) \in Taken /\ Named(Of(c), FALSE) # {}

StageFails(c) ==
  /\ ensure[c].stage \notin {"idle", "lock"}
  /\ \/ Refuses(c) /\ UNCHANGED probeFaults
     \/ Fault
  /\ Leave(c)
  /\ UNCHANGED <<group, grouped, allowed, keyGroup, record, round, measured>>

-----------------------------------------------------------------------------
(* Rounds *)

\* run(): a second round of the scope is skipped while there is one.
RunRound(planned, budget) ==
  /\ round.stage = "none" /\ At(Round, "idle")
  /\ round' = [stage |-> "repair", planned |-> planned, budget |-> budget]
  /\ UNCHANGED <<group, grouped, allowed, keyGroup, record, lock, ensure, measured, probeFaults>>

\* An account is ready when its record is, and it is in the group it names.
Bound(a) == record[a].ready /\ record[a].group \in grouped[a]

Repair(a) ==
  /\ round.stage = "repair" /\ At(Round, "idle")
  /\ a \in round.planned /\ ~ Bound(a) /\ round.budget > 0
  /\ round' = [round EXCEPT !.budget = @ - 1]
  /\ Ask(Round, a)
  /\ UNCHANGED <<group, grouped, allowed, keyGroup, record, lock, measured, probeFaults>>

Repaired ==
  /\ round.stage = "repair" /\ At(Round, "idle")
  /\ round' = [round EXCEPT !.stage = "probe", !.planned = {a \in @ : Bound(a)}, !.budget = 0]
  /\ UNCHANGED <<group, grouped, allowed, keyGroup, record, lock, ensure, measured, probeFaults>>

\* probe(): a record that is no longer ready is skipped; the gateway finds an account
\* in the group of the key, or has none available.
Probe(a) ==
  /\ round.stage = "probe" /\ a \in round.planned
  /\ round' = [round EXCEPT !.planned = @ \ {a}]
  /\ measured' = IF record[a].ready /\ keyGroup[a] \in allowed
                 THEN measured \cup {<<a, b>> : b \in Members(keyGroup[a])} ELSE measured
  /\ UNCHANGED <<group, grouped, allowed, keyGroup, record, lock, ensure, probeFaults>>

RoundEnds ==
  /\ round.stage = "probe" /\ round.planned = {}
  /\ round' = NoRound
  /\ UNCHANGED <<group, grouped, allowed, keyGroup, record, lock, ensure, measured, probeFaults>>

-----------------------------------------------------------------------------
(* Others *)

\* An update of an upstream's groups drops the private one.
Regroup(a) ==
  /\ grouped[a] # {} /\ Fault
  /\ grouped' = [grouped EXCEPT ![a] = {}]
  /\ UNCHANGED <<group, allowed, keyGroup, record, lock, ensure, round, measured>>

Restart ==
  /\ Fault
  /\ ensure' = [c \in Callers |-> Idle] /\ lock' = Nobody /\ round' = NoRound
  /\ UNCHANGED <<group, grouped, allowed, keyGroup, record, measured>>

Next ==
  \/ \E c \in Callers :
       \/ Enter(c) \/ FindOrCreateGroup(c) \/ Record(c) \/ FindUser(c) \/ EnsureMonitorUser(c)
       \/ EnsureUserAndKey(c) \/ KeepKey(c) \/ FindAccount(c) \/ ConfigureGroups(c) \/ VerifyBinding(c)
       \/ Ready(c) \/ StageFails(c)
       \/ \E a \in Accounts : Ensure(c, a)
  \/ \E planned \in SUBSET Accounts : RunRound(planned, 1)
  \/ \E a \in Accounts : Repair(a) \/ Probe(a) \/ Regroup(a)
  \/ Repaired \/ RoundEnds \/ Restart

-----------------------------------------------------------------------------
(* Properties *)

\* ensureRecord() and probe(): whatever fails, restarts or is repaired at once, a
\* probe measures the account it was meant for or none; and the monitor user may use
\* the group of every record that is ready.
ProbesReachTheirAccount ==
  /\ \A pair \in measured : pair[1] = pair[2]
  /\ \A a \in Accounts : record[a].ready => record[a].group \in allowed

-----------------------------------------------------------------------------
(* The inductive invariant behind the property *)

Stages == {"idle", "lock", "group", "record", "user", "allow", "key", "keep", "bind", "configure",
           "verify", "ready"}
Ensures == [stage : Stages, account : Accounts \cup {Nobody}, group : GroupIds \cup {NoGroup}, seen : SUBSET GroupIds]

TypeInv ==
  /\ group \in [GroupIds -> [of : Accounts \cup {Nobody}, base : BOOLEAN]]
  /\ grouped \in [Accounts -> SUBSET GroupIds]
  /\ allowed \in SUBSET GroupIds
  /\ keyGroup \in [Accounts -> GroupIds \cup {NoGroup}]
  /\ record \in [Accounts -> [group : GroupIds \cup {NoGroup}, ready : BOOLEAN]]
  /\ ensure \in [Callers -> Ensures]

\* The groups that are private to an account.
Own(a) == {g \in GroupIds : group[g] = [of |-> a, base |-> a \notin Taken]}

\* Whoever is past the lock holds it, and has a group of its account in hand once it
\* has looked for one.
LockInv ==
  \A c \in Callers :
    /\ ensure[c].stage # "idle" => Of(c) \in Accounts
    /\ ensure[c].stage \notin {"idle", "lock"} => lock = c
    /\ ensure[c].stage \notin {"idle", "lock", "group"} => ensure[c].group \in Own(Of(c))

\* The groups of the monitor user are those that were seen and only become more; a
\* group is allowed before it is recorded as ready.
AllowedInv ==
  /\ \A c \in Callers :
       /\ At(c, "allow") => ensure[c].seen = allowed
       /\ ensure[c].stage \in {"keep", "bind", "configure", "verify", "ready"} => ensure[c].group \in allowed
       /\ ensure[c].stage \in {"bind", "configure", "verify", "ready"} =>
            record[Of(c)].group = ensure[c].group
  /\ \A a \in Accounts : record[a].ready => record[a].group \in allowed

\* A plain name is given once, a key is in a private group of its account, and nobody
\* is in a group that nobody has made.
NameInv ==
  /\ \A a \in Accounts \ Taken, g, h \in GroupIds : g \in Own(a) /\ h \in Own(a) => g = h
  /\ \A a \in Accounts : keyGroup[a] # NoGroup => keyGroup[a] \in Own(a)
  /\ \A a \in Accounts : \A g \in grouped[a] : group[g] # NoName
  /\ \A c \in Callers : At(c, "configure") => \A g \in ensure[c].seen : group[g] # NoName

\* The account is in the group, or will be put back.
Joins(b, g) == g \in grouped[b] \/ \E c \in Callers : At(c, "configure") /\ Of(c) = b /\ g \in ensure[c].seen

\* While another account is in a private group, its owner is not ready.
ForeignInv ==
  \A a, b \in Accounts : \A g \in Own(a) :
    a # b /\ Joins(b, g) =>
      /\ a \notin Taken /\ ~record[a].ready
      /\ \A c \in Callers : At(c, "ready") => Of(c) # a

MeasuredInv == \A pair \in measured : pair[1] = pair[2]

IsolationInv == TypeInv /\ LockInv /\ AllowedInv /\ NameInv /\ ForeignInv /\ MeasuredInv
=============================================================================
