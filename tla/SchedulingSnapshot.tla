-------------------------- MODULE SchedulingSnapshot --------------------------
(***************************************************************************)
(* The read model of one scheduling scope (UpstreamSchedulingV2Service of  *)
(* src/src/upstream-scheduling-v2.ts).  A snapshot is put together from    *)
(* sections that are read separately, each of which may fail or take too   *)
(* long: then the section of the snapshot before it is shown instead.  The *)
(* snapshot is kept in memory and in the operations database.  A request   *)
(* gets a fresh one at once, an old one while another is built behind it,  *)
(* or, if it insists or there is none, waits for a build.                  *)
(*                                                                         *)
(* Times are counted in captures: a section that was read has the number   *)
(* of the snapshot it was read for, whose sections get their time together *)
(* once all of them have settled.                                          *)
(***************************************************************************)
EXTENDS Integers, FiniteSets

CONSTANTS
  Requests,
  Sections,
  Usage,           \* the section of the usage cache
  MaxBuilds,       \* bound: builds
  MaxSnapshotFaults

VARIABLES
  memory,      \* memoryCache
  stored,      \* the row of the operations database
  builds,      \* what each build has read
  inFlight,    \* the build that others wait for
  captures,    \* snapshots captured
  asked,       \* where each request is
  newest,      \* the newest snapshot served
  snapshotFaults

snapshotVars == <<memory, stored, builds, inFlight, captures, asked, newest, snapshotFaults>>

Nothing == 0
NoBuild == 0
BuildIds == 1 .. MaxBuilds

Empty == [state |-> "unavailable", data |-> Nothing, at |-> Nothing]
NoSnapshot == [capture |-> 0, sections |-> [s \in Sections |-> Empty]]
Unstarted == [stage |-> "none", before |-> NoSnapshot, background |-> FALSE, missing |-> {}, sections |-> NoSnapshot.sections]
NoRequest == [stage |-> "idle", force |-> FALSE, cached |-> NoSnapshot, build |-> NoBuild, newest |-> 0, answer |-> NoSnapshot, label |-> "none"]

Init ==
  /\ memory = NoSnapshot
  /\ stored = NoSnapshot
  /\ builds = [b \in BuildIds |-> Unstarted]
  /\ inFlight = NoBuild
  /\ captures = 0
  /\ asked = [r \in Requests |-> NoRequest]
  /\ newest = 0
  /\ snapshotFaults = 0

Fault == snapshotFaults < MaxSnapshotFaults /\ snapshotFaults' = snapshotFaults + 1

Running == {b \in BuildIds : builds[b].stage \in {"reading", "saving"}}

-----------------------------------------------------------------------------
(* snapshot() *)

Answer(request, snapshot, label) == [request EXCEPT !.stage = "answered", !.answer = snapshot, !.label = label]

Latest(number) == IF number > newest THEN number ELSE newest

\* A build starts from the snapshot that is there, if any.
Starts(before, background) ==
  \E b \in BuildIds :
    /\ builds[b].stage = "none" /\ \A c \in BuildIds : c < b => builds[c].stage # "none"
    /\ builds' = [builds EXCEPT ![b] = [Unstarted EXCEPT !.stage = "reading", !.before = before,
                                                         !.background = background, !.missing = Sections]]
    /\ inFlight' = b

Waits(request, b) == [request EXCEPT !.stage = "waits", !.build = b]

\* Faulty: a request that finds an old snapshot always has another built.
AlwaysRefreshes == TRUE

\* refreshInBackground(): nothing while a build is under way.
Refreshes == inFlight = NoBuild

\* What a request does once it knows the snapshot that is there.
Decide(r, request, cached) ==
  LET known == [request EXCEPT !.cached = cached]
      had == cached # NoSnapshot
  IN \/ \* It is recent.
        /\ had /\ ~ request.force
        /\ asked' = [asked EXCEPT ![r] = Answer(known, cached, "hit")]
        /\ newest' = Latest(cached.capture)
        /\ UNCHANGED <<builds, inFlight>>
     \/ \* It is old.
        /\ had /\ ~ request.force
        /\ asked' = [asked EXCEPT ![r] = Answer(known, cached, "stale")]
        /\ newest' = Latest(cached.capture)
        /\ IF Refreshes THEN Starts(cached, TRUE) ELSE UNCHANGED <<builds, inFlight>>
     \/ /\ (request.force \/ ~ had) /\ inFlight # NoBuild
        /\ asked' = [asked EXCEPT ![r] = Waits(known, inFlight)]
        /\ UNCHANGED <<builds, inFlight, newest>>
     \/ /\ (request.force \/ ~ had) /\ inFlight = NoBuild
        /\ Starts(cached, FALSE)
        /\ asked' = [asked EXCEPT ![r] = Waits(known, inFlight')]
        /\ UNCHANGED newest

\* persistedCache() has the snapshot of the memory, or reads the row.
Snapshot(r, force) ==
  /\ asked[r].stage = "idle"
  /\ LET request == [NoRequest EXCEPT !.force = force, !.newest = newest] IN
     IF memory # NoSnapshot
     THEN Decide(r, request, memory)
     ELSE /\ asked' = [asked EXCEPT ![r] = [request EXCEPT !.stage = "reads", !.cached = stored]]
          /\ UNCHANGED <<builds, inFlight, newest>>
  /\ UNCHANGED <<memory, stored, captures, snapshotFaults>>

\* The row arrives, read when the request came or by now.
RowArrives(r) ==
  /\ asked[r].stage = "reads"
  /\ \E row \in {asked[r].cached, stored} :
       /\ memory' = IF row = NoSnapshot THEN memory ELSE row
       /\ Decide(r, asked[r], row)
  /\ UNCHANGED <<stored, captures, snapshotFaults>>

RowReadFails(r) ==
  /\ asked[r].stage = "reads" /\ Fault
  /\ asked' = [asked EXCEPT ![r] = Answer(@, NoSnapshot, "error")]
  /\ UNCHANGED <<memory, stored, builds, inFlight, captures, newest>>

-----------------------------------------------------------------------------
(* buildSnapshot() *)

Reading(b) == builds[b].stage = "reading"
Settled(b, s, section) == builds' = [builds EXCEPT ![b].missing = @ \ {s}, ![b].sections[s] = section]

\* The snapshot that is being read will be the next to be captured.
ReadNow == LET now == captures + 1 IN [state |-> "fresh", data |-> now, at |-> now]

\* A section is read in time.
ReadSection(b, s) ==
  /\ Reading(b) /\ s \in builds[b].missing
  /\ Settled(b, s, ReadNow)
  /\ UNCHANGED <<memory, stored, inFlight, captures, asked, newest, snapshotFaults>>

\* Faulty: the section of the snapshot before is taken for fresh.
TakenForFresh(s, before) == [before EXCEPT !.state = "fresh"]

\* A section that is not falls back to the one before, with the time of that one.  The
\* usage rows of a snapshot are results and are read here as rows of the cache: none
\* of them is one.
Fallback(s, before) ==
  [state |-> IF before.at # Nothing THEN "stale" ELSE "unavailable",
   data |-> IF s = Usage THEN Nothing ELSE before.data,
   at |-> before.at]

SectionFails(b, s) ==
  /\ Reading(b) /\ s \in builds[b].missing /\ Fault
  /\ Settled(b, s, Fallback(s, builds[b].before.sections[s]))
  /\ UNCHANGED <<memory, stored, inFlight, captures, asked, newest>>

\* All have settled: the snapshot is captured and saved; a failure to save is logged.
Save(b) ==
  /\ Reading(b) /\ builds[b].missing = {}
  /\ captures' = captures + 1
  /\ builds' = [builds EXCEPT ![b].stage = "saving", ![b].before = [capture |-> captures', sections |-> builds[b].sections]]
  /\ \/ stored' = builds'[b].before /\ UNCHANGED snapshotFaults
     \/ Fault /\ UNCHANGED stored
  /\ UNCHANGED <<memory, inFlight, asked, newest>>

Waiting(b) == {r \in Requests : asked[r].stage = "waits" /\ asked[r].build = b}
NoLongerInFlight(b) == inFlight' = IF inFlight = b THEN NoBuild ELSE inFlight

Built(b) ==
  /\ builds[b].stage = "saving"
  /\ LET snapshot == builds[b].before IN
     /\ memory' = snapshot
     /\ asked' = [r \in Requests |-> IF r \in Waiting(b) THEN Answer(asked[r], snapshot, "refreshed") ELSE asked[r]]
     /\ newest' = IF Waiting(b) = {} THEN newest ELSE Latest(snapshot.capture)
  /\ builds' = [builds EXCEPT ![b] = [Unstarted EXCEPT !.stage = "ended"]]
  /\ NoLongerInFlight(b)
  /\ UNCHANGED <<stored, captures, snapshotFaults>>

\* The scores cannot be read: a build behind a request puts back what the request had;
\* whoever waits gets what it had, or the error.
BuildFails(b) ==
  /\ Reading(b) /\ builds[b].missing = Sections /\ Fault
  /\ memory' = IF builds[b].background THEN builds[b].before ELSE memory
  /\ asked' = [r \in Requests |-> IF r \notin Waiting(b) THEN asked[r]
                                  ELSE Answer(asked[r], asked[r].cached, IF asked[r].cached = NoSnapshot THEN "error" ELSE "stale")]
  /\ builds' = [builds EXCEPT ![b] = [Unstarted EXCEPT !.stage = "ended"]]
  /\ NoLongerInFlight(b)
  /\ UNCHANGED <<stored, captures, newest>>

-----------------------------------------------------------------------------
(* The world *)

AsksAgain(r) ==
  /\ asked[r].stage = "answered"
  /\ asked' = [asked EXCEPT ![r] = NoRequest]
  /\ UNCHANGED <<memory, stored, builds, inFlight, captures, newest, snapshotFaults>>

Restart ==
  /\ Fault
  /\ memory' = NoSnapshot
  /\ builds' = [b \in BuildIds |-> IF b \in Running THEN [Unstarted EXCEPT !.stage = "ended"] ELSE builds[b]]
  /\ inFlight' = NoBuild
  /\ asked' = [r \in Requests |-> NoRequest]
  /\ UNCHANGED <<stored, captures, newest>>

Next ==
  \/ \E r \in Requests :
       RowArrives(r) \/ RowReadFails(r) \/ AsksAgain(r) \/ \E force \in BOOLEAN : Snapshot(r, force)
  \/ \E b \in BuildIds :
       Save(b) \/ Built(b) \/ BuildFails(b) \/ \E s \in Sections : ReadSection(b, s) \/ SectionFails(b, s)
  \/ Restart

Spec == Init /\ [][Next]_snapshotVars

-----------------------------------------------------------------------------
(* Properties *)

Snapshots == {memory, stored} \cup {asked[r].answer : r \in Requests}

\* buildSnapshot() and snapshot(): a scope is built once at a time, whoever asks; a
\* request that is told "refreshed" got nothing older than what was served before it
\* was made; and a section said to be fresh was read for this very snapshot, one said to
\* be stale is older and has the data of the time it names, the usage section excepted.
SnapshotsAreHonest ==
  /\ \A b, c \in Running : b = c
  /\ \A r \in Requests : asked[r].label = "refreshed" => asked[r].answer.capture >= asked[r].newest
  /\ \A snapshot \in Snapshots, s \in Sections :
       LET section == snapshot.sections[s] IN
       /\ section.state = "fresh" => section.data = snapshot.capture /\ section.data # Nothing
       /\ section.state = "stale" => section.at # Nothing /\ section.at < snapshot.capture
       /\ section.state = "unavailable" => section.at = Nothing
       /\ section.state # "fresh" /\ s # Usage => section.data = section.at

\* upstream-scheduling.md:358: a section that fails keeps its data and the time of it.
FailedSectionKeepsItsData ==
  \A snapshot \in Snapshots, s \in Sections :
    snapshot.sections[s].state = "stale" => snapshot.sections[s].data = snapshot.sections[s].at

-----------------------------------------------------------------------------
(* The inductive invariant behind the properties *)

SectionValues == [state : {"fresh", "stale", "unavailable"}, data : Nat, at : Nat]

\* What the sections say of themselves, and what a later build may take over from them.
HonestSections ==
  {sections \in [Sections -> SectionValues] :
    \A s \in Sections :
      /\ sections[s].state = "fresh" => sections[s].data = sections[s].at /\ sections[s].at # Nothing
      /\ s # Usage => sections[s].data = sections[s].at
      /\ sections[s].state = "stale" <=> sections[s].state # "fresh" /\ sections[s].at # Nothing}

\* How old they are in a snapshot of this number.
Dated(sections, capture) ==
  \A s \in Sections :
    /\ sections[s].state = "fresh" => sections[s].at = capture
    /\ sections[s].state = "stale" => sections[s].at < capture

SnapshotValues == {x \in [capture : Nat, sections : HonestSections] : Dated(x.sections, x.capture)}
BuildValues ==
  [stage : {"none", "reading", "saving", "ended"}, before : SnapshotValues, background : BOOLEAN,
   missing : SUBSET Sections, sections : HonestSections]
RequestValues ==
  [stage : {"idle", "reads", "waits", "answered"}, force : BOOLEAN, cached : SnapshotValues,
   build : BuildIds \cup {NoBuild}, newest : Nat, answer : SnapshotValues,
   label : {"none", "hit", "stale", "refreshed", "error"}]

TypeInv ==
  /\ memory \in SnapshotValues /\ stored \in SnapshotValues
  /\ builds \in [BuildIds -> BuildValues] /\ asked \in [Requests -> RequestValues]
  /\ inFlight \in BuildIds \cup {NoBuild}
  /\ captures \in Nat /\ newest \in Nat

\* One build at a time, and what it saves is the latest capture.
BuildInv(b) ==
  /\ builds[b].stage \in {"reading", "saving"} => inFlight = b
  /\ builds[b].stage = "saving" => builds[b].before.capture = captures
  /\ builds[b].before.capture <= captures
  /\ builds[b].stage = "reading" => Dated(builds[b].sections, captures + 1)

RequestInv(r) ==
  /\ asked[r].cached.capture <= captures /\ asked[r].answer.capture <= captures
  /\ asked[r].newest <= captures
  /\ asked[r].label = "refreshed" => asked[r].answer.capture >= asked[r].newest

SnapshotInv ==
  /\ TypeInv /\ newest <= captures /\ memory.capture <= captures /\ stored.capture <= captures
  /\ \A b \in BuildIds : BuildInv(b)
  /\ \A r \in Requests : RequestInv(r)
=============================================================================
