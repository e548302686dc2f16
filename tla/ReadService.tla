----------------------------- MODULE ReadService -----------------------------
(***************************************************************************)
(* What the read broker promises to its callers, without queues, tasks,    *)
(* connections or a cache: every call gets one answer and keeps it, an     *)
(* answer is something the database held by then, and the answers to one   *)
(* key never go back in time.                                              *)
(***************************************************************************)
EXTENDS Naturals

CONSTANTS Calls, Keys, MaxVersion, Unissued, Pending, Rejected

VARIABLES
    keyOf,   \* the key each call asks for
    answer,  \* Unissued, Pending, Rejected or the version of the rows
    now      \* what the database holds

vars == <<keyOf, answer, now>>

Answered(c) == answer[c] \in 0..MaxVersion

Init ==
    /\ keyOf \in [Calls -> Keys]
    /\ answer = [c \in Calls |-> Unissued]
    /\ now = 0

\* v may be told to a caller of k: no caller of k has been told anything newer.
Tellable(k, v) ==
    /\ v \in 0..now
    /\ \A c \in Calls : (Answered(c) /\ keyOf[c] = k) => answer[c] <= v

Ask(c, k) ==
    /\ answer[c] = Unissued
    /\ keyOf' = [keyOf EXCEPT ![c] = k]
    /\ \E a \in {Pending, Rejected} \cup {v \in 0..MaxVersion : Tellable(k, v)} :
           answer' = [answer EXCEPT ![c] = a]
    /\ UNCHANGED now

Answer(S, k, v) ==
    /\ \A c \in S : answer[c] = Pending /\ keyOf[c] = k
    /\ Tellable(k, v)
    /\ answer' = [c \in Calls |-> IF c \in S THEN v ELSE answer[c]]
    /\ UNCHANGED <<keyOf, now>>

Refuse(S) ==
    /\ \A c \in S : answer[c] = Pending
    /\ answer' = [c \in Calls |-> IF c \in S THEN Rejected ELSE answer[c]]
    /\ UNCHANGED <<keyOf, now>>

Commit ==
    /\ now < MaxVersion
    /\ now' = now + 1
    /\ UNCHANGED <<keyOf, answer>>

Next ==
    \/ \E c \in Calls, k \in Keys : Ask(c, k)
    \/ \E S \in SUBSET Calls : Refuse(S) \/ \E k \in Keys, v \in 0..MaxVersion : Answer(S, k, v)
    \/ Commit

Spec == Init /\ [][Next]_vars
=============================================================================
