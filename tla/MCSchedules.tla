----------------------------- MODULE MCSchedules -----------------------------
(* An instance of Schedules for TLC. *)
EXTENDS Schedules

CONSTANTS r1, r2, q, p, a

ScoreIds == {r1, r2}
QuotaIds == {q}
ProbeIds == {p}
PlainIds == {a}

\* The configuration is edited between two starts of the worker: intervals
\* change (and with them the id of the score schedule), scopes are disabled.
ThreeConfigs ==
  {[enabled |-> {r1, q, p, a}, cadence |-> 1],
   [enabled |-> {r2, q, p}, cadence |-> 2],
   [enabled |-> {q, a}, cadence |-> 1]}
=============================================================================
