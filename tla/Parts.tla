---------------------------------- MODULE Parts ----------------------------------
(***************************************************************************)
(* The parts of the system that share no state with each other stand side  *)
(* by side: a behaviour examines one of them, its part.  The parts are     *)
(* given the same variables v1, v2, ... in turn, for only one of them      *)
(* lives in a behaviour; those it has no use for stay Off.                 *)
(***************************************************************************)
EXTENDS Integers, FiniteSets, Sequences

CONSTANTS
  Off,        \* a variable without a use, or nothing
  MaxFaults   \* bound for each part: failing calls, lost answers, restarts, interventions

VARIABLES
  part,
  v1, v2, v3, v4, v5, v6, v7, v8, v9, v10, v11, v12, v13, v14

vars == <<part, v1, v2, v3, v4, v5, v6, v7, v8, v9, v10, v11, v12, v13, v14>>

\* A part of n variables leaves the others alone.
Unused(n) ==
  /\ IF n < 3 THEN v3 = Off ELSE TRUE
  /\ IF n < 4 THEN v4 = Off ELSE TRUE
  /\ IF n < 5 THEN v5 = Off ELSE TRUE
  /\ IF n < 6 THEN v6 = Off ELSE TRUE
  /\ IF n < 7 THEN v7 = Off ELSE TRUE
  /\ IF n < 8 THEN v8 = Off ELSE TRUE
  /\ IF n < 9 THEN v9 = Off ELSE TRUE
  /\ IF n < 10 THEN v10 = Off ELSE TRUE
  /\ IF n < 11 THEN v11 = Off ELSE TRUE
  /\ IF n < 12 THEN v12 = Off ELSE TRUE
  /\ IF n < 13 THEN v13 = Off ELSE TRUE
  /\ IF n < 14 THEN v14 = Off ELSE TRUE

Still(n) ==
  /\ IF n < 3 THEN UNCHANGED v3 ELSE TRUE
  /\ IF n < 4 THEN UNCHANGED v4 ELSE TRUE
  /\ IF n < 5 THEN UNCHANGED v5 ELSE TRUE
  /\ IF n < 6 THEN UNCHANGED v6 ELSE TRUE
  /\ IF n < 7 THEN UNCHANGED v7 ELSE TRUE
  /\ IF n < 8 THEN UNCHANGED v8 ELSE TRUE
  /\ IF n < 9 THEN UNCHANGED v9 ELSE TRUE
  /\ IF n < 10 THEN UNCHANGED v10 ELSE TRUE
  /\ IF n < 11 THEN UNCHANGED v11 ELSE TRUE
  /\ IF n < 12 THEN UNCHANGED v12 ELSE TRUE
  /\ IF n < 13 THEN UNCHANGED v13 ELSE TRUE
  /\ IF n < 14 THEN UNCHANGED v14 ELSE TRUE
=================================================================================
