-------------------------- MODULE MCAccountLifecycle --------------------------
(* Instances of AccountLifecycle for TLC. *)
EXTENDS AccountLifecycle, TLC

\* Accounts and runs are only compared with each other.
Symmetry == Permutations(Accounts) \cup Permutations(Runs)
=============================================================================
