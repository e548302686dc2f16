---------------------------- MODULE MCReadBroker ----------------------------
(* Small instances of ReadBroker for TLC.                                  *)
EXTENDS ReadBroker, TLC

\* Calls differ in nothing before they are made, and keys are only compared.
Symmetry == Permutations(Calls)
=============================================================================
