-------------------------- MODULE MCInstanceRegistry ------------------------
(***************************************************************************)
(* TLC instances of InstanceRegistry.                                      *)
(***************************************************************************)
EXTENDS InstanceRegistry, TLC

Symmetry == Permutations(Identities) \cup Permutations(Promotions)
=============================================================================
