--------------------------- MODULE MCConfigTopics ---------------------------
(***************************************************************************)
(* TLC instance of ConfigTopics.                                           *)
(***************************************************************************)
EXTENDS ConfigTopics, TLC

Symmetry == Permutations(Askers) \cup Permutations(Piholes) \cup Permutations(Items)
=============================================================================
