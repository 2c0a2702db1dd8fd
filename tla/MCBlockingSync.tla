---------------------------- MODULE MCBlockingSync --------------------------
(***************************************************************************)
(* TLC instance of BlockingSync.                                           *)
(***************************************************************************)
EXTENDS BlockingSync, TLC

Symmetry == Permutations(Instances) \cup Permutations(Requests)
=============================================================================
