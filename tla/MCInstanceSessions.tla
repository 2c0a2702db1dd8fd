-------------------------- MODULE MCInstanceSessions ------------------------
(***************************************************************************)
(* TLC instances of InstanceSessions.                                      *)
(***************************************************************************)
EXTENDS InstanceSessions, TLC

\* Requests, and the two connections of the one instance, are alike.
Symmetry == Permutations(Requests) \cup Permutations(Targets)
=============================================================================
