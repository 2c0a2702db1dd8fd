---------------------------- MODULE MCOverviewJobs --------------------------
(***************************************************************************)
(* TLC instances of OverviewJobs.                                          *)
(***************************************************************************)
EXTENDS OverviewJobs, TLC

\* Every kind, scope and period makes a key of its own.
DistinctKeys == [j \in Jobs |-> j]

EveryInstance == [j \in Jobs |-> Instances]

Symmetry == Permutations(Tasks) \cup Permutations(Requests)
=============================================================================
