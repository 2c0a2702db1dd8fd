-------------------------- MODULE MCOverviewRetention -----------------------
(***************************************************************************)
(* TLC instances of OverviewRetention.                                     *)
(***************************************************************************)
EXTENDS OverviewRetention

\* Every kind, scope and period makes a key of its own.
DistinctKeys == [j \in Jobs |-> j]

EveryInstance == [j \in Jobs |-> Instances]
=============================================================================
