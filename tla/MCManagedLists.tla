---------------------------- MODULE MCManagedLists ---------------------------
(***************************************************************************)
(* TLC instance of ManagedLists.                                           *)
(***************************************************************************)
EXTENDS ManagedLists, TLC

CONSTANTS a, b, e1, e2, c1, c2

\* A Pi-hole has an entry, the same with another content, or none.
FewStarts == {(e1 :> None) @@ (e2 :> c1), (e1 :> None) @@ (e2 :> c2), (e1 :> None) @@ (e2 :> None)}

Symmetry == Permutations(Requests) \cup Permutations({a, b}) \cup Permutations({c1, c2})
=============================================================================
