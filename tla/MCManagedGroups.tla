--------------------------- MODULE MCManagedGroups --------------------------
(***************************************************************************)
(* TLC instance of ManagedGroups.                                          *)
(***************************************************************************)
EXTENDS ManagedGroups, TLC

CONSTANTS a, b, base, d, e, g, h, c1

TwoOthers == <<a, b>>

\* The group with id 0 has another name at one Pi-hole.
TwoDefaults == (a :> d) @@ (b :> e) @@ (base :> d)

\* d has id 0 at two Pi-holes, e at the other one.  A Pi-hole has both, with a group
\* g or without; or it lacks e.
On == [enabled |-> TRUE, comment |-> c1]
Off == [enabled |-> FALSE, comment |-> c1]
Three == (d :> Off) @@ (e :> Off) @@ (g :> Off) @@ (h :> None)
Two == (d :> On) @@ (e :> On) @@ (g :> None) @@ (h :> None)
One == (d :> On) @@ (e :> None) @@ (g :> None) @@ (h :> None)
At(ta, tb, tbase) == (a :> ta) @@ (b :> tb) @@ (base :> tbase)
FewStarts == {At(Three, Three, Three), At(Two, Two, Two), At(Two, Three, Two),
              At(Three, Three, One), At(One, Two, Three)}

FewAsked == {{e}, {g}, {h}, {g, h}}

Symmetry == Permutations(Requests)
=============================================================================
