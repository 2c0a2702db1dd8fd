-------------------------- MODULE MCQueryMemberships -------------------------
(***************************************************************************)
(* TLC instance of QueryMemberships, and of ManagedClients within it.      *)
(***************************************************************************)
EXTENDS QueryMemberships, TLC

CONSTANTS a, base, c, d, g, h, k, m, n1

\* Two groups and one client, or one group, with another id, and both clients.
One == (c :> [groups |-> {1, 2}, comment |-> k]) @@ (d :> None)
Both == (c :> [groups |-> {}, comment |-> m]) @@ (d :> [groups |-> {2}, comment |-> k])
FewStarts ==
  {[groups |-> (g :> 1) @@ (h :> 2), clients |-> One],
   [groups |-> (g :> 2) @@ (h :> None), clients |-> Both]}

\* Groups, a comment, an alias, or an alias together with groups.
FewSaves ==
  {[kind |-> "save", clients |-> {c, d}, groups |-> w[1], comment |-> w[2], alias |-> w[3],
    to |-> {a, base}] :
     w \in {<<{2}, None, None>>, <<None, m, None>>, <<None, None, n1>>, <<{2}, None, n1>>}}

\* A group, no group, or nothing at all.
FewUpdates ==
  {[kind |-> "update", clients |-> {c}, groups |-> w, to |-> {a, base}] : w \in {{2}, {}, None}}

FewGroups == {(1 :> h) @@ (2 :> None)}

Symmetry == Permutations(Requests) \cup Permutations(Refreshes)
=============================================================================
