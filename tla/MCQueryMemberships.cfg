\* Two requests or refreshes, about two clients at a baseline and another Pi-hole.
SPECIFICATION SpecRefreshes
CONSTANTS
  Instances = {a, base}
  Baseline = base
  Clients = {c, d}
  Names = {g, h}
  Ids = {1, 2}
  Comments = {k, m}
  Blank = k
  Aliases = {n1}
  Starts <- FewStarts
  Saves <- FewSaves
  Updates <- FewUpdates
  Requests = {r1, r2}
  Refreshes = {q1, q2}
  OldGroups <- FewGroups
  MaxStarted = 2
  MaxFaults = 1
  MaxRegroups = 1
  None = None
  a = a
  base = base
  c = c
  d = d
  g = g
  h = h
  k = k
  m = m
  n1 = n1
SYMMETRY Symmetry
INVARIANTS
  ClientInv
  GroupsGoByName
  CacheInv
PROPERTY KeepsTheRest
\* Nothing is left to do once every request is over.
CHECK_DEADLOCK FALSE
