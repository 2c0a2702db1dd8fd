\* Two requests at a baseline and two other Pi-holes.
SPECIFICATION Spec
CONSTANTS
  Others <- TwoOthers
  Baseline = base
  Names = {d, e, g, h}
  Default <- TwoDefaults
  Comments = {c1}
  Starts <- FewStarts
  Asked <- FewAsked
  Requests = {r1, r2}
  MaxFaults = 1
  None = None
  a = a
  b = b
  base = base
  d = d
  e = e
  g = g
  h = h
  c1 = c1
SYMMETRY Symmetry
INVARIANTS
  GroupInv
  ConflictsAreReported
PROPERTIES
  SyncConverges
  DefaultIsKept
\* Nothing is left to do once every request is over.
CHECK_DEADLOCK FALSE
