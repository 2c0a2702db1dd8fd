\* Two requests at three Pi-holes, about a list and a domain.
SPECIFICATION Spec
CONSTANTS
  Instances = {a, b, base}
  Baseline = base
  Entries = {e1, e2}
  Domains = {e2}
  Contents = {c1, c2}
  Starts <- FewStarts
  Requests = {r1, r2}
  MaxFaults = 1
  None = None
  a = a
  b = b
  e1 = e1
  e2 = e2
  c1 = c1
  c2 = c2
SYMMETRY Symmetry
INVARIANTS
  EntryInv
  DomainIsAsAsked
  BaselineIsSpread
\* Nothing is left to do once every request is over.
CHECK_DEADLOCK FALSE
