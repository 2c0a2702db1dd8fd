\* One setup, one new instance, one toggle, three concurrent promotions.
SPECIFICATION SpecRegistry
CONSTANTS
  Identities = {a, b, c}
  Setups = {s1}
  Creations = {n1}
  Toggles = {g1}
  Promotions = {p1, p2, p3}
  Nobody = Nobody
SYMMETRY Symmetry
INVARIANT
  RegistryInv
PROPERTY KeepsBaseline
\* Every request may be over.
CHECK_DEADLOCK FALSE
