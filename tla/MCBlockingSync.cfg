\* Two requests of any kind about two Pi-holes, with two tries at each.
SPECIFICATION Spec
CONSTANTS
  Instances = {a, b}
  Requests = {r1, r2}
  Wanted = {"on", "timed"}
  Attempts = 2
SYMMETRY Symmetry
INVARIANTS
  ReportInv
  NothingIsRepeated
  OneListOfPresets
PROPERTIES
  ReadersKeepPresets
\* Nothing is left to do once every request is over.
CHECK_DEADLOCK FALSE
