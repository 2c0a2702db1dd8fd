\* Two requests about a topic of an array and one other field, at two Pi-holes.
SPECIFICATION SpecTopics
CONSTANTS
  Piholes = {a, b}
  Items = {x, y}
  Fields = {f}
  Values = {1, 2}
  Askers = {r1, r2}
  MaxFaults = 1
  Missing = Missing
SYMMETRY Symmetry
INVARIANTS
  TopicInv
  AgreedChangesSurvive
PROPERTY CopyIsWhole
\* Nothing is left to do once every request is over.
CHECK_DEADLOCK FALSE
