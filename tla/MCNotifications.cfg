\* Two messages of one Pi-hole, one user, one fault and one expired row.
SPECIFICATION FairSpec
CONSTANTS
  Instances = {a}
  Messages = {m1, m2}
  Home <- AtOnePihole
  MaxPolls = 2
  Users = {u1}
  MaxRows = 5
  MaxFaults = 1
  MaxExpired = 1
  None = None
INVARIANTS
  RowInv
  AnnouncedOnce
PROPERTIES
  EveryMessageIsShown
  StaleRowsClose
\* Polls go on for ever.
CHECK_DEADLOCK TRUE
