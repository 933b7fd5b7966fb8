SPECIFICATION Spec
CONSTANTS
  None = None
  GenID = {g1, g2}
  Titles = {t1}
  MaxHistory = 2
  Deleters = {d1}
  Configured = {TRUE, FALSE}
  MaxFaults = 1
  MaxStops = 1
  Labelling = TRUE
  RacingUploads = FALSE
SYMMETRY Symmetry
INVARIANTS NeverRefused IInv
PROPERTY LifecycleFollowed
CHECK_DEADLOCK FALSE
