SPECIFICATION Spec
CONSTANTS
  None = None
  GenID = {g1, g2}
  Titles = {t1}
  MaxHistory = 2
  Deleters = {d1}
  Configured = {TRUE}
  MaxFaults = 1
  MaxStops = 1
  Labelling = FALSE
  RacingUploads = FALSE
SYMMETRY Symmetry
INVARIANT ActiveIntact
CHECK_DEADLOCK FALSE
