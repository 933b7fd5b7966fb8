SPECIFICATION Spec
CONSTANTS
  None = None
  GenID = {g1, g2}
  Titles = {t1}
  MaxHistory = 2
  Deleters = {d1}
  Configured = {TRUE}
  MaxFaults = 0
  MaxStops = 0
  Labelling = FALSE
  RacingUploads = TRUE
SYMMETRY Symmetry
INVARIANT ActiveIntact
