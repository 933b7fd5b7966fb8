SPECIFICATION Spec
CONSTANTS
  None = None
  GenID = {g1, g2, g3}
  Titles = {t1}
  MaxHistory = 3
  Deleters = {d1, d2}
  Configured = {TRUE}
  MaxFaults = 0
  MaxStops = 1
  Labelling = FALSE
  RacingUploads = FALSE
SYMMETRY Symmetry
INVARIANTS OneWriter ActiveIntact SourcesIntact PayloadRemoved
